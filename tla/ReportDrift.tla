----------------------------- MODULE ReportDrift ----------------------------
(***************************************************************************)
(* generate of src/report.rs in a git working tree: `report` renders the   *)
(* artifacts of a suite from its raw file and writes them one after the    *)
(* other; `report --check` renders them again and compares them with what  *)
(* is in the tree.  The README is shared by the suites, the file           *)
(* raw.jsonl.sha256 by those that report into one directory, and the       *)
(* provenance names the commit and whether the tree was dirty.             *)
(*                                                                         *)
(* What is rendered is a function of the raw text, of whether the report   *)
(* is given the official evidence, and of options that stay the same for a *)
(* suite, so a file is modelled by what it was rendered from.  Nobody      *)
(* edits or commits while a report runs.                                   *)
(***************************************************************************)
EXTENDS Naturals, Sequences

CONSTANTS
  Suites,       \* the suites reported into one directory and README
  Texts,        \* the raw texts a suite has had
  MaxReports,   \* bounds of the model: reports started,
  MaxCommits    \* and commits made

ASSUME DriftAssumption == MaxReports \in Nat /\ MaxCommits \in Nat

VARIABLES
  input,     \* input[s] : the raw text of suite s
  evidence,  \* evidence[s] : the raw text the official evidence binds
  work,      \* work[f] : file f in the working tree
  index,     \* index[f] : file f as it was committed last
  head,      \* number of the current commit
  report,    \* the report in progress: its suite, what it rendered, what is left
  reports,   \* how many were started
  fresh      \* the suite of a report that ended, if nothing happened since

vars == <<input, evidence, work, index, head, report, reports, fresh>>

Absent == [kind |-> "absent"]      \* in the index: not tracked
Torn == [kind |-> "torn"]
Of(text) == [kind |-> "of", text |-> text]
Idle == [kind |-> "idle"]
NoSuite == "no suite"

\* "derived" stands for the summary, the ranked and ksloc tables and the
\* manifest, "plots" for the SVG files, "code" for what no report touches.
Shared == {"readme", "sha", "code"}
Own(s) == {<<s, "raw">>, <<s, "derived">>, <<s, "provenance">>, <<s, "plots">>}
File(name) == <<"shared", name>>
Files == {File(name) : name \in Shared} \cup UNION {Own(s) : s \in Suites}

\* A README: its prose and what its markers hold.  The markers are "absent",
\* "loose" when the last is on a line of its own, or "tight".
Readme(prose, markers, block) ==
  [kind |-> "readme", prose |-> prose, markers |-> markers, block |-> block]

NoBlock == <<>>

Init ==
  /\ input \in [Suites -> Texts]
  /\ evidence = input
  /\ \E markers \in {"absent", "tight"} :
       work = [f \in Files |->
                 CASE f = File("readme") -> Readme("original", markers, NoBlock)
                   [] f = File("code") -> Of(0)
                   [] OTHER -> Absent]
  /\ index = work
  /\ head = 0
  /\ report = Idle
  /\ reports = 0
  /\ fresh = NoSuite

-----------------------------------------------------------------------------
(* Rendering *)

\* git diff --quiet: tracked files only.
Dirty == \E f \in Files : index[f] # Absent /\ index[f] # work[f]

\* replace_block appends markers that are not there, with a line end between
\* the block and the last one, and puts none there when they are.
ReplaceBlock(readme, block) ==
  Readme(readme.prose, IF readme.markers = "absent" THEN "loose" ELSE "tight", block)

\* A torn README has lost its markers.
Legible(readme) == IF readme = Torn THEN Readme("cut", "absent", NoBlock) ELSE readme

\* The versions in the block are those of the evidence; without evidence there
\* are none.
RenderedReadme(s, official) == ReplaceBlock(Legible(work[File("readme")]), <<s, input[s], official>>)

\* Variant: the commit is left out.
ProvenanceNoCommit(s, official) ==
  [kind |-> "provenance", raw |-> input[s], readme |-> RenderedReadme(s, official),
   git_sha |-> 0, git_dirty |-> Dirty]

\* Its hashes are those of the texts as rendered.  That its command line tells
\* whether evidence was given shows in the README here.
Provenance(s, official) ==
  [kind |-> "provenance", raw |-> input[s], readme |-> RenderedReadme(s, official),
   git_sha |-> head, git_dirty |-> Dirty]

\* The command line is in the manifest, as it is without --check.
Rendered(s, official) ==
  [f \in Own(s) \cup {File("readme"), File("sha")} |->
     CASE f = File("readme") -> RenderedReadme(s, official)
       [] f = <<s, "provenance">> -> Provenance(s, official)
       [] f = <<s, "derived">> -> Of(<<s, input[s], official>>)
       [] OTHER -> Of(<<s, input[s]>>)]

\* The hash file is of the raw file just written, and the plots come last.
Order(s) ==
  << <<s, "raw">>, <<s, "derived">>, <<s, "provenance">>,
     File("readme"), File("sha"), <<s, "plots">> >>

Binds(s) == evidence[s] = input[s]

-----------------------------------------------------------------------------
(* report *)

\* Official evidence must bind the raw text, --local-diagnostics or not; without
\* any, --local-diagnostics lets the report pass.
Render(s, official) ==
  /\ report = Idle
  /\ reports < MaxReports
  /\ official => Binds(s)
  /\ report' = [kind |-> "writing", suite |-> s, files |-> Rendered(s, official), left |-> Order(s)]
  /\ reports' = reports + 1
  /\ fresh' = NoSuite
  /\ UNCHANGED <<input, evidence, work, index, head>>

Put(f, text) == work' = [work EXCEPT ![f] = text]

MoreToWriteOffByOne == Len(report.left) >= 1    \* Variant
MoreToWrite == Len(report.left) > 1

WriteNext ==
  /\ report # Idle
  /\ Put(Head(report.left), report.files[Head(report.left)])
  /\ IF MoreToWrite
       THEN report' = [report EXCEPT !.left = Tail(@)] /\ UNCHANGED fresh
       ELSE report' = Idle /\ fresh' = report.suite
  /\ UNCHANGED <<input, evidence, index, head, reports>>

\* A write errs or the process is killed, before or within a file.  A README
\* may be cut behind its markers.
Cut ==
  /\ report # Idle
  /\ LET f == Head(report.left)
     IN  \/ UNCHANGED work
         \/ Put(f, Torn)
         \/ f = File("readme") /\ Put(f, [report.files[f] EXCEPT !.prose = "cut"])
  /\ report' = Idle
  /\ UNCHANGED <<input, evidence, index, head, reports, fresh>>

-----------------------------------------------------------------------------
(* report --check *)

\* Variant: the README is not looked at.
VerifiedSansReadme(s) == Own(s)

\* verify_existing compares all but the hash file.
Verified(s) == Own(s) \cup {File("readme")}

\* Variant: --local-diagnostics lets a check pass as it lets a report.
AcceptsUnbound(s) ==
  \E official \in BOOLEAN :
    (official => Binds(s)) /\ \A f \in Verified(s) : work[f] = Rendered(s, official)[f]

\* A check needs the official evidence, --local-diagnostics or not.
Accepts(s) == Binds(s) /\ \A f \in Verified(s) : work[f] = Rendered(s, TRUE)[f]

-----------------------------------------------------------------------------
(* What happens between two reports *)

\* A suite has run again; official evidence may have been made of it.
NewRun ==
  /\ report = Idle
  /\ \E s \in Suites : \E text \in Texts \ {input[s]} :
       /\ input' = [input EXCEPT ![s] = text]
       /\ evidence' \in {evidence, [evidence EXCEPT ![s] = text]}
  /\ fresh' = NoSuite
  /\ UNCHANGED <<work, index, head, report, reports>>

\* Somebody edits the README around the markers, or another file.
Edit ==
  /\ report = Idle
  /\ \/ /\ work[File("readme")] # Torn
        /\ Put(File("readme"), [work[File("readme")] EXCEPT !.prose = "edited"])
     \/ Put(File("code"), Of(1))
  /\ fresh' = NoSuite
  /\ UNCHANGED <<input, evidence, index, head, report, reports>>

\* Some of the changed files are committed, the README and code or all.
Commit ==
  /\ report = Idle
  /\ head < MaxCommits
  /\ \E added \in {Files, {File("readme"), File("code")}} :
       /\ \E f \in added : index[f] # work[f]
       /\ index' = [f \in Files |-> IF f \in added THEN work[f] ELSE index[f]]
  /\ head' = head + 1
  /\ fresh' = NoSuite
  /\ UNCHANGED <<input, evidence, work, report, reports>>

Next ==
  \/ \E s \in Suites, official \in BOOLEAN : Render(s, official)
  \/ WriteNext \/ Cut \/ NewRun \/ Edit \/ Commit

Spec == Init /\ [][Next]_vars

-----------------------------------------------------------------------------
(* Properties *)

IsReadme(text) ==
  /\ text.kind = "readme"
  /\ text.markers \in {"absent", "loose", "tight"}
  /\ text.block = NoBlock \/ text.block \in Suites \X Texts \X BOOLEAN

IsProvenance(text) ==
  text.kind = "provenance" /\ text.raw \in Texts /\ text.git_sha \in 0 .. head

TypeOK ==
  /\ input \in [Suites -> Texts]
  /\ evidence \in [Suites -> Texts]
  /\ DOMAIN work = Files /\ DOMAIN index = Files
  /\ \A tree \in {work, index} :
       /\ tree[File("readme")] = Torn \/ IsReadme(tree[File("readme")])
       /\ \A s \in Suites :
            tree[<<s, "provenance">>] \in {Absent, Torn} \/ IsProvenance(tree[<<s, "provenance">>])
  /\ head \in 0 .. MaxCommits
  /\ reports \in 0 .. MaxReports
  /\ fresh \in Suites \cup {NoSuite}
  /\ \/ report = Idle
     \/ report.kind = "writing" /\ report.suite \in Suites /\ report.left # <<>>

\* A check right after the report it repeats accepts exactly when the report was
\* given the official evidence (then the evidence still binds the raw file), had
\* not to append the markers, and writing the files has not changed whether the
\* tree is dirty, which the provenance names as it was before.
FreshCheck ==
  fresh # NoSuite =>
    (Accepts(fresh) <=>
       /\ work[<<fresh, "derived">>] = Of(<<fresh, input[fresh], TRUE>>)
       /\ work[File("readme")].markers = "tight"
       /\ work[<<fresh, "provenance">>].git_dirty = Dirty)

\* No check accepts artifacts as some commit holds them: the provenance in a
\* commit names an earlier one.
CommittedNeverAccepted ==
  \A s \in Suites : Accepts(s) => index[<<s, "provenance">>] # work[<<s, "provenance">>]

\* The suites share the README and each check looks at it: at most one suite is
\* ever in sync, the one that was reported last.
OneSuiteInSync == \A s, t \in Suites : Accepts(s) /\ Accepts(t) => s = t
=============================================================================
