------------------------------- MODULE AllRun -------------------------------
(***************************************************************************)
(* run_all_suites and the suites of src/cli.rs, and what they leave in the *)
(* output directory (src/evidence.rs, src/beyond_sqlite/taxonomy.rs): the  *)
(* raw file of each suite, the files derived from it, the combined file    *)
(* --output names, the manifest of all suites and official-evidence.json,  *)
(* whose hashes `report` later compares with the raw file it is given.     *)
(*                                                                         *)
(* A job writes the files one after the other and stops at the first error *)
(* or when it is killed; nothing is rolled back, and the next job, for all *)
(* suites or for one, finds what the last one left.  Meanwhile the target  *)
(* may be built again: the records name the build found when their suite   *)
(* began, the provenance and the evidence the one found when they are      *)
(* written.  A hash is modelled by the text it is taken of.                *)
(***************************************************************************)
EXTENDS Naturals, Sequences

CONSTANTS
  Outputs,      \* the files --output may name for --suite all
  MaxJobs,      \* bounds of the model: jobs run in the directory,
  MaxReplaced   \* and builds that replace the target

Order == <<"sqlite_parity", "memory", "rql_phase1", "beyond_sqlite">>

Suites == {Order[n] : n \in 1 .. 4}

Files == Suites \cup Outputs

ASSUME AllAssumption ==
  /\ Outputs # {}     \* some of them may be raw files
  /\ MaxJobs \in Nat
  /\ MaxReplaced \in Nat

VARIABLES
  file,        \* file[f] : the text of f, a sequence of chunks
  derived,     \* derived[s] : summary, ranking and manifest of suite s
  provenance,  \* provenance[s] : its provenance
  manifest,    \* all-manifest.json
  evidence,    \* official-evidence.json
  build,       \* which build the target's path holds
  job,         \* number of the current job, which the times tell apart
  output,      \* the file --output names for the current job
  doing,       \* the suites the current job runs, in order
  at,          \* the suite it is at
  pc,          \* where it is
  named,       \* the build the records of that suite name
  failures,    \* whether its beyond_sqlite summary counts failures
  replacedIn   \* the jobs during which the target was replaced

vars == <<file, derived, provenance, manifest, evidence, build, job, output,
          doing, at, pc, named, failures, replacedIn>>

jobvars == <<job, output, doing>>
sidevars == <<derived, provenance, manifest, evidence>>

None == [kind |-> "none"]
Torn == [kind |-> "torn"]    \* cut short, or some of the files of two jobs

\* The records one suite of one job writes: all of them, or not all.
Chunk(s, whole) == [suite |-> s, job |-> job, build |-> named, whole |-> whole]

Init ==
  /\ file = [f \in Files |-> <<>>]
  /\ derived = [s \in Suites |-> None]
  /\ provenance = [s \in Suites |-> None]
  /\ manifest = None
  /\ evidence = None
  /\ build = 0
  /\ job = 0
  /\ output \in Outputs
  /\ doing = Order
  /\ at = 1
  /\ pc = "idle"
  /\ named = 0
  /\ failures = FALSE
  /\ replacedIn = {}

\* A build of the target ends, or another is installed.
Replace ==
  /\ build < MaxReplaced
  /\ build' = build + 1
  /\ replacedIn' = IF pc = "idle" THEN replacedIn ELSE replacedIn \cup {job}
  /\ UNCHANGED <<file, sidevars, jobvars, at, pc, named, failures>>

\* A job for one suite may write its records to any file of the directory.
Start ==
  /\ pc = "idle"
  /\ job < MaxJobs
  /\ job' = job + 1
  /\ \/ doing' = Order /\ output' \in Outputs
     \/ \E s \in Suites : doing' = <<s>> /\ output' \in Files
  /\ at' = 1
  /\ pc' = "prepare"
  /\ failures' = FALSE
  /\ UNCHANGED <<file, sidevars, build, named, replacedIn>>

All == Len(doing) > 1

Suite == doing[at]

Raw == IF All THEN Suite ELSE output

Write(f, text) == file' = [file EXCEPT ![f] = text]

\* prepare_output truncates the raw file; then the suite identifies the target.
Prepare ==
  /\ pc = "prepare"
  /\ Write(Raw, <<>>)
  /\ named' = build
  /\ pc' = "run"
  /\ UNCHANGED <<sidevars, build, jobvars, at, failures, replacedIn>>

\* The suite has written some of its records.
WriteSome ==
  /\ pc = "run"
  /\ file[Raw] = <<>>
  /\ Write(Raw, <<Chunk(Suite, FALSE)>>)
  /\ UNCHANGED <<sidevars, build, jobvars, at, pc, named, failures, replacedIn>>

\* It has written all of them and ends well.  Only beyond_sqlite ends well with
\* failures: the other suites bail.
SuiteRan ==
  /\ pc = "run"
  /\ Write(Raw, <<Chunk(Suite, TRUE)>>)
  /\ failures' \in (IF Suite = "beyond_sqlite" THEN BOOLEAN ELSE {failures})
  /\ pc' = "derive"
  /\ UNCHANGED <<sidevars, build, jobvars, at, named, replacedIn>>

\* Variant: a suite that bails does not end the job.
SuiteBailsGoesOn ==
  /\ pc = "run"
  /\ \E text \in {file[Raw], <<Chunk(Suite, TRUE)>>} : Write(Raw, text)
  /\ pc' = "derive"
  /\ UNCHANGED <<sidevars, build, jobvars, at, named, failures, replacedIn>>

\* It bails, its records complete (some case failed) or not (some step erred).
SuiteBails ==
  /\ pc = "run"
  /\ \E text \in {file[Raw], <<Chunk(Suite, TRUE)>>} : Write(Raw, text)
  /\ pc' = "idle"
  /\ UNCHANGED <<sidevars, build, jobvars, at, named, failures, replacedIn>>

\* The raw file is read back, and summary, ranking and manifest are written.
\* They go beside the raw file, under names that depend on the suite only.
Derived == [kind |-> "whole", job |-> job, of |-> file[Raw]]

\* Variant: what is there already is kept.
DeriveKeepsOld ==
  /\ pc = "derive"
  /\ derived' = [derived EXCEPT ![Suite] = IF @ = None THEN Derived ELSE @]
  /\ pc' = "provenance"
  /\ UNCHANGED <<file, provenance, manifest, evidence, build, jobvars, at, named, failures, replacedIn>>

Derive ==
  /\ pc = "derive"
  /\ derived' = [derived EXCEPT ![Suite] = Derived]
  /\ pc' = "provenance"
  /\ UNCHANGED <<file, provenance, manifest, evidence, build, jobvars, at, named, failures, replacedIn>>

\* Variant: beyond_sqlite looks at the target again too.
TargetNow == build

\* The provenance of beyond_sqlite names the target its records name; the other
\* suites hash the path again.
TargetOfProvenance == IF Suite = "beyond_sqlite" THEN named ELSE build

HasMoreOffByOne == at <= Len(doing)    \* Variant
HasMore == at < Len(doing)

AfterSuite == IF HasMore THEN "prepare" ELSE IF All THEN "combine" ELSE "idle"

WriteProvenance ==
  /\ pc = "provenance"
  /\ provenance' = [provenance EXCEPT ![Suite] =
       [kind |-> "whole", job |-> job, target |-> TargetOfProvenance,
        raw |-> file[Raw], derived |-> derived[Suite]]]
  /\ at' = IF HasMore THEN at + 1 ELSE at
  /\ pc' = AfterSuite
  /\ UNCHANGED <<file, derived, manifest, evidence, build, jobvars, named, failures, replacedIn>>

\* The raw files, read back and written one after the other to --output.
Combined == file["sqlite_parity"] \o file["memory"] \o file["rql_phase1"] \o file["beyond_sqlite"]

\* Variant: --output is opened to append.
CombineAppends ==
  /\ pc = "combine"
  /\ Write(output, file[output] \o Combined)
  /\ pc' = "manifest"
  /\ UNCHANGED <<sidevars, build, jobvars, at, named, failures, replacedIn>>

Combine ==
  /\ pc = "combine"
  /\ Write(output, Combined)
  /\ pc' = "manifest"
  /\ UNCHANGED <<sidevars, build, jobvars, at, named, failures, replacedIn>>

\* write_all_manifest: the paths and the counts of the four summaries.
WriteManifest ==
  /\ pc = "manifest"
  /\ manifest' = [kind |-> "whole", job |-> job, output |-> output]
  /\ pc' = "evidence"
  /\ UNCHANGED <<file, derived, provenance, evidence, build, jobvars, at, named, failures, replacedIn>>

\* write_official_evidence looks at the target and hashes the files as they are
\* now.
Evidence ==
  [kind |-> "whole", job |-> job, output |-> output, target |-> build,
   status |-> IF failures THEN "failed" ELSE "passed",
   combined |-> file[output], manifest |-> manifest,
   raw |-> [s \in Suites |-> file[s]], derived |-> derived, provenance |-> provenance]

WriteEvidence ==
  /\ pc = "evidence"
  /\ evidence' = Evidence
  /\ pc' = "idle"
  /\ UNCHANGED <<file, derived, provenance, manifest, build, jobvars, at, named, failures, replacedIn>>

\* A write errs or the job is killed.  The file it is writing keeps part of the
\* text, or is truncated: fs::write empties a file before it fills it.
Stop ==
  /\ pc # "idle"
  /\ pc' = "idle"
  /\ \/ UNCHANGED <<file, sidevars>>
     \/ /\ pc = "derive"
        /\ derived' = [derived EXCEPT ![Suite] = Torn]
        /\ UNCHANGED <<file, provenance, manifest, evidence>>
     \/ /\ pc = "provenance"
        /\ provenance' = [provenance EXCEPT ![Suite] = Torn]
        /\ UNCHANGED <<file, derived, manifest, evidence>>
     \/ /\ pc = "combine"
        /\ \E n \in 0 .. Len(Combined) - 1 : Write(output, SubSeq(Combined, 1, n))
        /\ UNCHANGED sidevars
     \/ /\ pc = "manifest"
        /\ manifest' = Torn
        /\ UNCHANGED <<file, derived, provenance, evidence>>
     \/ /\ pc = "evidence"
        /\ evidence' = Torn
        /\ UNCHANGED <<file, derived, provenance, manifest>>
  /\ UNCHANGED <<build, jobvars, at, named, failures, replacedIn>>

Next ==
  \/ Replace \/ Start \/ Prepare \/ WriteSome \/ SuiteRan \/ SuiteBails \/ Derive
  \/ WriteProvenance \/ Combine \/ WriteManifest \/ WriteEvidence \/ Stop

Spec == Init /\ [][Next]_vars

-----------------------------------------------------------------------------
(* report --official-evidence *)

\* validate_official_evidence_binding accepts text as the raw file of suite s.
Binds(s, text) == evidence.kind = "whole" /\ evidence.raw[s] = text

-----------------------------------------------------------------------------
(* Properties *)

Chunks == [suite : Suites, job : 1 .. MaxJobs, build : 0 .. MaxReplaced, whole : BOOLEAN]

Texts == Seq(Chunks)

Derivatives == {None, Torn} \cup [kind : {"whole"}, job : 1 .. MaxJobs, of : Texts]

Provenances ==
  {None, Torn} \cup
  [kind : {"whole"}, job : 1 .. MaxJobs, target : 0 .. MaxReplaced, raw : Texts, derived : Derivatives]

Manifests == {None, Torn} \cup [kind : {"whole"}, job : 1 .. MaxJobs, output : Outputs]

TypeOK ==
  /\ file \in [Files -> Texts]
  /\ derived \in [Suites -> Derivatives]
  /\ provenance \in [Suites -> Provenances]
  /\ manifest \in Manifests
  /\ evidence \in {None, Torn} \cup
       [kind : {"whole"}, job : 1 .. MaxJobs, output : Outputs, target : 0 .. MaxReplaced,
        status : {"passed", "failed"}, combined : Texts, manifest : Manifests,
        raw : [Suites -> Texts], derived : [Suites -> Derivatives], provenance : [Suites -> Provenances]]
  /\ build \in 0 .. MaxReplaced
  /\ job \in 0 .. MaxJobs
  /\ output \in Files
  /\ doing = Order \/ \E s \in Suites : doing = <<s>>
  /\ at \in 1 .. Len(doing)
  /\ pc \in {"idle", "prepare", "run", "derive", "provenance", "combine", "manifest", "evidence"}
  /\ named \in 0 .. MaxReplaced
  /\ failures \in BOOLEAN
  /\ replacedIn \subseteq 1 .. MaxJobs

\* text is all that suite s wrote in job j, or all that the four suites did.
WholeOf(text, s, j) ==
  Len(text) = 1 /\ text[1].suite = s /\ text[1].job = j /\ text[1].whole

WholeOfAll(text, j) ==
  /\ Len(text) = 4
  /\ \A n \in 1 .. 4 : text[n].suite = Order[n] /\ text[n].job = j /\ text[n].whole

\* Whatever jobs were run, killed and rerun in the directory, a text that the
\* evidence binds as the raw file of a suite, whichever file it is in, is all
\* that suite wrote in the one job the evidence describes; never part of it, nor
\* records of a later job.  The exception is a --output that names a raw file:
\* all suites are bound to that one.
BindsOneWholeRun ==
  \A f \in Files : \A s \in Suites : Binds(s, file[f]) =>
    IF s = evidence.output THEN WholeOfAll(file[f], evidence.job)
    ELSE WholeOf(file[f], s, evidence.job)

\* A file never mixes the records of two jobs, and what several suites left in it
\* is in suite order, up to where a kill cut it.
OneJobPerFile ==
  \A f \in Files : \A n \in DOMAIN file[f] :
    /\ file[f][n].job = file[f][1].job
    /\ Len(file[f]) > 1 => file[f][n].suite = Order[n] /\ file[f][n].whole

\* The evidence hashes files of its own job only, though the directory may hold
\* those of others: the derived files and the provenance of every suite were made
\* from the raw text it binds.  Except for the suite whose raw file --output
\* named: its provenance hashes a text that is gone.
HashesAgree ==
  evidence.kind = "whole" => \A s \in Suites :
    LET p == evidence.provenance[s] IN
      /\ p.kind = "whole" /\ p.job = evidence.job
      /\ p.derived = evidence.derived[s]
      /\ p.derived.kind = "whole" /\ p.derived.job = evidence.job
      /\ p.derived.of = p.raw
      /\ p.raw = evidence.raw[s] <=> s # evidence.output

\* Which build of the target is named where: the records name one no newer than
\* their provenance, which names one no newer than the evidence; beyond_sqlite's
\* provenance always names that of the records; and all agree if the target was
\* not replaced while the job ran.
BuildsInOrder ==
  evidence.kind = "whole" => \A s \in Suites :
    LET p == evidence.provenance[s] IN
      /\ p.raw[1].build <= p.target /\ p.target <= evidence.target
      /\ s = "beyond_sqlite" => p.target = p.raw[1].build
      /\ evidence.job \notin replacedIn => p.raw[1].build = evidence.target
=============================================================================
