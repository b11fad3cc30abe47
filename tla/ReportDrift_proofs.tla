------------------------ MODULE ReportDrift_proofs -------------------------
(***************************************************************************)
(* Proofs about report and its check for every number of suites, raw texts,*)
(* reports and commits: the inductive invariant IInv, and what follows.    *)
(***************************************************************************)
EXTENDS ReportDrift, Integers, SequenceTheorems, TLAPS

\* What report --check looks at, and the hash file.
Targets(s) == Own(s) \cup {File("readme"), File("sha")}

Readmes ==
  [kind : {"readme"}, prose : {"original", "edited", "cut"}, markers : {"absent", "loose", "tight"},
   block : {NoBlock} \cup (Suites \X Texts \X BOOLEAN)]

\* Provenances that name a commit up to h.
Provenances(h) ==
  [kind : {"provenance"}, raw : Texts, readme : Readmes, git_sha : 0 .. h, git_dirty : BOOLEAN]

TreeUpTo(tree, h) ==
  /\ DOMAIN tree = Files
  /\ tree[File("readme")] \in Readmes \cup {Torn}
  /\ \A s \in Suites : tree[<<s, "provenance">>] \in Provenances(h) \cup {Absent, Torn}

\* The tree may name the current commit, what is committed only earlier ones.
Trees == TreeUpTo(work, head) /\ TreeUpTo(index, head - 1)

\* What a report of s, with the official evidence or without, renders from a raw
\* text when h is the current commit.
Intended(s, files, text, official, h) ==
  /\ files[File("readme")] \in Readmes
  /\ files[File("readme")].block = <<s, text, official>>
  /\ files[<<s, "provenance">>] \in Provenances(h)
  /\ files[<<s, "provenance">>].raw = text
  /\ files[<<s, "provenance">>].readme = files[File("readme")]
  /\ files[<<s, "provenance">>].git_sha = h
  /\ files[<<s, "derived">>] = Of(<<s, text, official>>)
  /\ \A f \in Targets(s) \ {File("readme"), <<s, "provenance">>, <<s, "derived">>} :
       files[f] = Of(<<s, text>>)

\* The same, and official evidence is evidence of that text.
Faithful(s, files) ==
  \E official \in BOOLEAN :
    /\ official => Binds(s)
    /\ Intended(s, files, input[s], official, head)

\* A file the report in progress has no more to write holds what is intended.
Progress ==
  report # Idle =>
    /\ DOMAIN report = {"kind", "suite", "files", "left"}
    /\ report.kind = "writing"
    /\ report.suite \in Suites
    /\ report.left \in Seq(Targets(report.suite)) /\ report.left # <<>>
    /\ Faithful(report.suite, report.files)
    /\ \A f \in Targets(report.suite) :
         work[f] = report.files[f] \/ \E i \in 1 .. Len(report.left) : report.left[i] = f

Done == fresh # NoSuite => fresh \in Suites /\ report = Idle /\ Faithful(fresh, work)

Counters ==
  /\ input \in [Suites -> Texts]
  /\ evidence \in [Suites -> Texts]
  /\ head \in 0 .. MaxCommits
  /\ reports \in 0 .. MaxReports

IInv == Counters /\ Trees /\ Progress /\ Done

-----------------------------------------------------------------------------
(* Files and texts *)

LEMMA TargetsAreFiles ==
  ASSUME NEW s \in Suites
  PROVE  Targets(s) \subseteq Files /\ <<s, "provenance">> \in Targets(s)
BY DEF Targets, Files, File, Shared, Own

\* Only the suite's own provenance is among the targets of a report.
LEMMA ProvenanceIsOwn ==
  ASSUME NEW s \in Suites, NEW t \in Suites, <<t, "provenance">> \in Targets(s)
  PROVE  t = s
BY DEF Targets, Own, File

LEMMA NotTheReadme ==
  ASSUME NEW s \in Suites
  PROVE  /\ <<s, "provenance">> # File("readme") /\ <<s, "provenance">> # File("code")
         /\ <<s, "derived">> # File("readme") /\ <<s, "derived">> # <<s, "provenance">>
BY DEF File

LEMMA OrderIsComplete ==
  ASSUME NEW s \in Suites
  PROVE  /\ Order(s) \in Seq(Targets(s)) /\ Order(s) # <<>>
         /\ \A f \in Targets(s) : \E i \in 1 .. Len(Order(s)) : Order(s)[i] = f
BY SMTT(30) DEF Order, Targets, Own

LEMMA TailOfSeq ==
  ASSUME NEW S, NEW q \in Seq(S), Len(q) > 1
  PROVE  /\ Tail(q) \in Seq(S) /\ Tail(q) # <<>> /\ Len(Tail(q)) = Len(q) - 1
         /\ \A i \in 1 .. Len(q) - 1 : Tail(q)[i] = q[i + 1]
<1>1. q # <<>> /\ Len(q) \in Nat
  OBVIOUS
<1>2. /\ Tail(q) \in Seq(S) /\ Len(Tail(q)) = Len(q) - 1
      /\ \A i \in 1 .. Len(Tail(q)) : Tail(q)[i] = q[i + 1]
  BY <1>1, HeadTailProperties
<1>3. Len(Tail(q)) # 0
  BY <1>1, <1>2
<1>4. Tail(q) # <<>>
  BY <1>2, <1>3, EmptySeq
<1> QED
  BY <1>1, <1>2, <1>4

LEMMA ReplacedIsReadme ==
  ASSUME Counters, NEW s \in Suites, NEW official \in BOOLEAN,
         work[File("readme")] \in Readmes \cup {Torn}
  PROVE  /\ RenderedReadme(s, official) \in Readmes
         /\ RenderedReadme(s, official).block = <<s, input[s], official>>
<1> DEFINE old == Legible(work[File("readme")])
<1>1. old \in Readmes
  BY DEF Legible, Readme, Readmes
<1> DEFINE block == <<s, input[s], official>>
<1>2. block \in Suites \X Texts \X BOOLEAN
  BY DEF Counters
<1> HIDE DEF old, block
<1>3. ReplaceBlock(old, block) \in Readmes /\ ReplaceBlock(old, block).block = block
  BY <1>1, <1>2 DEF ReplaceBlock, Readme, Readmes
<1> QED
  BY <1>3 DEF RenderedReadme, old, block

LEMMA RenderedIsIntended ==
  ASSUME IInv, NEW s \in Suites, NEW official \in BOOLEAN
  PROVE  Intended(s, Rendered(s, official), input[s], official, head)
<1> DEFINE files == Rendered(s, official)
           readme == RenderedReadme(s, official)
           provenance == Provenance(s, official)
<1>1. readme \in Readmes /\ readme.block = <<s, input[s], official>>
  BY ReplacedIsReadme DEF IInv, Trees, TreeUpTo
<1>2. \A f \in Targets(s) :
        files[f] = IF f = File("readme") THEN readme
                   ELSE IF f = <<s, "provenance">> THEN provenance
                   ELSE IF f = <<s, "derived">> THEN Of(<<s, input[s], official>>)
                   ELSE Of(<<s, input[s]>>)
  <2> TAKE f \in Targets(s)
  <2>1. f \in Own(s) \cup {File("readme"), File("sha")}
    BY DEF Targets
  <2>2. CASE f = File("readme")
    BY <2>1, <2>2, NotTheReadme DEF Rendered
  <2>3. CASE f # File("readme") /\ f = <<s, "provenance">>
    BY <2>1, <2>3 DEF Rendered
  <2>4. CASE f # File("readme") /\ f # <<s, "provenance">>
    BY <2>1, <2>4 DEF Rendered
  <2> QED
    BY <2>2, <2>3, <2>4
<1>3. provenance \in Provenances(head)
  BY <1>1 DEF Provenance, Provenances, IInv, Counters, Dirty
<1>4. /\ File("readme") \in Targets(s) /\ <<s, "provenance">> \in Targets(s)
      /\ <<s, "derived">> \in Targets(s)
  BY DEF Targets, Own
<1>5. provenance.raw = input[s] /\ provenance.readme = readme /\ provenance.git_sha = head
  BY DEF Provenance
<1>6. <<s, "provenance">> # File("readme") /\ <<s, "derived">> # File("readme")
  BY DEF File
<1> HIDE DEF files, readme, provenance
<1>7. Intended(s, files, input[s], official, head)
  BY <1>1, <1>2, <1>3, <1>4, <1>5, <1>6 DEF Intended
<1> QED
  BY <1>7 DEF files

-----------------------------------------------------------------------------
(* Every step keeps the invariant *)

LEMMA InitInvariant == Init => IInv
<1> SUFFICES ASSUME Init PROVE IInv
  OBVIOUS
<1>1. Counters
  BY DriftAssumption DEF Init, Counters
<1>2. Trees
  <2>1. DOMAIN work = Files /\ work[File("readme")] \in Readmes
    <3>1. File("readme") # File("code") /\ File("readme") \in Files
      BY DEF File, Files, Shared
    <3> QED
      BY <3>1 DEF Init, Readme, Readmes
  <2>2. \A s \in Suites : work[<<s, "provenance">>] = Absent
    BY NotTheReadme, TargetsAreFiles DEF Init
  <2> QED
    BY <2>1, <2>2 DEF Init, Trees, TreeUpTo
<1>3. Progress /\ Done
  BY DEF Init, Progress, Done
<1> QED
  BY <1>1, <1>2, <1>3 DEF IInv

LEMMA RenderStep ==
  ASSUME IInv, NEW s \in Suites, NEW official \in BOOLEAN, Render(s, official)
  PROVE  IInv'
<1> USE DEF Render
<1>1. Counters'
  BY DriftAssumption DEF IInv, Counters
<1>2. Trees'
  BY DEF IInv, Trees, TreeUpTo
<1>3. Progress'
  <2>1. Intended(s, Rendered(s, official), input[s], official, head)
    BY RenderedIsIntended
  <2>2. /\ report'.files = Rendered(s, official) /\ report'.suite = s /\ report'.left = Order(s)
        /\ UNCHANGED <<input, evidence, head>>
    OBVIOUS
  <2>3. Faithful(s, report.files)'
    BY <2>1, <2>2 DEF Faithful, Binds
  <2> QED
    BY <2>2, <2>3, OrderIsComplete DEF Progress
<1>4. Done'
  BY DEF Done
<1> QED
  BY <1>1, <1>2, <1>3, <1>4 DEF IInv

\* A file that is written holds what the report has rendered for it.
LEMMA WriteNextStep ==
  ASSUME IInv, WriteNext
  PROVE  IInv'
<1> USE DEF WriteNext, Put
<1> DEFINE s == report.suite
           f == report.left[1]
<1>1. /\ report # Idle /\ s \in Suites
      /\ DOMAIN report = {"kind", "suite", "files", "left"} /\ report.kind = "writing"
      /\ report.left \in Seq(Targets(s)) /\ report.left # <<>>
      /\ Faithful(s, report.files)
      /\ \A g \in Targets(s) :
           work[g] = report.files[g] \/ \E i \in 1 .. Len(report.left) : report.left[i] = g
  BY DEF IInv, Progress
<1>2. f \in Targets(s) /\ work' = [work EXCEPT ![f] = report.files[f]]
  BY <1>1
<1>3. PICK official \in BOOLEAN :
        (official => Binds(s)) /\ Intended(s, report.files, input[s], official, head)
  BY <1>1 DEF Faithful
<1>4. DOMAIN work = Files /\ f \in Files
  BY <1>1, <1>2, TargetsAreFiles DEF IInv, Trees, TreeUpTo
<1>5. Counters'
  BY DEF IInv, Counters
<1>6. Trees'
  <2>1. work'[File("readme")] \in Readmes \cup {Torn}
    BY <1>2, <1>4, <1>3 DEF IInv, Trees, TreeUpTo, Intended
  <2>2. ASSUME NEW t \in Suites
        PROVE  work'[<<t, "provenance">>] \in Provenances(head) \cup {Absent, Torn}
    <3>1. CASE f = <<t, "provenance">>
      <4>1. t = s /\ work'[f] = report.files[f]
        BY <1>1, <1>2, <1>4, <3>1, ProvenanceIsOwn
      <4> QED
        BY <1>3, <3>1, <4>1 DEF Intended
    <3>2. CASE f # <<t, "provenance">>
      <4>1. work'[<<t, "provenance">>] = work[<<t, "provenance">>]
        BY <1>2, <1>4, <3>2, TargetsAreFiles
      <4> QED
        BY <4>1 DEF IInv, Trees, TreeUpTo
    <3> QED
      BY <3>1, <3>2
  <2> QED
    BY <1>4, <2>1, <2>2 DEF IInv, Trees, TreeUpTo, Provenances
<1>7. \A g \in Targets(s) :
        work'[g] = report.files[g] \/ \E i \in 2 .. Len(report.left) : report.left[i] = g
  <2> TAKE g \in Targets(s)
  <2>1. CASE g = f
    BY <1>2, <1>4, <2>1
  <2>2. CASE g # f
    <3>1. work'[g] = work[g]
      BY <1>2, <1>4, <2>2
    <3> QED
      BY <1>1, <2>2, <3>1
  <2> QED
    BY <2>1, <2>2
<1>8. CASE MoreToWrite
  <2>1. report' = [report EXCEPT !.left = Tail(report.left)] /\ fresh' = fresh
    BY <1>8
  <2>2. /\ Tail(report.left) \in Seq(Targets(s)) /\ Tail(report.left) # <<>>
        /\ Len(Tail(report.left)) = Len(report.left) - 1
        /\ \A i \in 1 .. Len(report.left) - 1 : Tail(report.left)[i] = report.left[i + 1]
    BY <1>1, <1>8, TailOfSeq DEF MoreToWrite
  <2>3. /\ DOMAIN report' = {"kind", "suite", "files", "left"}
        /\ report'.kind = "writing" /\ report'.suite = s
        /\ report'.files = report.files /\ report'.left = Tail(report.left)
    BY <1>1, <2>1
  <2>4. \A g \in Targets(s) :
          work'[g] = report.files[g]
            \/ \E i \in 1 .. Len(Tail(report.left)) : Tail(report.left)[i] = g
    <3> TAKE g \in Targets(s)
    <3>1. CASE \E i \in 2 .. Len(report.left) : report.left[i] = g
      <4> PICK i \in 2 .. Len(report.left) : report.left[i] = g
        BY <3>1
      <4>1. i - 1 \in 1 .. Len(report.left) - 1 /\ Tail(report.left)[i - 1] = g
        BY <1>1, <2>2
      <4> QED
        BY <2>2, <4>1
    <3> QED
      BY <1>7, <3>1
  <2>5. Faithful(report.suite, report.files)'
    BY <1>1, <2>3 DEF Faithful, Binds
  <2>6. Progress'
    BY <1>1, <2>2, <2>3, <2>4, <2>5 DEF Progress
  <2>7. Done'
    BY <1>1, <2>1 DEF IInv, Done
  <2> QED
    BY <1>5, <1>6, <2>6, <2>7 DEF IInv
<1>9. CASE ~MoreToWrite
  <2>1. report' = Idle /\ fresh' = s
    BY <1>9
  <2>2. \A g \in Targets(s) : work'[g] = report.files[g]
    BY <1>1, <1>7, <1>9 DEF MoreToWrite
  <2>3. /\ File("readme") \in Targets(s) /\ <<s, "provenance">> \in Targets(s)
        /\ <<s, "derived">> \in Targets(s)
    BY DEF Targets, Own
  <2>4. Intended(s, work', input[s], official, head)
    BY <1>3, <2>2, <2>3 DEF Intended
  <2>5. Faithful(fresh, work)'
    BY <1>3, <2>1, <2>4 DEF Faithful, Binds
  <2>6. Progress' /\ Done'
    BY <1>1, <2>1, <2>5 DEF Progress, Done
  <2> QED
    BY <1>5, <1>6, <2>6 DEF IInv
<1> QED
  BY <1>8, <1>9

LEMMA CutStep ==
  ASSUME IInv, Cut
  PROVE  IInv'
<1> USE DEF Cut, Put
<1> DEFINE s == report.suite
           f == report.left[1]
<1>1. /\ s \in Suites /\ f \in Targets(s) /\ f \in Files /\ DOMAIN work = Files
      /\ report.files[File("readme")] \in Readmes
  <2>1. /\ s \in Suites /\ report.files[File("readme")] \in Readmes
        /\ report.left \in Seq(Targets(s)) /\ report.left # <<>>
    BY DEF IInv, Progress, Faithful, Intended
  <2>2. f \in Targets(s)
    BY <2>1
  <2> QED
    BY <2>1, <2>2, TargetsAreFiles DEF IInv, Trees, TreeUpTo
<1>2. Counters' /\ Progress'
  BY DEF IInv, Counters, Progress
<1>3. Trees'
  <2>1. PICK text :
         /\ work' = work \/ work' = [work EXCEPT ![f] = text]
         /\ text \in {Torn, [report.files[f] EXCEPT !.prose = "cut"]}
         /\ text = Torn \/ f = File("readme")
    OBVIOUS
  <2>2. f = File("readme") => [report.files[f] EXCEPT !.prose = "cut"] \in Readmes
    BY <1>1 DEF Readmes
  <2>3. DOMAIN work' = Files /\ work'[File("readme")] \in Readmes \cup {Torn}
    <3>1. work[File("readme")] \in Readmes \cup {Torn}
      BY DEF IInv, Trees, TreeUpTo
    <3>2. DOMAIN work' = Files /\ File("readme") \in Files
      BY <1>1, <2>1, TargetsAreFiles DEF Targets
    <3>3. CASE f = File("readme")
      <4>1. [report.files[f] EXCEPT !.prose = "cut"] \in Readmes
        BY <2>2, <3>3
      <4>2. work' = work \/ work'[f] \in Readmes \cup {Torn}
        BY <1>1, <2>1, <4>1
      <4> QED
        BY <3>1, <3>2, <3>3, <4>2
    <3>4. CASE f # File("readme")
      BY <1>1, <2>1, <3>1, <3>2, <3>4
    <3> QED
      BY <3>2, <3>3, <3>4
  <2>4. ASSUME NEW t \in Suites
        PROVE  work'[<<t, "provenance">>] \in Provenances(head) \cup {Absent, Torn}
    BY <1>1, <2>1, TargetsAreFiles, NotTheReadme DEF IInv, Trees, TreeUpTo
  <2> QED
    BY <2>3, <2>4 DEF IInv, Trees, TreeUpTo
<1>4. Done'
  BY DEF IInv, Done
<1> QED
  BY <1>2, <1>3, <1>4 DEF IInv

LEMMA NewRunStep ==
  ASSUME IInv, NewRun
  PROVE  IInv'
<1> USE DEF NewRun
<1>1. Counters'
  BY DEF IInv, Counters
<1>2. Trees' /\ Progress' /\ Done'
  BY DEF IInv, Trees, TreeUpTo, Progress, Done
<1> QED
  BY <1>1, <1>2 DEF IInv

LEMMA EditStep ==
  ASSUME IInv, Edit
  PROVE  IInv'
<1> USE DEF Edit, Put
<1>1. Counters' /\ Progress' /\ Done'
  BY DEF IInv, Counters, Progress, Done
<1>2. Trees'
  <2>1. File("readme") \in Files /\ File("code") \in Files /\ File("readme") # File("code")
    BY DEF Files, File, Shared
  <2>2. work[File("readme")] # Torn =>
          [work[File("readme")] EXCEPT !.prose = "edited"] \in Readmes
    BY DEF IInv, Trees, TreeUpTo, Readmes
  <2>3. DOMAIN work' = Files /\ work'[File("readme")] \in Readmes \cup {Torn}
    BY <2>1, <2>2 DEF IInv, Trees, TreeUpTo
  <2>4. \A t \in Suites : work'[<<t, "provenance">>] = work[<<t, "provenance">>]
    BY <2>1, TargetsAreFiles, NotTheReadme DEF IInv, Trees, TreeUpTo
  <2> QED
    BY <2>3, <2>4 DEF IInv, Trees, TreeUpTo
<1> QED
  BY <1>1, <1>2 DEF IInv

\* What the tree named up to the commit before is what the index names now.
LEMMA CommitStep ==
  ASSUME IInv, Commit
  PROVE  IInv'
<1> USE DEF Commit
<1>1. Counters' /\ Progress' /\ Done'
  BY DriftAssumption DEF IInv, Counters, Progress, Done
<1>2. TreeUpTo(work, head') /\ TreeUpTo(index', head)
  <2>1. head \in Nat /\ head' = head + 1
    BY DriftAssumption DEF IInv, Counters
  <2>2. Provenances(head - 1) \subseteq Provenances(head) /\ Provenances(head) \subseteq Provenances(head')
    BY <2>1 DEF Provenances
  <2>3. PICK added \in {Files, {File("readme"), File("code")}} :
          index' = [f \in Files |-> IF f \in added THEN work[f] ELSE index[f]]
    OBVIOUS
  <2>4. TreeUpTo(work, head')
    BY <2>2 DEF IInv, Trees, TreeUpTo
  <2>5. File("readme") \in Files /\ \A t \in Suites : <<t, "provenance">> \in Files
    BY TargetsAreFiles DEF Files, File, Shared
  <2>6. TreeUpTo(index', head)
    BY <2>2, <2>3, <2>5 DEF IInv, Trees, TreeUpTo
  <2> QED
    BY <2>4, <2>6
<1>3. Trees'
  <2>1. head' - 1 = head /\ work' = work
    BY DriftAssumption DEF IInv, Counters
  <2> QED
    BY <1>2, <2>1 DEF Trees
<1> QED
  BY <1>1, <1>3 DEF IInv

LEMMA StutterStep ==
  ASSUME IInv, UNCHANGED vars
  PROVE  IInv'
<1>1. UNCHANGED <<input, evidence, work, index, head, report, reports, fresh>>
  BY DEF vars
<1>2. Counters' /\ Trees'
  BY <1>1 DEF IInv, Counters, Trees, TreeUpTo
<1>3. Faithful(report.suite, report.files)' <=> Faithful(report.suite, report.files)
  BY <1>1 DEF Faithful, Binds
<1>4. Faithful(fresh, work)' <=> Faithful(fresh, work)
  BY <1>1 DEF Faithful, Binds
<1>5. Progress' /\ Done'
  BY <1>1, <1>3, <1>4 DEF IInv, Progress, Done
<1> QED
  BY <1>2, <1>5 DEF IInv

\* The invariant holds in every state of the specification.
THEOREM Invariance == Spec => []IInv
<1>1. Init => IInv
  BY InitInvariant
<1>2. IInv /\ [Next]_vars => IInv'
  BY RenderStep, WriteNextStep, CutStep, NewRunStep, EditStep, CommitStep, StutterStep DEF Next
<1> QED
  BY <1>1, <1>2, PTL DEF Spec

-----------------------------------------------------------------------------
(* What follows *)

\* Type correctness of the working tree, the index and the report in progress.
THEOREM TypeCorrect == Spec => []TypeOK
<1>1. IInv => TypeOK
  <2> SUFFICES ASSUME IInv PROVE TypeOK
    OBVIOUS
  <2>1. \A h \in Int : \A text \in Provenances(h) :
          text.kind = "provenance" /\ text.raw \in Texts /\ text.git_sha \in 0 .. h
    BY DEF Provenances
  <2>2. head \in Nat
    BY DriftAssumption DEF IInv, Counters
  <2>3. \A text \in Readmes : IsReadme(text)
    BY DEF Readmes, IsReadme
  <2>4. ASSUME NEW tree \in {work, index}
        PROVE  /\ tree[File("readme")] = Torn \/ IsReadme(tree[File("readme")])
               /\ \A s \in Suites :
                    tree[<<s, "provenance">>] \in {Absent, Torn} \/ IsProvenance(tree[<<s, "provenance">>])
    BY <2>1, <2>2, <2>3 DEF IInv, Trees, TreeUpTo, IsProvenance
  <2>5. DOMAIN work = Files /\ DOMAIN index = Files
    BY DEF IInv, Trees, TreeUpTo
  <2>6. fresh \in Suites \cup {NoSuite}
    BY DEF IInv, Done
  <2>7. report # Idle => report.kind = "writing" /\ report.suite \in Suites /\ report.left # <<>>
    BY DEF IInv, Progress
  <2> QED
    BY <2>4, <2>5, <2>6, <2>7 DEF IInv, Counters, TypeOK
<1> QED
  BY <1>1, Invariance, PTL

\* No check accepts what some commit holds, whatever was reported, edited and
\* committed in which order: the provenance in the index names an earlier commit.
THEOREM CommittedIsStale == Spec => []CommittedNeverAccepted
<1>1. IInv => CommittedNeverAccepted
  <2> SUFFICES ASSUME IInv, NEW s \in Suites, Accepts(s)
               PROVE  index[<<s, "provenance">>] # work[<<s, "provenance">>]
    BY DEF CommittedNeverAccepted
  <2>1. work[<<s, "provenance">>] = Provenance(s, TRUE)
    BY NotTheReadme DEF Accepts, Verified, Own, Rendered
  <2>2. work[<<s, "provenance">>].git_sha = head /\ work[<<s, "provenance">>].kind = "provenance"
    BY <2>1 DEF Provenance
  <2>3. head \in Nat
    BY DriftAssumption DEF IInv, Counters
  <2>4. CASE index[<<s, "provenance">>] \in {Absent, Torn}
    BY <2>2, <2>4 DEF Absent, Torn
  <2>5. CASE index[<<s, "provenance">>] \in Provenances(head - 1)
    <3>1. index[<<s, "provenance">>].git_sha \in 0 .. head - 1
      BY <2>5 DEF Provenances
    <3> QED
      BY <2>2, <2>3, <3>1
  <2> QED
    BY <2>4, <2>5 DEF IInv, Trees, TreeUpTo
<1> QED
  BY <1>1, Invariance, PTL

\* However many suites share the README, the check accepts one of them at most.
THEOREM LastReportOnly == Spec => []OneSuiteInSync
<1>1. IInv => OneSuiteInSync
  <2> SUFFICES ASSUME IInv, NEW s \in Suites, NEW t \in Suites, Accepts(s), Accepts(t)
               PROVE  s = t
    BY DEF OneSuiteInSync
  <2>1. ASSUME NEW u \in Suites, Accepts(u)
        PROVE  work[File("readme")].block = <<u, input[u], TRUE>>
    <3>1. work[File("readme")] = RenderedReadme(u, TRUE)
      BY <2>1, NotTheReadme DEF Accepts, Verified, Rendered
    <3> QED
      BY <3>1, ReplacedIsReadme DEF IInv, Trees, TreeUpTo
  <2>2. <<s, input[s], TRUE>> = <<t, input[t], TRUE>>
    BY <2>1
  <2> QED
    BY <2>2
<1> QED
  BY <1>1, Invariance, PTL

\* A check right after a report accepts exactly when the report was given the
\* official evidence, found the markers, and writing has not changed whether the
\* tree is dirty.
THEOREM WhenFreshIsAccepted == Spec => []FreshCheck
<1>1. IInv => FreshCheck
  <2> SUFFICES ASSUME IInv, fresh # NoSuite
               PROVE  Accepts(fresh) <=>
                        /\ work[<<fresh, "derived">>] = Of(<<fresh, input[fresh], TRUE>>)
                        /\ work[File("readme")].markers = "tight"
                        /\ work[<<fresh, "provenance">>].git_dirty = Dirty
    BY DEF FreshCheck
  <2> DEFINE s == fresh
             R == work[File("readme")]
             P == work[<<s, "provenance">>]
             D == work[<<s, "derived">>]
             Official == D = Of(<<s, input[s], TRUE>>)
  <2>1. s \in Suites /\ Faithful(s, work)
    BY DEF IInv, Done
  <2>2. PICK official \in BOOLEAN :
          (official => Binds(s)) /\ Intended(s, work, input[s], official, head)
    BY <2>1 DEF Faithful
  <2>3. D = Of(<<s, input[s], official>>) /\ (Official <=> official = TRUE)
    <3>1. D = Of(<<s, input[s], official>>)
      BY <2>2 DEF Intended
    <3>2. Of(<<s, input[s], official>>).text[3] = official /\ Of(<<s, input[s], TRUE>>).text[3] = TRUE
      BY DEF Of
    <3> QED
      BY <3>1, <3>2
  <2>4. R \in Readmes /\ R.block = <<s, input[s], official>> /\ R # Torn
    BY <2>2 DEF Intended, Readmes, Torn
  <2>5. P \in Provenances(head) /\ P.raw = input[s] /\ P.readme = R /\ P.git_sha = head
    BY <2>2 DEF Intended
  <2>6. \A f \in Verified(s) \ {File("readme"), <<s, "provenance">>, <<s, "derived">>} :
          work[f] = Rendered(s, TRUE)[f]
    BY <2>2 DEF Intended, Verified, Targets, Rendered
  <2>7. /\ Rendered(s, TRUE)[File("readme")] = RenderedReadme(s, TRUE)
        /\ Rendered(s, TRUE)[<<s, "provenance">>] = Provenance(s, TRUE)
        /\ Rendered(s, TRUE)[<<s, "derived">>] = Of(<<s, input[s], TRUE>>)
    BY <2>1 DEF Rendered, Own, File
  <2>8. /\ File("readme") \in Verified(s) /\ <<s, "provenance">> \in Verified(s)
        /\ <<s, "derived">> \in Verified(s)
    BY DEF Verified, Own
  <2>9. ASSUME official = TRUE
        PROVE  RenderedReadme(s, TRUE) = R <=> R.markers = "tight"
    <3>1. Legible(R) = R /\ R.block = <<s, input[s], TRUE>>
      BY <2>4, <2>9 DEF Legible
    <3>2. RenderedReadme(s, TRUE) =
            Readme(R.prose, IF R.markers = "absent" THEN "loose" ELSE "tight", R.block)
      BY <3>1 DEF RenderedReadme, ReplaceBlock
    <3>3. /\ R.markers \in {"absent", "loose", "tight"}
          /\ R = Readme(R.prose, R.markers, R.block)
      BY <2>4 DEF Readmes, Readme
    <3>4. Readme(R.prose, IF R.markers = "absent" THEN "loose" ELSE "tight", R.block).markers
            = IF R.markers = "absent" THEN "loose" ELSE "tight"
      BY DEF Readme
    <3> QED
      BY <3>2, <3>3, <3>4
  <2>10. Provenance(s, TRUE) = P <=> RenderedReadme(s, TRUE) = R /\ P.git_dirty = Dirty
    <3> DEFINE readme == RenderedReadme(s, TRUE)
    <3>1. P = [kind |-> "provenance", raw |-> input[s], readme |-> R,
               git_sha |-> head, git_dirty |-> P.git_dirty]
      BY <2>5 DEF Provenances
    <3>2. Provenance(s, TRUE) = [kind |-> "provenance", raw |-> input[s], readme |-> readme,
                                 git_sha |-> head, git_dirty |-> Dirty]
      BY DEF Provenance
    <3>3. /\ Provenance(s, TRUE).readme = readme /\ Provenance(s, TRUE).git_dirty = Dirty
          /\ P.readme = R
      BY <2>5 DEF Provenance
    <3> HIDE DEF readme, R, P
    <3>4. Provenance(s, TRUE) = P => readme = R /\ P.git_dirty = Dirty
      BY <3>3
    <3>5. readme = R /\ P.git_dirty = Dirty => Provenance(s, TRUE) = P
      BY <3>1, <3>2, Zenon
    <3> QED
      BY <3>4, <3>5 DEF readme
  <2> HIDE DEF R, P, D
  <2>11. Accepts(s) => Official /\ RenderedReadme(s, TRUE) = R /\ Provenance(s, TRUE) = P
    BY <2>7, <2>8 DEF Accepts, R, P, D
  <2>12. /\ Official /\ RenderedReadme(s, TRUE) = R /\ Provenance(s, TRUE) = P
         => Accepts(s)
    BY <2>2, <2>3, <2>6, <2>7 DEF Accepts, R, P, D
  <2>13. Accepts(s) <=> Official /\ R.markers = "tight" /\ P.git_dirty = Dirty
    BY <2>3, <2>9, <2>10, <2>11, <2>12
  <2> QED
    BY <2>13 DEF R, P, D
<1> QED
  BY <1>1, Invariance, PTL
=============================================================================
