--------------------------- MODULE AllRun_proofs ---------------------------
(***************************************************************************)
(* Proofs about the jobs of AllRun for any number of them, any files       *)
(* --output may name and any number of builds: the inductive invariant     *)
(* IInv, and what it says of the evidence.                                 *)
(***************************************************************************)
EXTENDS AllRun, SequenceTheorems, TLAPS

\* What suite s of job j derived from its raw text, with what is named where
\* when the target is build b.
Settled(s, der, pro, j, b, replaced) ==
  /\ der.kind = "whole" /\ der.job = j /\ der.of = pro.raw
  /\ pro.kind = "whole" /\ pro.job = j /\ pro.derived = der
  /\ WholeOf(pro.raw, s, j)
  /\ pro.raw[1].build <= pro.target /\ pro.target <= b
  /\ s = "beyond_sqlite" => pro.target = pro.raw[1].build
  /\ j \notin replaced => pro.raw[1].build = b

SettledNow(s) == Settled(s, derived[s], provenance[s], job, build, replacedIn)

DoneNow(s) == SettledNow(s) /\ file[s] = provenance[s].raw

Control ==
  /\ pc \in {"combine", "manifest", "evidence"} => All
  /\ pc # "idle" => job >= 1
  /\ pc # "idle" /\ All => output \in Outputs

\* A job for all suites is done with those before the one it is at; then with
\* all, but for the raw file that --output has replaced.
Progress ==
  All =>
    /\ pc \in {"prepare", "run", "derive", "provenance"} => \A n \in 1 .. at - 1 : DoneNow(Order[n])
    /\ pc = "combine" => \A s \in Suites : DoneNow(s)
    /\ pc \in {"manifest", "evidence"} =>
         /\ \A s \in Suites : SettledNow(s) /\ (s # output => file[s] = provenance[s].raw)
         /\ WholeOfAll(file[output], job)

\* The suite the job is at.
Current ==
  /\ pc \in {"run", "derive", "provenance"} => named <= build /\ (job \notin replacedIn => named = build)
  /\ pc \in {"derive", "provenance"} => file[Raw] = <<Chunk(Suite, TRUE)>>
  /\ pc = "provenance" => derived[Suite] = Derived

EvidenceSettled ==
  evidence.kind = "whole" => \A s \in Suites :
    /\ Settled(s, evidence.derived[s], evidence.provenance[s], evidence.job, evidence.target, replacedIn)
    /\ IF s = evidence.output THEN WholeOfAll(evidence.raw[s], evidence.job)
       ELSE evidence.raw[s] = evidence.provenance[s].raw

IInv == TypeOK /\ OneJobPerFile /\ Control /\ Progress /\ Current /\ EvidenceSettled

-----------------------------------------------------------------------------
(* The suites and their order *)

LEMMA FourSuites ==
  /\ Order \in Seq(Suites) /\ Len(Order) = 4
  /\ Suites = {"sqlite_parity", "memory", "rql_phase1", "beyond_sqlite"}
  /\ \A n \in 1 .. 4 : Order[n] \in Suites
  /\ \A n, k \in 1 .. 4 : Order[n] = Order[k] => n = k
  /\ \A s \in Suites : \E n \in 1 .. 4 : Order[n] = s
BY DEF Suites, Order

LEMMA RawIsFile ==
  ASSUME TypeOK
  PROVE  /\ All <=> doing = Order
         /\ ~All => Len(doing) = 1 /\ at = 1
         /\ Suite \in Suites /\ Raw \in Files
         /\ All => Suite = Order[at] /\ Raw = Suite /\ at \in 1 .. 4
<1>1. CASE doing = Order
  BY <1>1, FourSuites DEF TypeOK, All, Suite, Raw, Files
<1>2. CASE doing # Order
  <2>1. PICK s \in Suites : doing = <<s>>
    BY <1>2 DEF TypeOK
  <2>2. Len(doing) = 1 /\ doing[1] = s /\ at = 1
    BY <2>1 DEF TypeOK
  <2> QED
    BY <1>2, <2>2 DEF TypeOK, All, Suite, Raw, Files
<1> QED
  BY <1>1, <1>2

LEMMA OneMore ==
  ASSUME NEW S, NEW a \in Seq(S), NEW b \in Seq(S), Len(b) = 1
  PROVE  /\ a \o b \in Seq(S) /\ Len(a \o b) = Len(a) + 1
         /\ \A i \in 1 .. Len(a) : (a \o b)[i] = a[i]
         /\ (a \o b)[Len(a) + 1] = b[1]
BY ConcatProperties, SMTT(30)

\* Four whole texts of one job, put together, are all it wrote.
LEMMA CombinedIsWhole ==
  ASSUME TypeOK, NEW j, \A s \in Suites : WholeOf(file[s], s, j)
  PROVE  Combined \in Texts /\ WholeOfAll(Combined, j)
<1>1. /\ file["sqlite_parity"] \in Texts /\ file["memory"] \in Texts
      /\ file["rql_phase1"] \in Texts /\ file["beyond_sqlite"] \in Texts
  BY FourSuites DEF TypeOK, Files
<1>2. /\ WholeOf(file["sqlite_parity"], "sqlite_parity", j) /\ WholeOf(file["memory"], "memory", j)
      /\ WholeOf(file["rql_phase1"], "rql_phase1", j) /\ WholeOf(file["beyond_sqlite"], "beyond_sqlite", j)
  BY FourSuites
<1> DEFINE w == file["sqlite_parity"]
           x == file["memory"]
           y == file["rql_phase1"]
           z == file["beyond_sqlite"]
<1>3. /\ w \in Seq(Chunks) /\ x \in Seq(Chunks) /\ y \in Seq(Chunks) /\ z \in Seq(Chunks)
      /\ Len(w) = 1 /\ Len(x) = 1 /\ Len(y) = 1 /\ Len(z) = 1
  BY <1>1, <1>2 DEF Texts, WholeOf
<1>4. Combined = w \o x \o y \o z
  BY DEF Combined
<1> HIDE DEF w, x, y, z
<1>5. w \o x \in Seq(Chunks) /\ Len(w \o x) = 2 /\ (w \o x)[1] = w[1] /\ (w \o x)[2] = x[1]
  BY <1>3, OneMore, SMTT(30)
<1> DEFINE wx == w \o x
           wxy == wx \o y
<1> HIDE DEF wx
<1>6. wxy \in Seq(Chunks) /\ Len(wxy) = 3 /\ wxy[1] = w[1] /\ wxy[2] = x[1] /\ wxy[3] = y[1]
  <2>1. wx \in Seq(Chunks) /\ Len(wx) = 2 /\ wx[1] = w[1] /\ wx[2] = x[1]
    BY <1>5 DEF wx
  <2>2. /\ wxy \in Seq(Chunks) /\ Len(wxy) = Len(wx) + 1
        /\ \A i \in 1 .. Len(wx) : wxy[i] = wx[i]
        /\ wxy[Len(wx) + 1] = y[1]
    BY <1>3, <2>1, OneMore
  <2> QED
    BY <2>1, <2>2
<1> HIDE DEF wxy
<1> DEFINE all == wxy \o z
<1>7. /\ all \in Seq(Chunks) /\ Len(all) = 4
      /\ all[1] = w[1] /\ all[2] = x[1] /\ all[3] = y[1] /\ all[4] = z[1]
  <2>1. /\ all \in Seq(Chunks) /\ Len(all) = Len(wxy) + 1
        /\ \A i \in 1 .. Len(wxy) : all[i] = wxy[i]
        /\ all[Len(wxy) + 1] = z[1]
    BY <1>3, <1>6, OneMore
  <2> QED
    BY <1>6, <2>1
<1> HIDE DEF all
<1>8. WholeOfAll(Combined, j)
  <2>1. /\ all[1].suite = Order[1] /\ all[2].suite = Order[2]
        /\ all[3].suite = Order[3] /\ all[4].suite = Order[4]
    BY <1>2, <1>7 DEF WholeOf, Order, w, x, y, z
  <2>2. \A n \in {1, 2, 3, 4} : all[n].job = j /\ all[n].whole
    BY <1>2, <1>7 DEF WholeOf, w, x, y, z
  <2>3. Combined = all
    BY <1>4 DEF all, wxy, wx
  <2>4. 1 .. 4 = {1, 2, 3, 4}
    OBVIOUS
  <2>5. \A n \in {1, 2, 3, 4} : all[n].suite = Order[n]
    BY <2>1
  <2> QED
    BY <1>7, <2>2, <2>3, <2>4, <2>5 DEF WholeOfAll
<1> QED
  BY <1>4, <1>7, <1>8 DEF Texts, all, wxy, wx

OneJob(text) ==
  \A n \in DOMAIN text :
    /\ text[n].job = text[1].job
    /\ Len(text) > 1 => text[n].suite = Order[n] /\ text[n].whole

LEMMA OneIsOneJob ==
  ASSUME NEW chunk
  PROVE  OneJob(<<chunk>>)
BY DEF OneJob

LEMMA PrefixIsOneJob ==
  ASSUME NEW text \in Texts, NEW j, WholeOfAll(text, j), NEW n \in 0 .. Len(text)
  PROVE  SubSeq(text, 1, n) \in Texts /\ OneJob(SubSeq(text, 1, n))
<1> DEFINE part == SubSeq(text, 1, n)
<1>1. part \in Texts /\ Len(part) = n /\ \A i \in 1 .. n : part[i] = text[i]
  BY DEF Texts
<1>2. n <= 4 /\ \A i \in 1 .. n : text[i].suite = Order[i] /\ text[i].job = j /\ text[i].whole
  BY DEF WholeOfAll
<1>3. DOMAIN part = 1 .. n
  BY <1>1 DEF Texts
<1> HIDE DEF part
<1>4. OneJob(part)
  BY <1>1, <1>2, <1>3 DEF OneJob
<1> QED
  BY <1>1, <1>4 DEF part

-----------------------------------------------------------------------------
(* Every step keeps the invariant *)

LEMMA InitInvariant == Init => IInv
<1> SUFFICES ASSUME Init PROVE IInv
  OBVIOUS
<1>1. TypeOK
  <2>1. file \in [Files -> Texts] /\ derived \in [Suites -> Derivatives]
    BY DEF Init, Texts, Derivatives
  <2>2. provenance \in [Suites -> Provenances] /\ manifest \in Manifests
    BY DEF Init, Provenances, Manifests
  <2>3. build \in 0 .. MaxReplaced /\ job \in 0 .. MaxJobs /\ named \in 0 .. MaxReplaced
    BY AllAssumption DEF Init
  <2>4. output \in Files /\ at \in 1 .. Len(doing)
    BY FourSuites DEF Init, Files
  <2> QED
    BY <2>1, <2>2, <2>3, <2>4 DEF Init, TypeOK
<1>2. OneJobPerFile
  BY DEF Init, OneJobPerFile
<1>3. Control /\ Progress /\ Current /\ EvidenceSettled
  BY DEF Init, Control, Progress, Current, EvidenceSettled, None
<1> QED
  BY <1>1, <1>2, <1>3 DEF IInv

\* What was settled before the target is replaced is settled after.
LEMMA ReplaceStep ==
  ASSUME IInv, Replace
  PROVE  IInv'
<1> USE DEF Replace, jobvars, sidevars
<1>1. job \in Nat /\ build \in Nat /\ (pc # "idle" => job \in 1 .. MaxJobs)
  BY AllAssumption DEF IInv, TypeOK, Control
<1>2. TypeOK'
  <2>1. build' \in 0 .. MaxReplaced /\ replacedIn' \subseteq 1 .. MaxJobs
    BY <1>1, AllAssumption DEF IInv, TypeOK
  <2> QED
    BY <2>1 DEF IInv, TypeOK, Texts, Chunks
<1>3. OneJobPerFile' /\ Control'
  BY DEF IInv, OneJobPerFile, Control, All
<1>4. ASSUME NEW s \in Suites, pc # "idle", SettledNow(s)
      PROVE  SettledNow(s)'
  <2>1. provenance[s].target <= build /\ job \in replacedIn'
    BY <1>4 DEF SettledNow, Settled
  <2>2. provenance[s].target <= build'
    BY <1>1, <1>4, <2>1 DEF SettledNow, Settled, IInv, TypeOK, Provenances, None, Torn
  <2> QED
    BY <1>4, <2>1, <2>2 DEF SettledNow, Settled, WholeOf
<1>5. Progress'
  BY <1>4, RawIsFile, FourSuites DEF IInv, Progress, DoneNow, All, WholeOfAll
<1>6. Current'
  BY <1>1 DEF IInv, TypeOK, Current, Raw, All, Suite, Chunk, Derived
<1>7. EvidenceSettled'
  BY DEF IInv, EvidenceSettled, Settled, WholeOf, WholeOfAll
<1> QED
  BY <1>2, <1>3, <1>5, <1>6, <1>7 DEF IInv

LEMMA StartStep ==
  ASSUME IInv, Start
  PROVE  IInv'
<1> USE DEF Start, sidevars
<1>1. TypeOK'
  <2>1. job' \in 0 .. MaxJobs /\ output' \in Files
    BY AllAssumption DEF IInv, TypeOK, Files
  <2>2. (doing' = Order \/ \E s \in Suites : doing' = <<s>>) /\ at' \in 1 .. Len(doing')
    <3>1. CASE doing' = Order
      BY <3>1, FourSuites
    <3>2. CASE \E s \in Suites : doing' = <<s>>
      BY <3>2
    <3> QED
      BY <3>1, <3>2
  <2> QED
    BY <2>1, <2>2 DEF IInv, TypeOK
<1>2. OneJobPerFile' /\ EvidenceSettled'
  BY DEF IInv, OneJobPerFile, EvidenceSettled
<1>3. Control'
  <2>1. job' >= 1
    BY AllAssumption DEF IInv, TypeOK
  <2>2. All' => output' \in Outputs
    BY SMTT(30) DEF All
  <2> QED
    BY <2>1, <2>2 DEF Control
<1>4. Progress' /\ Current'
  BY DEF Progress, Current
<1> QED
  BY <1>1, <1>2, <1>3, <1>4 DEF IInv

\* The suites before the one a job is at have other files than it.
LEMMA OthersEarlier ==
  ASSUME IInv, All, pc \in {"prepare", "run", "derive", "provenance"}, NEW n \in 1 .. at - 1
  PROVE  Order[n] \in Suites /\ Order[n] # Suite /\ Order[n] # Raw /\ DoneNow(Order[n])
<1>1. n \in 1 .. 4 /\ at \in 1 .. 4 /\ n # at /\ Suite = Order[at] /\ Raw = Suite
  BY RawIsFile DEF IInv
<1>2. DoneNow(Order[n])
  BY DEF IInv, Progress
<1> QED
  BY <1>1, <1>2, FourSuites

LEMMA ChunkIsText ==
  ASSUME IInv, pc # "idle", NEW whole \in BOOLEAN
  PROVE  <<Chunk(Suite, whole)>> \in Texts
<1>1. Suite \in Suites /\ job \in 1 .. MaxJobs /\ named \in 0 .. MaxReplaced
  BY RawIsFile, AllAssumption DEF IInv, TypeOK, Control
<1>2. Chunk(Suite, whole) \in Chunks
  BY <1>1 DEF Chunk, Chunks
<1> QED
  BY <1>2 DEF Texts

\* Writing a raw file disturbs neither the other files nor the earlier suites.
LEMMA RawWritten ==
  ASSUME IInv, pc \in {"prepare", "run"}, NEW text \in Texts, OneJob(text), Write(Raw, text),
         UNCHANGED <<sidevars, build, jobvars, at, replacedIn>>
  PROVE  /\ file' \in [Files -> Texts] /\ file'[Raw] = text /\ OneJobPerFile'
         /\ Raw' = Raw /\ Suite' = Suite /\ All' = All
         /\ All => \A n \in 1 .. at - 1 : DoneNow(Order[n])'
<1>1. Raw \in Files /\ file \in [Files -> Texts]
  BY RawIsFile DEF IInv, TypeOK
<1>2. file' \in [Files -> Texts] /\ file'[Raw] = text /\ \A f \in Files \ {Raw} : file'[f] = file[f]
  BY <1>1 DEF Write
<1>3. OneJobPerFile'
  BY <1>1, <1>2 DEF IInv, OneJobPerFile, OneJob
<1>4. Raw' = Raw /\ Suite' = Suite /\ All' = All
  BY DEF Raw, Suite, All, jobvars
<1>5. ASSUME All, NEW n \in 1 .. at - 1
      PROVE  DoneNow(Order[n])'
  <2>1. Order[n] \in Suites /\ Order[n] # Raw /\ DoneNow(Order[n])
    BY <1>5, OthersEarlier
  <2>2. file'[Order[n]] = file[Order[n]]
    BY <1>2, <2>1 DEF Files
  <2> QED
    BY <2>1, <2>2 DEF DoneNow, SettledNow, sidevars, jobvars
<1> QED
  BY <1>2, <1>3, <1>4, <1>5

LEMMA PrepareStep ==
  ASSUME IInv, Prepare
  PROVE  IInv'
<1> USE DEF Prepare
<1>1. <<>> \in Texts /\ OneJob(<<>>)
  BY DEF Texts, OneJob
<1>2. /\ file' \in [Files -> Texts] /\ OneJobPerFile' /\ Raw' = Raw /\ Suite' = Suite /\ All' = All
      /\ All => \A n \in 1 .. at - 1 : DoneNow(Order[n])'
  BY <1>1, RawWritten
<1>3. TypeOK'
  BY <1>2 DEF IInv, TypeOK, sidevars, jobvars
<1>4. Control' /\ Progress'
  BY <1>2 DEF IInv, Control, Progress, jobvars
<1>5. Current'
  BY AllAssumption DEF IInv, TypeOK, Current
<1>6. EvidenceSettled'
  BY DEF IInv, EvidenceSettled, sidevars
<1> QED
  BY <1>2, <1>3, <1>4, <1>5, <1>6 DEF IInv

LEMMA WriteSomeStep ==
  ASSUME IInv, WriteSome
  PROVE  IInv'
<1> USE DEF WriteSome
<1>1. <<Chunk(Suite, FALSE)>> \in Texts /\ OneJob(<<Chunk(Suite, FALSE)>>)
  BY ChunkIsText, OneIsOneJob
<1>2. /\ file' \in [Files -> Texts] /\ OneJobPerFile' /\ Raw' = Raw /\ Suite' = Suite /\ All' = All
      /\ All => \A n \in 1 .. at - 1 : DoneNow(Order[n])'
  BY <1>1, RawWritten
<1>3. TypeOK'
  BY <1>2 DEF IInv, TypeOK, sidevars, jobvars
<1>4. Control' /\ Progress' /\ Current'
  BY <1>2 DEF IInv, Control, Progress, Current, jobvars
<1>5. EvidenceSettled'
  BY DEF IInv, EvidenceSettled, sidevars
<1> QED
  BY <1>2, <1>3, <1>4, <1>5 DEF IInv

LEMMA SuiteRanStep ==
  ASSUME IInv, SuiteRan
  PROVE  IInv'
<1> USE DEF SuiteRan
<1>1. <<Chunk(Suite, TRUE)>> \in Texts /\ OneJob(<<Chunk(Suite, TRUE)>>)
  BY ChunkIsText, OneIsOneJob
<1>2. /\ file' \in [Files -> Texts] /\ OneJobPerFile' /\ Raw' = Raw /\ Suite' = Suite /\ All' = All
      /\ file'[Raw] = <<Chunk(Suite, TRUE)>>
      /\ All => \A n \in 1 .. at - 1 : DoneNow(Order[n])'
  BY <1>1, RawWritten
<1>3. TypeOK'
  BY <1>2 DEF IInv, TypeOK, sidevars, jobvars
<1>4. Control' /\ Progress'
  BY <1>2 DEF IInv, Control, Progress, jobvars
<1>5. Current'
  BY <1>2 DEF IInv, Current, Chunk, jobvars
<1>6. EvidenceSettled'
  BY DEF IInv, EvidenceSettled, sidevars
<1> QED
  BY <1>2, <1>3, <1>4, <1>5, <1>6 DEF IInv

LEMMA SuiteBailsStep ==
  ASSUME IInv, SuiteBails
  PROVE  IInv'
<1> USE DEF SuiteBails
<1>1. PICK text \in {file[Raw], <<Chunk(Suite, TRUE)>>} : Write(Raw, text)
  OBVIOUS
<1>2. <<Chunk(Suite, TRUE)>> \in Texts /\ OneJob(<<Chunk(Suite, TRUE)>>)
  BY ChunkIsText, OneIsOneJob
<1>3. file[Raw] \in Texts /\ OneJob(file[Raw])
  BY RawIsFile DEF IInv, TypeOK, OneJobPerFile, OneJob
<1>4. text \in Texts /\ OneJob(text)
  BY <1>1, <1>2, <1>3
<1>5. file' \in [Files -> Texts] /\ OneJobPerFile'
  BY <1>1, <1>4, RawWritten
<1>6. TypeOK'
  BY <1>5 DEF IInv, TypeOK, sidevars, jobvars
<1>7. Control' /\ Progress' /\ Current'
  BY DEF Control, Progress, Current
<1>8. EvidenceSettled'
  BY DEF IInv, EvidenceSettled, sidevars
<1> QED
  BY <1>5, <1>6, <1>7, <1>8 DEF IInv

LEMMA DeriveStep ==
  ASSUME IInv, Derive
  PROVE  IInv'
<1> USE DEF Derive
<1>1. Suite \in Suites /\ Raw \in Files /\ job \in 1 .. MaxJobs
  BY RawIsFile, AllAssumption DEF IInv, TypeOK, Control
<1>2. Raw' = Raw /\ Suite' = Suite /\ All' = All
  BY DEF Raw, Suite, All, jobvars
<1>3. Derived \in Derivatives
  BY <1>1 DEF Derived, Derivatives, IInv, TypeOK
<1>4. TypeOK'
  BY <1>1, <1>3 DEF IInv, TypeOK, jobvars
<1>5. OneJobPerFile' /\ Control'
  BY <1>2 DEF IInv, OneJobPerFile, Control, jobvars
<1>6. Progress'
  <2>1. ASSUME All, NEW n \in 1 .. at - 1
        PROVE  DoneNow(Order[n])'
    <3>1. Order[n] \in Suites /\ Order[n] # Suite /\ DoneNow(Order[n])
      BY <2>1, OthersEarlier
    <3>2. derived'[Order[n]] = derived[Order[n]]
      BY <3>1 DEF IInv, TypeOK
    <3> QED
      BY <3>1, <3>2 DEF DoneNow, SettledNow, jobvars
  <2> QED
    BY <1>2, <2>1 DEF Progress, jobvars
<1>7. Current'
  <2>1. derived'[Suite] = Derived
    BY <1>1 DEF IInv, TypeOK
  <2>2. Derived' = Derived
    BY <1>2 DEF Derived, jobvars
  <2> QED
    BY <1>2, <2>1, <2>2 DEF IInv, Current, Chunk, jobvars
<1>8. EvidenceSettled'
  BY DEF IInv, EvidenceSettled
<1> QED
  BY <1>4, <1>5, <1>6, <1>7, <1>8 DEF IInv

LEMMA DerivedFields == Derived.kind = "whole" /\ Derived.job = job /\ Derived.of = file[Raw]
BY DEF Derived

\* With its provenance the suite at hand is settled as well.
LEMMA WriteProvenanceStep ==
  ASSUME IInv, WriteProvenance
  PROVE  IInv'
<1> USE DEF WriteProvenance
<1>1. /\ Suite \in Suites /\ Raw \in Files /\ job \in 1 .. MaxJobs /\ build \in 0 .. MaxReplaced
      /\ named \in 0 .. MaxReplaced
  BY RawIsFile, AllAssumption DEF IInv, TypeOK, Control
<1> DEFINE new == [kind |-> "whole", job |-> job, target |-> TargetOfProvenance,
                   raw |-> file[Raw], derived |-> derived[Suite]]
<1>2. /\ file[Raw] = <<Chunk(Suite, TRUE)>> /\ derived[Suite] = Derived
      /\ named <= build /\ (job \notin replacedIn => named = build)
  BY DEF IInv, Current
<1>3. TargetOfProvenance \in 0 .. MaxReplaced
  BY <1>1 DEF TargetOfProvenance
<1>4. new \in Provenances
  BY <1>1, <1>3 DEF Provenances, IInv, TypeOK
<1>5. provenance' = [provenance EXCEPT ![Suite] = new] /\ provenance'[Suite] = new
  BY <1>1 DEF IInv, TypeOK
<1>6. Settled(Suite, derived[Suite], new, job, build, replacedIn)
  <2>1. WholeOf(file[Raw], Suite, job) /\ file[Raw][1].build = named
    BY <1>2 DEF WholeOf, Chunk
  <2>2. named <= TargetOfProvenance /\ TargetOfProvenance <= build
    BY <1>1, <1>2 DEF TargetOfProvenance
  <2>3. derived[Suite].kind = "whole" /\ derived[Suite].job = job /\ derived[Suite].of = file[Raw]
    BY <1>2, DerivedFields
  <2>4. Suite = "beyond_sqlite" => TargetOfProvenance = named
    BY DEF TargetOfProvenance
  <2>5. job \notin replacedIn => named = build
    BY <1>2
  <2> QED
    BY <2>1, <2>2, <2>3, <2>4, <2>5 DEF Settled
<1> HIDE DEF new
<1>7. TypeOK'
  <2>1. provenance' \in [Suites -> Provenances]
    BY <1>4, <1>5 DEF IInv, TypeOK
  <2>2. at' \in 1 .. Len(doing) /\ pc' \in {"prepare", "combine", "idle"}
    BY FourSuites DEF IInv, TypeOK, HasMore, AfterSuite
  <2> QED
    BY <2>1, <2>2 DEF IInv, TypeOK, jobvars
<1>8. OneJobPerFile'
  BY DEF IInv, OneJobPerFile
<1>9. Control'
  BY DEF IInv, Control, AfterSuite, All, HasMore, jobvars
<1>10. Progress'
  <2> SUFFICES ASSUME All PROVE Progress'
    BY DEF Progress, All, jobvars
  <2>1. ASSUME NEW n \in 1 .. at - 1
        PROVE  DoneNow(Order[n])'
    <3>1. Order[n] \in Suites /\ Order[n] # Suite /\ DoneNow(Order[n])
      BY OthersEarlier
    <3>2. provenance'[Order[n]] = provenance[Order[n]]
      BY <1>5, <3>1 DEF IInv, TypeOK
    <3> QED
      BY <3>1, <3>2 DEF DoneNow, SettledNow, jobvars
  <2>2. Suite = Order[at] /\ Raw = Suite /\ at \in 1 .. 4 /\ doing = Order
    BY RawIsFile DEF IInv
  <2>3. ASSUME NEW n \in 1 .. at, n = at
        PROVE  DoneNow(Order[n])'
    <3>1. SettledNow(Order[n])'
      BY <1>5, <1>6, <2>2, <2>3 DEF SettledNow, jobvars
    <3>2. file'[Order[n]] = provenance'[Order[n]].raw
      BY <1>5, <2>2, <2>3 DEF new
    <3> QED
      BY <3>1, <3>2 DEF DoneNow
  <2>4. \A n \in 1 .. at : DoneNow(Order[n])'
    BY <2>1, <2>2, <2>3
  <2>5. CASE HasMore
    <3>1. pc' = "prepare" /\ 1 .. at' - 1 = 1 .. at
      BY <2>2, <2>5 DEF AfterSuite
    <3> QED
      BY <2>4, <3>1 DEF Progress
  <2>6. CASE ~HasMore
    <3>1. at = 4
      BY <2>2, <2>6, FourSuites DEF HasMore
    <3>2. \A s \in Suites : DoneNow(s)'
      BY <2>4, <3>1, FourSuites
    <3> QED
      BY <2>6, <3>2 DEF Progress, AfterSuite
  <2> QED
    BY <2>5, <2>6
<1>11. Current'
  BY DEF Current, AfterSuite
<1>12. EvidenceSettled'
  BY DEF IInv, EvidenceSettled
<1> QED
  BY <1>7, <1>8, <1>9, <1>10, <1>11, <1>12 DEF IInv

LEMMA ReadyToCombine ==
  ASSUME IInv, pc = "combine"
  PROVE  /\ All /\ doing = Order /\ output \in Outputs /\ job \in 1 .. MaxJobs
         /\ \A s \in Suites : DoneNow(s) /\ WholeOf(file[s], s, job)
         /\ Combined \in Texts /\ WholeOfAll(Combined, job)
<1>1. All /\ doing = Order /\ output \in Outputs /\ job \in 1 .. MaxJobs
  BY RawIsFile, AllAssumption DEF IInv, TypeOK, Control
<1>2. \A s \in Suites : DoneNow(s)
  BY <1>1 DEF IInv, Progress
<1>3. \A s \in Suites : WholeOf(file[s], s, job)
  BY <1>2 DEF DoneNow, SettledNow, Settled
<1> QED
  BY <1>1, <1>2, <1>3, CombinedIsWhole DEF IInv

LEMMA CombineStep ==
  ASSUME IInv, Combine
  PROVE  IInv'
<1> USE DEF Combine, Write, sidevars
<1>1. /\ All /\ output \in Files /\ Combined \in Texts /\ WholeOfAll(Combined, job)
      /\ \A s \in Suites : DoneNow(s)
  BY ReadyToCombine DEF Files
<1>2. file' \in [Files -> Texts] /\ file'[output] = Combined /\ \A f \in Files \ {output} : file'[f] = file[f]
  BY <1>1 DEF IInv, TypeOK
<1>3. TypeOK'
  BY <1>2 DEF IInv, TypeOK, jobvars
<1>4. OneJob(Combined)
  <2>1. DOMAIN Combined = 1 .. 4
    BY <1>1 DEF WholeOfAll, Texts
  <2> QED
    BY <1>1, <2>1 DEF WholeOfAll, OneJob
<1>5. OneJobPerFile'
  BY <1>2, <1>4 DEF IInv, OneJobPerFile, OneJob
<1>6. Control' /\ Current'
  BY DEF IInv, Control, Current, All, jobvars
<1>7. Progress'
  <2>1. ASSUME NEW s \in Suites
        PROVE  SettledNow(s)' /\ (s # output => file'[s] = provenance[s].raw)
    BY <1>1, <1>2 DEF DoneNow, SettledNow, Files, jobvars
  <2> QED
    BY <1>1, <1>2, <2>1 DEF Progress, jobvars
<1>8. EvidenceSettled'
  BY DEF IInv, EvidenceSettled
<1> QED
  BY <1>3, <1>5, <1>6, <1>7, <1>8 DEF IInv

LEMMA WriteManifestStep ==
  ASSUME IInv, WriteManifest
  PROVE  IInv'
<1> USE DEF WriteManifest
<1>1. job \in 1 .. MaxJobs /\ output \in Outputs
  BY AllAssumption DEF IInv, TypeOK, Control
<1>2. manifest' \in Manifests
  BY <1>1 DEF Manifests
<1>3. TypeOK'
  BY <1>2 DEF IInv, TypeOK, jobvars
<1>4. OneJobPerFile' /\ Control' /\ Current'
  BY DEF IInv, OneJobPerFile, Control, Current, All, jobvars
<1>5. Progress'
  BY DEF IInv, Progress, SettledNow, All, jobvars
<1>6. EvidenceSettled'
  BY DEF IInv, EvidenceSettled
<1> QED
  BY <1>3, <1>4, <1>5, <1>6 DEF IInv

\* All suites are settled when the evidence is written, the hashes are of now.
LEMMA WriteEvidenceStep ==
  ASSUME IInv, WriteEvidence
  PROVE  IInv'
<1> USE DEF WriteEvidence
<1>1. /\ All /\ job \in 1 .. MaxJobs /\ output \in Outputs /\ output \in Files
      /\ \A s \in Suites : SettledNow(s) /\ (s # output => file[s] = provenance[s].raw)
      /\ WholeOfAll(file[output], job)
  BY AllAssumption DEF IInv, TypeOK, Control, Progress, Files
<1>2. /\ Evidence.kind = "whole" /\ Evidence.job = job /\ Evidence.output = output
      /\ Evidence.target = build /\ Evidence.derived = derived /\ Evidence.provenance = provenance
      /\ Evidence.raw = [s \in Suites |-> file[s]]
  BY DEF Evidence
<1>3. TypeOK'
  <2>1. [s \in Suites |-> file[s]] \in [Suites -> Texts] /\ file[output] \in Texts
    BY <1>1 DEF IInv, TypeOK, Files
  <2>2. evidence' \in
          [kind : {"whole"}, job : 1 .. MaxJobs, output : Outputs, target : 0 .. MaxReplaced,
           status : {"passed", "failed"}, combined : Texts, manifest : Manifests,
           raw : [Suites -> Texts], derived : [Suites -> Derivatives], provenance : [Suites -> Provenances]]
    BY <1>1, <2>1 DEF Evidence, IInv, TypeOK
  <2> QED
    BY <2>2 DEF IInv, TypeOK, jobvars
<1>4. OneJobPerFile' /\ Control' /\ Progress' /\ Current'
  BY DEF IInv, OneJobPerFile, Control, Progress, Current
<1>5. EvidenceSettled'
  <2> SUFFICES ASSUME NEW s \in Suites
               PROVE  /\ Settled(s, derived[s], provenance[s], job, build, replacedIn)
                      /\ IF s = output THEN WholeOfAll(file[s], job) ELSE file[s] = provenance[s].raw
    BY <1>2 DEF EvidenceSettled
  <2> QED
    BY <1>1 DEF SettledNow
<1> QED
  BY <1>3, <1>4, <1>5 DEF IInv

LEMMA StopStep ==
  ASSUME IInv, Stop
  PROVE  IInv'
<1> USE DEF Stop, Write
<1>1. pc' = "idle" /\ UNCHANGED <<build, job, output, doing, at, named, failures, replacedIn>>
  BY DEF jobvars
<1>2. file' \in [Files -> Texts] /\ OneJobPerFile'
  <2>1. CASE file' = file
    BY <2>1 DEF IInv, TypeOK, OneJobPerFile
  <2>2. CASE file' # file
    <3>1. pc = "combine" /\ \E n \in 0 .. Len(Combined) - 1 :
            file' = [file EXCEPT ![output] = SubSeq(Combined, 1, n)]
      BY <2>2 DEF sidevars
    <3>2. output \in Files /\ Combined \in Texts /\ WholeOfAll(Combined, job)
      BY <3>1, ReadyToCombine DEF Files
    <3>3. PICK n \in 0 .. Len(Combined) - 1 : file' = [file EXCEPT ![output] = SubSeq(Combined, 1, n)]
      BY <3>1
    <3>4. n \in 0 .. Len(Combined)
      BY <3>2 DEF Texts
    <3>5. SubSeq(Combined, 1, n) \in Texts /\ OneJob(SubSeq(Combined, 1, n))
      BY <3>2, <3>4, PrefixIsOneJob
    <3> QED
      BY <3>2, <3>3, <3>5, SMTT(30) DEF IInv, TypeOK, OneJobPerFile, OneJob
  <2> QED
    BY <2>1, <2>2
<1>3. derived' \in [Suites -> Derivatives] /\ provenance' \in [Suites -> Provenances]
  <2>1. derived' = derived \/ derived' = [derived EXCEPT ![Suite] = Torn]
    BY DEF sidevars
  <2>2. provenance' = provenance \/ provenance' = [provenance EXCEPT ![Suite] = Torn]
    BY DEF sidevars
  <2>3. Torn \in Derivatives /\ Torn \in Provenances
    BY DEF Derivatives, Provenances
  <2> QED
    BY <2>1, <2>2, <2>3 DEF IInv, TypeOK
<1>4. manifest' \in {manifest, Torn} /\ evidence' \in {evidence, Torn}
  BY DEF sidevars
<1>5. TypeOK'
  BY <1>1, <1>2, <1>3, <1>4 DEF IInv, TypeOK, Manifests
<1>6. Control' /\ Progress' /\ Current'
  BY <1>1 DEF Control, Progress, Current
<1>7. EvidenceSettled'
  BY <1>1, <1>4 DEF IInv, EvidenceSettled, Torn
<1> QED
  BY <1>2, <1>5, <1>6, <1>7 DEF IInv

LEMMA StutterStep ==
  ASSUME IInv, UNCHANGED vars
  PROVE  IInv'
BY DEF vars, sidevars, jobvars, IInv, TypeOK, OneJobPerFile, Control, Progress, Current, EvidenceSettled,
       DoneNow, SettledNow, All, Raw, Suite, Chunk, Derived

\* The invariant holds in every state of the specification.
THEOREM Invariance == Spec => []IInv
<1>1. Init => IInv
  BY InitInvariant
<1>2. IInv /\ [Next]_vars => IInv'
  BY ReplaceStep, StartStep, PrepareStep, WriteSomeStep, SuiteRanStep, SuiteBailsStep, DeriveStep,
     WriteProvenanceStep, CombineStep, WriteManifestStep, WriteEvidenceStep, StopStep, StutterStep DEF Next
<1> QED
  BY <1>1, <1>2, PTL DEF Spec

-----------------------------------------------------------------------------
(* What follows *)

\* Type correctness of the files, of what is derived from them and of the job.
THEOREM TypeCorrect == Spec => []TypeOK
<1>1. IInv => TypeOK
  BY DEF IInv
<1> QED
  BY <1>1, Invariance, PTL

\* However often jobs are run, killed and rerun in one directory, what the
\* evidence binds as a raw file is all that its suite wrote in one job.
THEOREM EvidenceBindsWholeRuns == Spec => []BindsOneWholeRun
<1>1. IInv => BindsOneWholeRun
  <2> SUFFICES ASSUME IInv, NEW f \in Files, NEW s \in Suites, Binds(s, file[f])
               PROVE  IF s = evidence.output THEN WholeOfAll(file[f], evidence.job)
                      ELSE WholeOf(file[f], s, evidence.job)
    BY DEF BindsOneWholeRun
  <2>1. evidence.kind = "whole" /\ evidence.raw[s] = file[f]
    BY DEF Binds
  <2> QED
    BY <2>1 DEF IInv, EvidenceSettled, Settled
<1> QED
  BY <1>1, Invariance, PTL

\* No file ever mixes the records of two jobs.
THEOREM FilesAreOfOneJob == Spec => []OneJobPerFile
<1>1. IInv => OneJobPerFile
  BY DEF IInv
<1> QED
  BY <1>1, Invariance, PTL

\* The evidence hashes files of its own job only, which agree with one another
\* but for the raw file that --output replaced.
THEOREM EvidenceHashesAgree == Spec => []HashesAgree
<1>1. IInv => HashesAgree
  <2> SUFFICES ASSUME IInv, evidence.kind = "whole", NEW s \in Suites
               PROVE  LET p == evidence.provenance[s] IN
                        /\ p.kind = "whole" /\ p.job = evidence.job
                        /\ p.derived = evidence.derived[s]
                        /\ p.derived.kind = "whole" /\ p.derived.job = evidence.job
                        /\ p.derived.of = p.raw
                        /\ p.raw = evidence.raw[s] <=> s # evidence.output
    BY DEF HashesAgree
  <2>1. /\ Settled(s, evidence.derived[s], evidence.provenance[s], evidence.job, evidence.target, replacedIn)
        /\ IF s = evidence.output THEN WholeOfAll(evidence.raw[s], evidence.job)
           ELSE evidence.raw[s] = evidence.provenance[s].raw
    BY DEF IInv, EvidenceSettled
  <2>2. s = evidence.output => evidence.provenance[s].raw # evidence.raw[s]
    BY <2>1 DEF Settled, WholeOf, WholeOfAll
  <2> QED
    BY <2>1, <2>2 DEF Settled
<1> QED
  BY <1>1, Invariance, PTL

\* Records, provenance and evidence name builds of the target in the order in
\* which they are written, and the same one unless it was replaced meanwhile.
THEOREM BuildsAreInOrder == Spec => []BuildsInOrder
<1>1. IInv => BuildsInOrder
  BY DEF IInv, EvidenceSettled, Settled, BuildsInOrder
<1> QED
  BY <1>1, Invariance, PTL
=============================================================================
