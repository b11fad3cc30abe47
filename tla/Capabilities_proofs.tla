------------------------- MODULE Capabilities_proofs ------------------------
(***************************************************************************)
(* Proofs about Capabilities, for any builds, any capabilities probed in   *)
(* any order, any catalog and any number of replacements.                  *)
(*                                                                         *)
(* The argument: the steps are done in one order, so what every step       *)
(* before the next one has found out stands, as long as the build it was   *)
(* found out about does; the steps left are a suffix, and when none is     *)
(* left everything has been found out.                                     *)
(***************************************************************************)
EXTENDS Capabilities, SequenceTheorems, TLAPS

P == Len(Probes)

-----------------------------------------------------------------------------
(* The inductive invariant *)

Products == {"redlinedb", "sqlite3"}
Record == [case : 1 .. N, named : [Engines -> Builds], ran : [Engines -> Builds]]

\* The shape of the state; the capabilities found are real ones.
Types ==
  /\ path \in [Engines -> Builds]
  /\ features \in [Builds -> SUBSET Caps]
  /\ at \in 0 .. Len(Steps) + 1
  /\ identity \in [Engines -> [sha : Builds \cup {"none"}, product : Products \cup {"none"}]]
  /\ caps \in [Engines -> SUBSET Caps]
  /\ known \in SUBSET Engines
  /\ records \in Seq(Record)
  /\ steady \in SUBSET Engines

\* What is known of engine e is true of the build at its path.
Sees(e) ==
  /\ identity[e].sha # "none" => path[e] = identity[e].sha
  /\ identity[e].product # "none" => identity[e].product = Product(path[e])
  /\ caps[e] \subseteq features[path[e]]

\* Nothing is asked of a binary before it has been read, and what was asked
\* of one that still stands is true.
Seen ==
  /\ \A e \in Engines : identity[e].sha = "none" => identity[e].product = "none" /\ caps[e] = {}
  /\ \A e \in steady : Sees(e)

\* Capability c of engine e is settled: found if the build has it, unless the
\* probe of the target erred.
Probed(e, c) ==
  e \in known \cap steady /\ c \in features[path[e]] => c \in caps[e] \/ (e = "target" /\ c \in erred)

Finished(step) ==
  /\ step.what = "sha" => identity[step.engine].sha \in Builds
  /\ step.what = "validate" => Valid
  /\ step = Step("reference", "version") => "reference" \in known
  /\ step.what \in Caps => Probed(step.engine, step.what)

Progress == \A n \in 1 .. at - 1 : Finished(Steps[n])

\* The target joins the partition in its own --version step.
TargetUnknown == at \in 1 .. P + 7 => "target" \notin known

\* Only when all is done there are records, and they name what was identified.
Kept ==
  /\ records # <<>> => Split
  /\ \A n \in 1 .. Len(records) :
       /\ records[n].named = [e \in Engines |-> identity[e].sha]
       /\ \A e \in steady : records[n].ran[e] = path[e]

IInv == Types /\ Seen /\ Progress /\ TargetUnknown /\ Kept

-----------------------------------------------------------------------------
(* The steps *)

LEMMA StepsAre ==
  /\ P \in Nat /\ Len(Steps) = P + P + 7 /\ DOMAIN Steps = 1 .. P + P + 7
  /\ \A n \in 1 .. 5 : Steps[n] = Starting[n]
  /\ Steps[6] = Step("reference", "version") /\ Steps[P + 7] = Step("target", "version")
  /\ \A i \in 1 .. P : /\ Steps[i + 6] = Step("reference", Probes[i])
                       /\ Steps[P + 7 + i] = Step("target", Probes[i])
<1> DEFINE Began == {Starting[n] : n \in 1 .. 5}
           S == Began \cup {Step(e, c) : e \in {"reference", "target"}, c \in Caps \cup {"version"}}
           Each(e) == [i \in DOMAIN Probes |-> Step(e, Probes[i])]
<1>1. P \in Nat /\ DOMAIN Probes = 1 .. P /\ \A i \in 1 .. P : Probes[i] \in Caps
  BY CapabilitiesAssumption DEF P, Caps
<1>2. Starting \in Seq(S) /\ Len(Starting) = 5
  <2>1. Len(Starting) = 5 /\ DOMAIN Starting = 1 .. 5
    BY DEF Starting
  <2>2. \A n \in 1 .. 5 : Starting[n] \in S
    OBVIOUS
  <2>3. Starting = [n \in 1 .. 5 |-> Starting[n]]
    BY <2>1 DEF Starting
  <2> HIDE DEF S
  <2>4. Starting \in [1 .. 5 -> S]
    BY <2>2, <2>3
  <2>5. Starting \in Seq(S)
    BY <2>4, SeqDef
  <2> QED
    BY <2>1, <2>5
<1>3. ASSUME NEW e \in {"reference", "target"}
      PROVE  /\ Probing(e) \in Seq(S) /\ Len(Probing(e)) = P + 1
             /\ Probing(e)[1] = Step(e, "version")
             /\ \A i \in 1 .. P : Probing(e)[i + 1] = Step(e, Probes[i])
  <2>0. \A i \in 1 .. P : Step(e, Probes[i]) \in S
    BY <1>1
  <2>01. Step(e, "version") \in S
    OBVIOUS
  <2> HIDE DEF S
  <2>1. Each(e) \in [1 .. P -> S] /\ \A i \in 1 .. P : Each(e)[i] = Step(e, Probes[i])
    BY <1>1, <2>0
  <2>2. Each(e) \in Seq(S) /\ Len(Each(e)) = P
    BY <1>1, <2>1
  <2> DEFINE one == <<Step(e, "version")>>
             each == Each(e)
  <2>3. one \in Seq(S) /\ Len(one) = 1 /\ one[1] = Step(e, "version")
    BY <2>01
  <2>4. Probing(e) = one \o each
    BY DEF Probing
  <2> HIDE DEF one, each
  <2>5. each \in Seq(S) /\ Len(each) = P
    BY <2>2 DEF each
  <2>6. /\ one \o each \in Seq(S) /\ Len(one \o each) = Len(one) + Len(each)
        /\ \A i \in 1 .. Len(one) + Len(each) :
             (one \o each)[i] = IF i <= Len(one) THEN one[i] ELSE each[i - Len(one)]
    BY <2>3, <2>5, ConcatProperties
  <2>7. \A i \in 1 .. P : Probing(e)[i + 1] = each[i]
    BY <1>1, <2>3, <2>4, <2>5, <2>6
  <2>8. \A i \in 1 .. P : each[i] = Step(e, Probes[i])
    BY <2>1 DEF each
  <2>9. Probing(e)[1] = one[1]
    BY <1>1, <2>3, <2>4, <2>5, <2>6
  <2> QED
    BY <1>1, <2>3, <2>4, <2>5, <2>6, <2>7, <2>8, <2>9
<1> DEFINE ref == Probing("reference")
           tgt == Probing("target")
           begun == Starting \o ref
<1>4. /\ ref \in Seq(S) /\ Len(ref) = P + 1 /\ ref[1] = Step("reference", "version")
      /\ \A i \in 1 .. P : ref[i + 1] = Step("reference", Probes[i])
  BY <1>3
<1>5. /\ tgt \in Seq(S) /\ Len(tgt) = P + 1 /\ tgt[1] = Step("target", "version")
      /\ \A i \in 1 .. P : tgt[i + 1] = Step("target", Probes[i])
  BY <1>3
<1> HIDE DEF S, ref, tgt
<1>6. /\ begun \in Seq(S) /\ Len(begun) = Len(Starting) + Len(ref)
      /\ \A i \in 1 .. Len(Starting) + Len(ref) :
           begun[i] = IF i <= Len(Starting) THEN Starting[i] ELSE ref[i - Len(Starting)]
  BY <1>2, <1>4, ConcatProperties
<1>7. Len(begun) = P + 6
  BY <1>1, <1>2, <1>4, <1>6
<1>8. \A n \in 1 .. 5 : begun[n] = Starting[n]
  BY <1>1, <1>2, <1>4, <1>6
<1>9. \A i \in 1 .. P + 1 : begun[i + 5] = ref[i]
  BY <1>1, <1>2, <1>4, <1>6
<1> HIDE DEF begun
<1>10. Steps = begun \o tgt
  BY DEF Steps, begun, ref, tgt
<1> HIDE DEF begun
<1>11. /\ begun \o tgt \in Seq(S) /\ Len(begun \o tgt) = Len(begun) + Len(tgt)
       /\ \A i \in 1 .. Len(begun) + Len(tgt) :
            (begun \o tgt)[i] = IF i <= Len(begun) THEN begun[i] ELSE tgt[i - Len(begun)]
  BY <1>5, <1>6, ConcatProperties
<1>12. \A n \in 1 .. P + 6 : Steps[n] = begun[n]
  BY <1>1, <1>5, <1>7, <1>10, <1>11
<1>13. \A i \in 1 .. P + 1 : Steps[P + 6 + i] = tgt[i]
  BY <1>1, <1>5, <1>7, <1>10, <1>11
<1>14. \A n \in 1 .. 5 : Steps[n] = Starting[n]
  BY <1>1, <1>8, <1>12
<1>15. Steps[6] = Step("reference", "version") /\ Steps[P + 7] = Step("target", "version")
  <2>1. 1 \in 1 .. P + 1 /\ 1 + 5 = 6 /\ 6 \in 1 .. P + 6 /\ (P + 6) + 1 = P + 7
    BY <1>1
  <2>2. Steps[1 + 5] = ref[1]
    BY <1>9, <1>12, <2>1
  <2>3. Steps[P + 6 + 1] = tgt[1]
    BY <1>13, <2>1
  <2> QED
    BY <1>4, <1>5, <2>1, <2>2, <2>3
<1>16. ASSUME NEW i \in 1 .. P
       PROVE  /\ Steps[i + 6] = Step("reference", Probes[i])
              /\ Steps[P + 7 + i] = Step("target", Probes[i])
  <2>1. i + 1 \in 1 .. P + 1 /\ (i + 1) + 5 = i + 6 /\ i + 6 \in 1 .. P + 6 /\ P + 6 + (i + 1) = P + 7 + i
    BY <1>1
  <2>2. Steps[i + 6] = ref[i + 1]
    BY <1>9, <1>12, <2>1
  <2>3. Steps[P + 7 + i] = tgt[i + 1]
    BY <1>13, <2>1
  <2> QED
    BY <1>4, <1>5, <2>2, <2>3
<1>17. Len(Steps) = P + P + 7 /\ Steps \in Seq(S)
  BY <1>1, <1>5, <1>7, <1>10, <1>11
<1>18. DOMAIN Steps = 1 .. P + P + 7
  BY <1>17
<1> QED
  BY <1>1, <1>14, <1>15, <1>16, <1>17, <1>18

\* Where the steps of each kind are.
LEMMA StepKinds ==
  /\ P \in Nat /\ Len(Steps) = P + P + 7 /\ DOMAIN Steps = 1 .. P + P + 7
  /\ \A n \in 1 .. P + P + 7 :
       LET s == Steps[n]
       IN  /\ s.what = "sha" => (n = 1 /\ s.engine = "reference") \/ (n = 3 /\ s.engine = "target")
           /\ s.what = "product" => (n = 2 /\ s.engine = "reference") \/ (n = 4 /\ s.engine = "target")
           /\ s.what = "validate" => n = 5
           /\ s.what = "version" => (n = 6 /\ s.engine = "reference") \/ (n = P + 7 /\ s.engine = "target")
           /\ s.what \in Caps => n > 6 /\ s.engine \in Engines
           /\ n > P + 7 => s.engine = "target" /\ s.what \in Caps
<1>1. P \in Nat /\ Len(Steps) = P + P + 7
  BY StepsAre
<1>2. "sha" \notin Caps /\ "product" \notin Caps /\ "validate" \notin Caps /\ "version" \notin Caps
  BY CapabilitiesAssumption
<1>3. \A i \in 1 .. P : Probes[i] \in Caps
  BY CapabilitiesAssumption DEF P, Caps
<1>4. DOMAIN Steps = 1 .. P + P + 7
  BY StepsAre
<1>5. /\ Steps[1] = Step("reference", "sha") /\ Steps[2] = Step("reference", "product")
      /\ Steps[3] = Step("target", "sha") /\ Steps[4] = Step("target", "product")
      /\ Steps[5] = Step("both", "validate")
  BY StepsAre DEF Starting
<1>6. ASSUME NEW n \in 1 .. P + P + 7
      PROVE  \/ n \in 1 .. 6 \/ n = P + 7
             \/ \E i \in 1 .. P : n = i + 6 \/ n = P + 7 + i
  <2>1. CASE n > 6 /\ n < P + 7
    <3>1. n - 6 \in 1 .. P /\ n = (n - 6) + 6
      BY <1>1, <2>1
    <3> QED
      BY <3>1
  <2>2. CASE n > P + 7
    <3>1. n - (P + 7) \in 1 .. P /\ n = P + 7 + (n - (P + 7))
      BY <1>1, <2>2
    <3> QED
      BY <3>1
  <2> QED
    BY <1>1, <2>1, <2>2
<1>7. ASSUME NEW n \in 1 .. P + P + 7
      PROVE  LET s == Steps[n]
             IN  /\ s.what = "sha" => (n = 1 /\ s.engine = "reference") \/ (n = 3 /\ s.engine = "target")
                 /\ s.what = "product" => (n = 2 /\ s.engine = "reference") \/ (n = 4 /\ s.engine = "target")
                 /\ s.what = "validate" => n = 5
                 /\ s.what = "version" => (n = 6 /\ s.engine = "reference") \/ (n = P + 7 /\ s.engine = "target")
                 /\ s.what \in Caps => n > 6 /\ s.engine \in Engines
                 /\ n > P + 7 => s.engine = "target" /\ s.what \in Caps
  <2>1. CASE n \in 1 .. 5
    BY <1>1, <1>2, <1>5, <2>1 DEF Step
  <2>2. CASE n = 6 \/ n = P + 7
    BY <1>1, <1>2, <2>2, StepsAre DEF Step, Engines
  <2>3. CASE \E i \in 1 .. P : n = i + 6
    <3>1. PICK i \in 1 .. P : n = i + 6
      BY <2>3
    <3>0. Steps[n] = Step("reference", Probes[i])
      BY <3>1, StepsAre
    <3>2. Steps[n].engine = "reference" /\ Steps[n].what = Probes[i]
      BY <3>0 DEF Step
    <3>3. Steps[n].what \in Caps /\ n > 6 /\ ~ (n > P + 7)
      BY <1>1, <1>3, <3>1, <3>2
    <3> QED
      BY <1>2, <3>2, <3>3 DEF Engines
  <2>4. CASE \E i \in 1 .. P : n = P + 7 + i
    <3>1. PICK i \in 1 .. P : n = P + 7 + i
      BY <2>4
    <3>0. Steps[n] = Step("target", Probes[i])
      BY <3>1, StepsAre
    <3>2. Steps[n].engine = "target" /\ Steps[n].what = Probes[i]
      BY <3>0 DEF Step
    <3>3. Steps[n].what \in Caps /\ n > 6
      BY <1>1, <1>3, <3>1, <3>2
    <3> QED
      BY <1>2, <3>2, <3>3 DEF Engines
  <2> QED
    BY <1>1, <1>6, <2>1, <2>2, <2>3, <2>4
<1> QED
  BY <1>1, <1>4, <1>7

-----------------------------------------------------------------------------
(* The invariant is inductive *)

LEMMA Initially ==
  ASSUME Init
  PROVE  IInv
<1>1. P \in Nat /\ Len(Steps) = P + P + 7
  BY StepsAre
<1>2. Types
  BY <1>1 DEF Init, Types, Unknown, Engines
<1>3. Seen
  BY DEF Init, Seen, Sees, Unknown, Engines
<1>4. Progress
  BY DEF Init, Progress
<1>5. TargetUnknown /\ Kept
  BY DEF Init, TargetUnknown, Kept
<1> QED
  BY <1>2, <1>3, <1>4, <1>5 DEF IInv

\* What is finished when the step of that place is.
LEMMA Identified ==
  ASSUME Types, Progress
  PROVE  /\ at > 3 => \A e \in Engines : identity[e].sha \in Builds
         /\ at > 5 => Valid
<1>1. P \in Nat /\ Len(Steps) = P + P + 7
  BY StepsAre
<1>2. Steps[1] = Step("reference", "sha") /\ Steps[3] = Step("target", "sha") /\ Steps[5] = Step("both", "validate")
  BY StepsAre DEF Starting
<1>3. at \in Nat
  BY <1>1 DEF Types
<1>4. at > 3 => Finished(Steps[1]) /\ Finished(Steps[3])
  BY <1>3 DEF Progress
<1>5. at > 5 => Finished(Steps[5])
  BY <1>3 DEF Progress
<1> QED
  BY <1>2, <1>4, <1>5 DEF Finished, Step, Engines

\* A build is replaced: of what was found out about the old one nothing is left
\* to be true, unless it was not yet looked at.
LEMMA ReplaceKeeps ==
  ASSUME IInv, Replace
  PROVE  IInv'
<1> USE DEF IInv
<1>1. PICK e \in Engines, build \in Builds :
        /\ path' = [path EXCEPT ![e] = build]
        /\ steady' = IF identity[e] = Unknown THEN steady ELSE steady \ {e}
  BY DEF Replace
<1>2. UNCHANGED <<features, catalog, at, identity, caps, known, records, erred>>
  BY DEF Replace
<1>3. Types'
  BY <1>1, <1>2 DEF Types
<1>4. \A x \in steady' : x \in steady /\ x \in Engines
  BY <1>1 DEF Types
<1>5. \A x \in steady' : x # e => path'[x] = path[x]
  BY <1>1, <1>4 DEF Types
<1>6. e \in steady' => identity[e] = Unknown
  BY <1>1
<1>7. e \in steady' => identity[e].sha = "none" /\ identity[e].product = "none" /\ caps[e] = {}
  BY <1>6 DEF Unknown, Seen
<1>8. Seen'
  BY <1>2, <1>4, <1>5, <1>7 DEF Seen, Sees
<1>9. at > 3 => e \notin steady'
  BY <1>7, Identified, CapabilitiesAssumption DEF Builds
<1>10. Progress'
  <2> SUFFICES ASSUME NEW n \in 1 .. at - 1
               PROVE  Finished(Steps[n])'
    BY <1>2 DEF Progress
  <2>1. Finished(Steps[n])
    BY DEF Progress
  <2>2. Valid' = Valid
    BY <1>2 DEF Valid
  <2>3. Steps[n].what \in Caps => at > 3 /\ n > 6
    BY StepKinds DEF Types
  <2>4. Steps[n].what \in Caps => Probed(Steps[n].engine, Steps[n].what)'
    BY <1>2, <1>4, <1>5, <1>9, <2>1, <2>3 DEF Finished, Probed
  <2> QED
    BY <1>2, <2>1, <2>2, <2>4 DEF Finished
<1>11. TargetUnknown'
  BY <1>2 DEF TargetUnknown
<1>12. Kept'
  <2>1. records # <<>> => Split /\ Split'
    BY <1>2 DEF Kept, Split
  <2>2. records # <<>> => at > 3
    BY <2>1, StepsAre DEF Split
  <2>3. \A n \in 1 .. Len(records) : records # <<>>
    BY DEF Types
  <2>4. \A n \in 1 .. Len(records) : \A x \in steady' : x # e
    BY <1>9, <2>2, <2>3
  <2> QED
    BY <1>2, <1>4, <1>5, <2>1, <2>4 DEF Kept
<1> QED
  BY <1>3, <1>8, <1>10, <1>11, <1>12

\* The step at hand is at a place of Steps, and what it asks for says which.
LEMMA IdentifyKeeps ==
  ASSUME IInv, Identify
  PROVE  IInv'
<1> USE DEF IInv
<1>1. /\ at \in DOMAIN Steps /\ Steps[at].what \in {"sha", "product"} /\ at' = at + 1
      /\ UNCHANGED <<path, features, catalog, caps, known, records, replaced, steady, erred>>
  BY DEF Identify, AtStep, Done
<1>2. P \in Nat /\ Len(Steps) = P + P + 7 /\ at \in 1 .. P + P + 7
  BY <1>1, StepKinds
<1> DEFINE e == Engine
<1>3. e \in Engines /\ at <= 4
  BY <1>1, <1>2, StepKinds DEF Engine, Engines
<1>4. /\ Steps[at].what = "sha" => (at = 1 /\ e = "reference") \/ (at = 3 /\ e = "target")
      /\ Steps[at].what = "product" => (at = 2 /\ e = "reference") \/ (at = 4 /\ e = "target")
  BY <1>2, StepKinds DEF Engine
<1>5. \A x \in Engines : x # e => identity'[x] = identity[x]
  BY <1>3 DEF Identify, Types
<1>6. path[e] \in Builds /\ Product(path[e]) \in Products
  BY <1>3 DEF Types, Product, Products
<1>7. Steps[at].what = "sha" =>
        /\ identity'[e].sha = path[e] /\ identity'[e].product = identity[e].product
        /\ identity' \in [Engines -> [sha : Builds \cup {"none"}, product : Products \cup {"none"}]]
  <2> SUFFICES ASSUME Steps[at].what = "sha"
               PROVE  /\ identity'[e].sha = path[e] /\ identity'[e].product = identity[e].product
                      /\ identity' \in [Engines -> [sha : Builds \cup {"none"}, product : Products \cup {"none"}]]
    OBVIOUS
  <2>1. identity' = [identity EXCEPT ![e]["sha"] = path[e]]
    BY DEF Identify
  <2> QED
    BY <1>3, <1>6, <2>1 DEF Types
<1>8. Steps[at].what = "product" =>
        /\ identity'[e].product = Product(path[e]) /\ identity'[e].sha = identity[e].sha
        /\ identity' \in [Engines -> [sha : Builds \cup {"none"}, product : Products \cup {"none"}]]
  <2> SUFFICES ASSUME Steps[at].what = "product"
               PROVE  /\ identity'[e].product = Product(path[e]) /\ identity'[e].sha = identity[e].sha
                      /\ identity' \in [Engines -> [sha : Builds \cup {"none"}, product : Products \cup {"none"}]]
    OBVIOUS
  <2>1. identity' = [identity EXCEPT ![e]["product"] = Product(path[e])]
    BY DEF Identify
  <2> QED
    BY <1>3, <1>6, <2>1 DEF Types
<1>9. Types'
  BY <1>1, <1>2, <1>7, <1>8 DEF Types
<1>10. Steps[at].what = "product" => identity[e].sha # "none"
  <2> SUFFICES ASSUME Steps[at].what = "product"
               PROVE  identity[e].sha # "none"
    OBVIOUS
  <2>1. PICK n \in 1 .. at - 1 : Steps[n] = Step(e, "sha")
    <3>1. Steps[1] = Step("reference", "sha") /\ Steps[3] = Step("target", "sha")
      BY StepsAre DEF Starting
    <3>2. CASE at = 2 /\ e = "reference"
      BY <3>1, <3>2
    <3>3. CASE at = 4 /\ e = "target"
      BY <3>1, <3>3
    <3> QED
      BY <1>4, <3>2, <3>3
  <2>2. Finished(Steps[n])
    BY DEF Progress
  <2> QED
    BY <2>1, <2>2, CapabilitiesAssumption DEF Finished, Step, Builds
<1>11. "none" \notin Builds
  BY CapabilitiesAssumption DEF Builds
<1>12. Seen'
  <2>1. ASSUME NEW x \in Engines, identity'[x].sha = "none"
        PROVE  identity'[x].product = "none" /\ caps'[x] = {}
    BY <1>1, <1>5, <1>6, <1>7, <1>8, <1>10, <1>11, <2>1 DEF Seen
  <2>2. ASSUME NEW x \in steady
        PROVE  Sees(x)'
    <3>1. Sees(x) /\ x \in Engines
      BY DEF Seen, Types
    <3>2. identity'[x].sha # "none" => path[x] = identity'[x].sha
      BY <1>1, <1>5, <1>7, <1>8, <3>1 DEF Sees
    <3>3. identity'[x].product # "none" => identity'[x].product = Product(path[x])
      BY <1>1, <1>5, <1>7, <1>8, <3>1 DEF Sees
    <3> QED
      BY <1>1, <3>1, <3>2, <3>3 DEF Sees
  <2> QED
    BY <1>1, <2>1, <2>2 DEF Seen
<1>13. Progress'
  <2> SUFFICES ASSUME NEW n \in 1 .. at
               PROVE  Finished(Steps[n])'
    BY <1>1, <1>2 DEF Progress
  <2>1. n \in 1 .. P + P + 7 /\ n <= 4 /\ (n \in 1 .. at - 1 \/ n = at)
    BY <1>2, <1>3
  <2>2. Steps[n].what \notin Caps /\ Steps[n].what # "validate" /\ Steps[n].what # "version"
    BY <1>2, <2>1, StepKinds
  <2>3. Steps[n].what = "sha" => identity'[Steps[n].engine].sha \in Builds
    <3>1. CASE n = at
      BY <1>6, <1>7, <3>1 DEF Engine
    <3>2. CASE n \in 1 .. at - 1
      <4>1. Finished(Steps[n])
        BY <3>2 DEF Progress
      <4>2. Steps[n].what = "sha" => Steps[n].engine \in Engines
        BY <2>1, StepKinds DEF Engines
      <4> QED
        BY <1>1, <1>5, <1>6, <1>7, <1>8, <4>1, <4>2 DEF Finished
    <3> QED
      BY <2>1, <3>1, <3>2
  <2> QED
    BY <2>2, <2>3 DEF Finished, Step
<1>14. TargetUnknown'
  BY <1>1, <1>2 DEF TargetUnknown
<1>15. Kept'
  <2>1. records = <<>>
    BY <1>2, <1>3 DEF Kept, Split
  <2> QED
    BY <1>1, <2>1 DEF Kept
<1> QED
  BY <1>9, <1>12, <1>13, <1>14, <1>15

\* The two binaries are told apart, or the suite ends.
LEMMA ValidateKeeps ==
  ASSUME IInv, Validate
  PROVE  IInv'
<1> USE DEF IInv
<1>1. /\ at \in DOMAIN Steps /\ Steps[at].what = "validate"
      /\ at' = IF Valid THEN at + 1 ELSE 0
      /\ UNCHANGED <<path, features, catalog, identity, caps, known, records, replaced, steady, erred>>
  BY DEF Validate, AtStep, Aborted
<1>2. P \in Nat /\ Len(Steps) = P + P + 7 /\ at = 5
  BY <1>1, StepKinds
<1>3. Types'
  BY <1>1, <1>2 DEF Types
<1>4. Seen'
  BY <1>1 DEF Seen, Sees
<1>5. Progress'
  <2> SUFFICES ASSUME NEW n \in 1 .. at' - 1
               PROVE  Finished(Steps[n])'
    BY DEF Progress
  <2>1. Valid /\ n \in 1 .. 5
    BY <1>1, <1>2
  <2>2. CASE n \in 1 .. at - 1
    BY <1>1, <2>2 DEF Progress, Finished, Valid, Probed
  <2>3. CASE n = 5
    <3>1. Steps[n] = Step("both", "validate")
      BY <2>3, StepsAre DEF Starting
    <3> QED
      BY <1>1, <2>1, <3>1, CapabilitiesAssumption DEF Finished, Valid, Step
  <2> QED
    BY <1>2, <2>1, <2>2, <2>3
<1>6. TargetUnknown' /\ Kept'
  <2>1. records = <<>> /\ "target" \notin known
    BY <1>2 DEF Kept, Split, TargetUnknown
  <2> QED
    BY <1>1, <2>1 DEF Kept, TargetUnknown
<1> QED
  BY <1>3, <1>4, <1>5, <1>6

\* An engine answers --version.
LEMMA ProbeVersionKeeps ==
  ASSUME IInv, ProbeVersion
  PROVE  IInv'
<1> USE DEF IInv
<1> DEFINE e == Engine
<1>1. /\ at \in DOMAIN Steps /\ Steps[at].what = "version" /\ at' = at + 1
      /\ known' = known \cup {e}
      /\ UNCHANGED <<path, features, catalog, identity, caps, records, replaced, steady, erred>>
  BY DEF ProbeVersion, AtStep, Done
<1>2. /\ P \in Nat /\ Len(Steps) = P + P + 7 /\ at \in 1 .. P + P + 7
      /\ (at = 6 /\ e = "reference") \/ (at = P + 7 /\ e = "target")
  BY <1>1, StepKinds DEF Engine
<1>3. Types'
  <2>1. known' \in SUBSET Engines
    BY <1>1, <1>2 DEF Types, Engines
  <2>2. at' \in 0 .. Len(Steps) + 1
    BY <1>1, <1>2
  <2> QED
    BY <1>1, <2>1, <2>2 DEF Types
<1>4. Seen'
  BY <1>1 DEF Seen, Sees
<1>5. Progress'
  <2> SUFFICES ASSUME NEW n \in 1 .. at
               PROVE  Finished(Steps[n])'
    BY <1>1, <1>2 DEF Progress
  <2>1. n \in 1 .. P + P + 7 /\ (n \in 1 .. at - 1 \/ n = at)
    BY <1>2
  <2>2. CASE n \in 1 .. at - 1
    <3>1. Finished(Steps[n])
      BY <2>2 DEF Progress
    <3>2. Steps[n].what \in Caps => Steps[n].engine # e
      <4>1. Steps[n].what \in Caps => n > 6 /\ n < P + 7
        BY <1>2, <2>1, <2>2, StepKinds
      <4>2. n > 6 /\ n < P + 7 => Steps[n].engine = "reference"
        <5> SUFFICES ASSUME n > 6 /\ n < P + 7
                     PROVE  Steps[n].engine = "reference"
          OBVIOUS
        <5>1. n - 6 \in 1 .. P /\ n = (n - 6) + 6
          BY <1>2, <2>1
        <5>2. Steps[n] = Step("reference", Probes[n - 6])
          BY <5>1, StepsAre
        <5> QED
          BY <5>2 DEF Step
      <4> QED
        BY <1>2, <2>2, <4>1, <4>2
    <3> QED
      BY <1>1, <3>1, <3>2 DEF Finished, Valid, Probed
  <2>3. CASE n = at
    <3>1. "version" \notin Caps
      BY CapabilitiesAssumption
    <3> QED
      BY <1>1, <2>3, <3>1 DEF Finished, Step, Engine
  <2> QED
    BY <2>1, <2>2, <2>3
<1>6. TargetUnknown'
  BY <1>1, <1>2 DEF TargetUnknown
<1>7. Kept'
  <2>1. records = <<>>
    BY <1>2 DEF Kept, Split
  <2> QED
    BY <1>1, <2>1 DEF Kept
<1> QED
  BY <1>3, <1>4, <1>5, <1>6, <1>7

\* A capability is found, or not.
LEMMA ProbeKeeps ==
  ASSUME IInv, Probe
  PROVE  IInv'
<1> USE DEF IInv
<1> DEFINE e == Engine
           c == Steps[at].what
<1>1. /\ at \in DOMAIN Steps /\ c \in Caps /\ at' = at + 1
      /\ caps' = [caps EXCEPT ![e] = @ \cup ({c} \cap features[path[e]])]
      /\ UNCHANGED <<path, features, catalog, identity, known, records, replaced, steady, erred>>
  BY DEF Probe, AtStep, Done
<1>2. /\ P \in Nat /\ Len(Steps) = P + P + 7 /\ at \in 1 .. P + P + 7
      /\ at > 6 /\ e \in Engines
  BY <1>1, StepKinds DEF Engine
<1>3. /\ \A x \in Engines : x # e => caps'[x] = caps[x]
      /\ caps'[e] = caps[e] \cup ({c} \cap features[path[e]])
      /\ caps' \in [Engines -> SUBSET Caps]
  BY <1>1, <1>2 DEF Types
<1>4. Types'
  BY <1>1, <1>2, <1>3 DEF Types
<1>5. \A x \in Engines : identity[x].sha # "none"
  BY <1>2, Identified, CapabilitiesAssumption DEF Builds
<1>6. Seen'
  <2>1. ASSUME NEW x \in steady
        PROVE  caps'[x] \subseteq features[path[x]]
    BY <1>3 DEF Seen, Sees, Types
  <2> QED
    BY <1>1, <1>5, <2>1 DEF Seen, Sees
<1>7. Progress'
  <2> SUFFICES ASSUME NEW n \in 1 .. at
               PROVE  Finished(Steps[n])'
    BY <1>1, <1>2 DEF Progress
  <2>1. n \in 1 .. P + P + 7 /\ (n \in 1 .. at - 1 \/ n = at)
    BY <1>2
  <2>2. CASE n \in 1 .. at - 1
    <3>1. Finished(Steps[n])
      BY <2>2 DEF Progress
    <3>2. Steps[n].what \in Caps => Steps[n].engine \in Engines
      BY <1>2, <2>1, StepKinds
    <3>3. Steps[n].what \in Caps => Probed(Steps[n].engine, Steps[n].what)'
      BY <1>1, <1>3, <3>1, <3>2 DEF Finished, Probed
    <3> QED
      BY <1>1, <3>1, <3>3 DEF Finished, Valid
  <2>3. CASE n = at
    <3>1. c # "sha" /\ c # "validate" /\ c # "version"
      BY <1>1, CapabilitiesAssumption
    <3>2. ASSUME NEW x, NEW k, x = e, k = c
          PROVE  Probed(x, k)'
      BY <1>1, <1>2, <1>3, <3>2 DEF Probed
    <3>3. Steps[n].engine = e /\ Steps[n].what = c
      BY <2>3 DEF Engine
    <3>4. Probed(Steps[n].engine, Steps[n].what)'
      BY <3>2, <3>3
    <3> QED
      BY <1>1, <2>3, <3>1, <3>3, <3>4 DEF Finished, Step
  <2> QED
    BY <2>1, <2>2, <2>3
<1>8. TargetUnknown'
  BY <1>1, <1>2 DEF TargetUnknown
<1>9. Kept'
  <2>1. records = <<>>
    BY <1>2 DEF Kept, Split
  <2> QED
    BY <1>1, <2>1 DEF Kept
<1> QED
  BY <1>4, <1>6, <1>7, <1>8, <1>9

\* A probe errs: the suite ends, or the target is left out, or the capability
\* counts as missing.
LEMMA ProbeErrsKeeps ==
  ASSUME IInv, ProbeErrs
  PROVE  IInv'
<1> USE DEF IInv
<1> DEFINE e == Engine
           c == Steps[at].what
<1>1. /\ at \in DOMAIN Steps /\ c \in {"sha", "product", "version"} \cup Caps
      /\ Fatal => at' = 0
      /\ ~ Fatal /\ c = "version" => at' = Len(Steps) + 1
      /\ ~ Fatal /\ c # "version" => at' = at + 1
      /\ ~ Fatal /\ e = "target" => erred' = erred \cup {c}
      /\ erred \subseteq erred'
      /\ UNCHANGED <<path, features, catalog, identity, caps, known, records, replaced, steady>>
  BY DEF ProbeErrs, AtStep, Aborted
<1>2. P \in Nat /\ Len(Steps) = P + P + 7 /\ at \in 1 .. P + P + 7
  BY <1>1, StepKinds
<1>3. ~ Fatal => at > 6 /\ e = "target"
  <2> SUFFICES ASSUME ~ Fatal
               PROVE  at > 6 /\ e = "target"
    OBVIOUS
  <2>1. e # "reference" /\ c \notin {"sha", "product"}
    BY <1>1 DEF Fatal, AtStep
  <2> QED
    BY <1>1, <1>2, <2>1, StepKinds DEF Engine, Engines
<1>4. Types'
  <2>1. at' \in 0 .. Len(Steps) + 1
    BY <1>1, <1>2
  <2> QED
    BY <1>1, <2>1 DEF Types
<1>5. Seen'
  BY <1>1 DEF Seen, Sees
<1>6. \A n \in 1 .. at - 1 : Finished(Steps[n])'
  <2> TAKE n \in 1 .. at - 1
  <2>1. Finished(Steps[n])
    BY DEF Progress
  <2>2. Steps[n].what \in Caps => Probed(Steps[n].engine, Steps[n].what)'
    BY <1>1, <2>1 DEF Finished, Probed
  <2> QED
    BY <1>1, <2>1, <2>2 DEF Finished, Valid
<1>7. Progress'
  <2> SUFFICES ASSUME NEW n \in 1 .. at' - 1
               PROVE  Finished(Steps[n])'
    BY DEF Progress
  <2>1. ~ Fatal
    BY <1>1
  <2>2. CASE n \in 1 .. at - 1
    BY <1>6, <2>2
  <2>3. CASE n \notin 1 .. at - 1 /\ c = "version"
    <3>1. n \in at .. P + P + 7 /\ at = P + 7
      BY <1>1, <1>2, <1>3, <2>1, <2>3, StepKinds DEF Engine
    <3>2. n > P + 7 => Steps[n].engine = "target" /\ Steps[n].what \in Caps
      BY <1>2, <3>1, StepKinds
    <3>3. n = P + 7 => Steps[n] = Step("target", "version")
      BY StepsAre
    <3>4. "target" \notin known'
      BY <1>1, <1>2, <3>1 DEF TargetUnknown
    <3>5. "version" \notin Caps /\ "sha" \notin Caps /\ "validate" \notin Caps
      BY CapabilitiesAssumption
    <3>6. CASE n > P + 7
      BY <3>2, <3>4, <3>5, <3>6 DEF Finished, Probed, Step
    <3>7. CASE n = P + 7
      BY <3>3, <3>5, <3>7 DEF Finished, Step
    <3> QED
      BY <1>2, <3>1, <3>6, <3>7
  <2>4. CASE n \notin 1 .. at - 1 /\ c # "version"
    <3>1. n = at
      BY <1>1, <1>2, <2>1, <2>4
    <3>2. c \in Caps /\ c # "sha" /\ c # "validate"
      BY <1>1, <2>1, <2>4, CapabilitiesAssumption DEF Fatal, AtStep
    <3>3. Steps[n].engine = "target" /\ Steps[n].what = c /\ Steps[n].what \in erred'
      BY <1>1, <1>3, <2>1, <3>1 DEF Engine
    <3> QED
      BY <2>4, <3>2, <3>3 DEF Finished, Probed, Step
  <2> QED
    BY <2>2, <2>3, <2>4
<1>8. TargetUnknown'
  <2> SUFFICES ASSUME at' \in 1 .. P + 7
               PROVE  "target" \notin known'
    BY DEF TargetUnknown
  <2>1. at \in 1 .. P + 7
    BY <1>1, <1>2
  <2> QED
    BY <1>1, <2>1 DEF TargetUnknown
<1>9. Kept'
  <2>1. records = <<>>
    BY <1>2 DEF Kept, Split
  <2> QED
    BY <1>1, <2>1 DEF Kept
<1> QED
  BY <1>4, <1>5, <1>7, <1>8, <1>9

\* A case is run and recorded.
LEMMA RunCaseKeeps ==
  ASSUME IInv, RunCase
  PROVE  IInv'
<1> USE DEF IInv
<1>1. Split /\ UNCHANGED <<path, features, catalog, at, identity, caps, known, replaced, steady, erred>>
  BY DEF RunCase
<1>2. P \in Nat /\ Len(Steps) = P + P + 7 /\ at > 5 /\ at > 3
  BY <1>1, StepsAre DEF Split
<1>3. \A e \in Engines : identity[e].sha \in Builds
  BY <1>2, Identified
<1> DEFINE names == [e \in Engines |-> identity[e].sha]
<1>4. PICK i \in Runnable \ Ran : records' = Append(records, [case |-> i, named |-> names, ran |-> path])
  BY DEF RunCase, Named
<1> DEFINE new == [case |-> i, named |-> names, ran |-> path]
<1>5. new \in Record
  <2>1. i \in 1 .. N
    BY DEF Runnable, Selected
  <2>2. names \in [Engines -> Builds]
    BY <1>3
  <2> QED
    BY <2>1, <2>2 DEF Record, Types
<1>6. /\ records' \in Seq(Record) /\ Len(records') = Len(records) + 1
      /\ \A n \in 1 .. Len(records) : records'[n] = records[n]
      /\ records'[Len(records) + 1] = new
  <2> HIDE DEF new
  <2> QED
    BY <1>4, <1>5 DEF Types, new
<1>7. Types'
  BY <1>1, <1>6 DEF Types
<1>8. Seen' /\ Progress' /\ TargetUnknown'
  BY <1>1 DEF Seen, Sees, Progress, Finished, Valid, Probed, TargetUnknown
<1>9. Kept'
  <2>1. Split'
    BY <1>1 DEF Split
  <2>2. ASSUME NEW n \in 1 .. Len(records')
        PROVE  /\ records'[n].named = names
               /\ \A e \in steady : records'[n].ran[e] = path[e]
    <3>1. n \in 1 .. Len(records) \/ n = Len(records) + 1
      BY <1>6 DEF Types
    <3>2. CASE n \in 1 .. Len(records)
      BY <1>6, <3>2 DEF Kept
    <3>3. CASE n = Len(records) + 1
      BY <1>6, <3>3
    <3> QED
      BY <3>1, <3>2, <3>3
  <2> QED
    BY <1>1, <2>1, <2>2 DEF Kept
<1> QED
  BY <1>7, <1>8, <1>9

\* The inductive invariant of a suite's start, of any builds and capabilities.
THEOREM Invariance == Spec => []IInv
<1>1. ASSUME IInv, UNCHANGED vars
      PROVE  IInv'
  BY <1>1 DEF vars, IInv, Types, Seen, Sees, Progress, Finished, Valid, Probed, TargetUnknown, Kept, Split
<1>2. ASSUME IInv, Next
      PROVE  IInv'
  BY <1>2, ReplaceKeeps, IdentifyKeeps, ValidateKeeps, ProbeVersionKeeps, ProbeKeeps, ProbeErrsKeeps,
     RunCaseKeeps DEF Next
<1> QED
  BY <1>1, <1>2, Initially, PTL DEF Spec

-----------------------------------------------------------------------------
(* What it says of the suite *)

\* While no binary is replaced, a case is run only if neither engine is known
\* to lack what it needs, and skipped only for a capability that one of them
\* lacks or for which a probe of the target erred.
THEOREM CasesAreSkippedForCause == Spec => []SkipsForCause
<1>1. ASSUME IInv, Split, steady = Engines
      PROVE  /\ "reference" \in known
             /\ \A i \in Runnable : \A e \in known : Required(catalog[i]) \subseteq Has(e)
             /\ \A i \in Skipped :
                  ~ Required(catalog[i]) \subseteq (Has("reference") \cap (Has("target") \ erred))
  <2> USE <1>1 DEF IInv
  <2>1. P \in Nat /\ Len(Steps) = P + P + 7 /\ at = P + P + 8
    BY StepsAre DEF Split
  <2>2. \A n \in 1 .. P + P + 7 : Finished(Steps[n])
    BY <2>1 DEF Progress
  <2>3. "reference" \in known
    <3>1. 6 \in 1 .. P + P + 7 /\ Steps[6] = Step("reference", "version")
      BY <2>1, StepsAre
    <3> QED
      BY <2>2, <3>1 DEF Finished
  <2>4. \A e \in Engines : Has(e) = features[path[e]]
    BY <2>1, Identified, CapabilitiesAssumption DEF Seen, Sees, Has, Builds
  <2>5. \A e \in Engines : caps[e] \subseteq Has(e)
    BY <2>4 DEF Seen, Sees
  <2>6. ASSUME NEW e \in known, NEW c \in Caps, c \in Has(e)
        PROVE  c \in caps[e] \/ (e = "target" /\ c \in erred)
    <3>1. PICK i \in 1 .. P : c = Probes[i]
      BY CapabilitiesAssumption DEF Caps, P
    <3>2. e \in Engines
      BY DEF Types
    <3>3. PICK n \in 1 .. P + P + 7 : Steps[n] = Step(e, c)
      <4>1. i + 6 \in 1 .. P + P + 7 /\ P + 7 + i \in 1 .. P + P + 7
        BY <2>1
      <4>2. Steps[i + 6] = Step("reference", c) /\ Steps[P + 7 + i] = Step("target", c)
        BY <3>1, StepsAre
      <4> QED
        BY <3>2, <4>1, <4>2 DEF Engines
    <3>4. Probed(e, c)
      BY <2>2, <3>3 DEF Finished, Step
    <3> QED
      BY <2>4, <2>6, <3>2, <3>4 DEF Probed
  <2>7. ASSUME NEW i \in Skipped
        PROVE  ~ Required(catalog[i]) \subseteq (Has("reference") \cap (Has("target") \ erred))
    <3>1. PICK e \in known, c \in Required(catalog[i]) : c \notin caps[e]
      BY DEF Skipped, Runnable, Runs
    <3>2. c \in Caps /\ e \in Engines
      BY DEF Required, Types
    <3>3. c \notin Has(e) \/ (e = "target" /\ c \in erred)
      BY <2>6, <3>1, <3>2
    <3> QED
      BY <3>1, <3>2, <3>3 DEF Engines
  <2>8. ASSUME NEW i \in Runnable, NEW e \in known
        PROVE  Required(catalog[i]) \subseteq Has(e)
    BY <2>5 DEF Runnable, Runs, Types
  <2> QED
    BY <2>3, <2>7, <2>8
<1>2. IInv => SkipsForCause
  BY <1>1 DEF SkipsForCause
<1> QED
  BY <1>2, Invariance, PTL

\* All records of a suite name one reference and one target, which are not the
\* same build; those that were not replaced are the builds that were run, and
\* such a target is of redlinedb.
THEOREM OnePairIsNamed == Spec => []RecordsNameOnePair
<1>1. ASSUME IInv, NEW n \in DOMAIN records
      PROVE  /\ records[n].named = records[1].named
             /\ records[n].named["reference"] # records[n].named["target"]
             /\ \A e \in steady : records[n].named[e] = records[n].ran[e]
             /\ "target" \in steady => records[n].named["target"] \in Redlines
  <2> USE <1>1 DEF IInv
  <2>1. n \in 1 .. Len(records) /\ 1 \in 1 .. Len(records) /\ records # <<>>
    BY DEF Types
  <2>2. at > 5
    BY <2>1, StepsAre DEF Kept, Split
  <2>3. Valid /\ \A e \in Engines : identity[e].sha \in Builds
    BY <2>2, Identified DEF Types
  <2>4. records[n].named = [e \in Engines |-> identity[e].sha] /\ records[1].named = [e \in Engines |-> identity[e].sha]
    BY <2>1 DEF Kept
  <2>5. \A e \in Engines : records[n].named[e] = identity[e].sha
    BY <2>4
  <2>6. \A e \in steady : identity[e].sha = path[e] /\ records[n].ran[e] = path[e] /\ e \in Engines
    <3> TAKE e \in steady
    <3>1. e \in Engines
      BY DEF Types
    <3>2. identity[e].sha # "none"
      BY <2>3, <3>1, CapabilitiesAssumption DEF Builds
    <3>3. records[n].ran[e] = path[e]
      BY <2>1 DEF Kept
    <3> QED
      BY <3>1, <3>2, <3>3 DEF Seen, Sees
  <2>7. "target" \in steady => Product(path["target"]) = "redlinedb"
    BY <2>3 DEF Seen, Sees, Valid
  <2>8. "target" \in steady => path["target"] \in Redlines
    BY <2>7 DEF Product
  <2> QED
    BY <2>3, <2>4, <2>5, <2>6, <2>8 DEF Valid, Engines
<1>2. IInv => RecordsNameOnePair
  BY <1>1 DEF RecordsNameOnePair
<1> QED
  BY <1>2, Invariance, PTL
=============================================================================
