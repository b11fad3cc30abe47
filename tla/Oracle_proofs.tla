---------------------------- MODULE Oracle_proofs ---------------------------
(***************************************************************************)
(* Proofs about Oracle, for any numbers of cases and features, whatever is *)
(* declared of the cases and whatever psql and the target print.           *)
(*                                                                         *)
(* The argument: the summary is at all times the number of cases so far of *)
(* each status, and a case has a target lane only if its own lane passed.  *)
(* The file lists the lanes of all cases, each pair together, so what the  *)
(* report counts by ids is a sum of those numbers.                         *)
(*                                                                         *)
(* What the normalizers hide: a cell has a kernel, all of it that no       *)
(* declared normalizer is there to ignore, which each of them keeps.  A    *)
(* chain keeps it by induction on its length, the essence of a cell        *)
(* follows from its kernel, and the compare modes see rows only, so equal  *)
(* outputs of the chain have equal essences.                               *)
(*                                                                         *)
(* What a verdict stands on: the runs of psql so far, of which the first   *)
(* two agree once a third is made, and the target's.                       *)
(***************************************************************************)
EXTENDS Oracle, SequenceTheorems, FunctionTheorems, FiniteSetTheorems, WellFoundedInduction, TLAPS

LEMMA Sizes == NCases \in Nat /\ NPassing \in Nat /\ NBacklog \in Nat
BY OracleAssumption

\* A set of numbers has a least one.
LEMMA Least ==
  ASSUME NEW S \in SUBSET Nat, S # {}
  PROVE  \E m \in S : \A k \in S : m <= k
<1>1. PICK m \in S : \A k \in S : ~ (<<k, m>> \in OpToRel(<, Nat))
  BY NatLessThanWellFounded, WFMin
<1>2. \A k \in S : ~ (k < m)
  BY <1>1 DEF OpToRel
<1> QED
  BY <1>2

-----------------------------------------------------------------------------
(* What FlattenSeq gives: the parts, one after the other *)

\* The recursion of FlattenSeq.
Flattens(g, q, n) == g = [i \in 1 .. n |-> IF i = 1 THEN q[i] ELSE g[i - 1] \o q[i]]

\* It has a solution, of any length.
LEMMA FlatteningExists == \A q : \A n \in Nat : \E g : Flattens(g, q, n)
<1> TAKE q
<1> DEFINE Lacking == {n \in Nat : ~ \E g : Flattens(g, q, n)}
<1>1. SUFFICES ASSUME Lacking # {} PROVE FALSE
  OBVIOUS
<1>2. PICK n \in Lacking : \A k \in Lacking : n <= k
  BY <1>1, Least
<1>3. n # 0
  <2> DEFINE none == [i \in 1 .. 0 |-> q[i]]
  <2>1. none = [i \in 1 .. 0 |-> IF i = 1 THEN q[i] ELSE none[i - 1] \o q[i]]
    OBVIOUS
  <2>2. Flattens(none, q, 0)
    BY <2>1 DEF Flattens
  <2> QED
    BY <2>2
<1>4. n - 1 \in Nat /\ ~ (n <= n - 1)
  BY <1>3
<1>5. PICK g : Flattens(g, q, n - 1)
  BY <1>2, <1>4
<1> DEFINE h == [i \in 1 .. n |-> IF i = n THEN (IF i = 1 THEN q[i] ELSE g[i - 1] \o q[i]) ELSE g[i]]
<1>6. \A i \in 1 .. n - 1 : g[i] = IF i = 1 THEN q[i] ELSE g[i - 1] \o q[i]
  BY <1>5 DEF Flattens
<1>7. \A i \in 1 .. n - 1 : h[i] = g[i]
  BY <1>4
<1>8. ASSUME NEW i \in 1 .. n
      PROVE  h[i] = IF i = 1 THEN q[i] ELSE h[i - 1] \o q[i]
  <2>1. i # 1 => i - 1 \in 1 .. n - 1
    BY <1>4
  <2>2. i # 1 => h[i - 1] = g[i - 1]
    BY <1>7, <2>1
  <2>3. CASE i = n
    BY <2>2, <2>3
  <2>4. CASE i # n
    <3>1. i \in 1 .. n - 1
      BY <1>4, <2>4
    <3>2. h[i] = IF i = 1 THEN q[i] ELSE g[i - 1] \o q[i]
      BY <1>6, <1>7, <3>1
    <3> QED
      BY <2>2, <3>2
  <2> QED
    BY <2>3, <2>4
<1>9. h = [i \in 1 .. n |-> h[i]]
  OBVIOUS
<1> HIDE DEF h
<1>10. Flattens(h, q, n)
  BY <1>8, <1>9 DEF Flattens
<1> QED
  BY <1>10

\* part stands in whole after the first skip members.
Placed(whole, part, skip) ==
  /\ skip \in Nat
  /\ \A a \in 1 .. Len(part) : skip + a \in 1 .. Len(whole) /\ whole[skip + a] = part[a]

\* whole holds the first n parts of q, and nothing else.
Holds(whole, q, n) ==
  /\ \A m \in 1 .. n : \E skip \in Nat : Placed(whole, q[m], skip)
  /\ \A y \in 1 .. Len(whole) : \E m \in 1 .. n : \E skip \in Nat :
       Placed(whole, q[m], skip) /\ y - skip \in 1 .. Len(q[m])

LEMMA FirstPart ==
  ASSUME NEW S, NEW q, q[1] \in Seq(S)
  PROVE  Holds(q[1], q, 1)
<1>1. Placed(q[1], q[1], 0)
  BY DEF Placed
<1>2. \A y \in 1 .. Len(q[1]) : y - 0 \in 1 .. Len(q[1])
  OBVIOUS
<1>3. 0 \in Nat /\ \A m \in 1 .. 1 : m = 1
  OBVIOUS
<1>4. 1 \in 1 .. 1
  OBVIOUS
<1> QED
  BY <1>1, <1>2, <1>3, <1>4 DEF Holds

LEMMA NextPart ==
  ASSUME NEW S, NEW q, NEW n \in Nat, NEW whole \in Seq(S), q[n + 1] \in Seq(S), Holds(whole, q, n)
  PROVE  whole \o q[n + 1] \in Seq(S) /\ Holds(whole \o q[n + 1], q, n + 1)
<1> DEFINE part == q[n + 1]
           longer == whole \o part
<1>1. part \in Seq(S)
  OBVIOUS
<1> HIDE DEF part
<1>2. /\ longer \in Seq(S) /\ Len(longer) = Len(whole) + Len(part)
      /\ \A i \in 1 .. Len(whole) + Len(part) :
           longer[i] = IF i <= Len(whole) THEN whole[i] ELSE part[i - Len(whole)]
  BY <1>1, ConcatProperties
<1>3. Len(whole) \in Nat /\ Len(part) \in Nat
  BY <1>1
<1> HIDE DEF longer
<1>4. ASSUME NEW p, NEW skip, Placed(whole, p, skip)
      PROVE  Placed(longer, p, skip)
  BY <1>2, <1>3, <1>4, SMTT(30) DEF Placed
<1>5. Placed(longer, part, Len(whole))
  <2> SUFFICES ASSUME NEW a \in 1 .. Len(part)
               PROVE  Len(whole) + a \in 1 .. Len(longer) /\ longer[Len(whole) + a] = part[a]
    BY <1>3 DEF Placed
  <2>1. /\ Len(whole) + a \in 1 .. Len(whole) + Len(part) /\ ~ (Len(whole) + a <= Len(whole))
        /\ (Len(whole) + a) - Len(whole) = a
    BY <1>3
  <2> QED
    BY <1>2, <2>1
<1>6. \A m \in 1 .. n + 1 : m \in 1 .. n \/ m = n + 1
  OBVIOUS
<1>7. \A m \in 1 .. n + 1 : \E skip \in Nat : Placed(longer, q[m], skip)
  <2> TAKE m \in 1 .. n + 1
  <2>1. CASE m \in 1 .. n
    BY <1>4, <2>1 DEF Holds
  <2>2. CASE m = n + 1
    BY <1>3, <1>5, <2>2 DEF part
  <2> QED
    BY <1>6, <2>1, <2>2
<1>8. ASSUME NEW y \in 1 .. Len(longer)
      PROVE  \E m \in 1 .. n + 1 : \E skip \in Nat : Placed(longer, q[m], skip) /\ y - skip \in 1 .. Len(q[m])
  <2>1. CASE y <= Len(whole)
    <3>1. y \in 1 .. Len(whole)
      BY <1>3, <2>1
    <3>2. PICK m \in 1 .. n, skip \in Nat : Placed(whole, q[m], skip) /\ y - skip \in 1 .. Len(q[m])
      BY <3>1 DEF Holds
    <3>3. m \in 1 .. n + 1 /\ Placed(longer, q[m], skip)
      BY <1>4, <3>2
    <3> QED
      BY <3>2, <3>3
  <2>2. CASE ~ (y <= Len(whole))
    <3>1. y - Len(whole) \in 1 .. Len(part)
      BY <1>2, <1>3, <2>2
    <3>2. n + 1 \in 1 .. n + 1
      OBVIOUS
    <3> QED
      BY <1>3, <1>5, <3>1, <3>2 DEF part
  <2> QED
    BY <2>1, <2>2
<1>9. Holds(longer, q, n + 1)
  BY <1>7, <1>8 DEF Holds
<1> QED
  BY <1>2, <1>9 DEF longer, part

\* The flattened sequence holds every part of q, and nothing else.
LEMMA Flattened ==
  ASSUME NEW S, NEW q \in Seq(Seq(S))
  PROVE  FlattenSeq(q) \in Seq(S) /\ Holds(FlattenSeq(q), q, Len(q))
<1>1. Len(q) \in Nat /\ \A n \in 1 .. Len(q) : q[n] \in Seq(S)
  OBVIOUS
<1>2. CASE Len(q) = 0
  <2>1. FlattenSeq(q) = q /\ q = <<>>
    BY <1>2 DEF FlattenSeq
  <2>2. <<>> \in Seq(S) /\ Len(<<>>) = 0
    OBVIOUS
  <2> QED
    BY <1>2, <2>1, <2>2 DEF Holds
<1>3. CASE Len(q) # 0
  <2> DEFINE g == CHOOSE g : g = [i \in 1 .. Len(q) |-> IF i = 1 THEN q[i] ELSE g[i - 1] \o q[i]]
  <2>1. FlattenSeq(q) = g[Len(q)]
    BY <1>3 DEF FlattenSeq
  <2>2. Flattens(g, q, Len(q))
    BY <1>1, FlatteningExists DEF Flattens
  <2> HIDE DEF g
  <2>3. \A i \in 1 .. Len(q) : g[i] = IF i = 1 THEN q[i] ELSE g[i - 1] \o q[i]
    BY <2>2 DEF Flattens
  <2> DEFINE Good(i) == g[i] \in Seq(S) /\ Holds(g[i], q, i)
             Bad == {i \in 1 .. Len(q) : ~ Good(i)}
  <2>4. Bad = {}
    <3>1. SUFFICES ASSUME Bad # {} PROVE FALSE
      OBVIOUS
    <3>2. Bad \in SUBSET Nat
      OBVIOUS
    <3>3. PICK n \in Bad : \A k \in Bad : n <= k
      BY <3>1, <3>2, Least
    <3>4. CASE n = 1
      BY <1>1, <2>3, <3>3, <3>4, FirstPart
    <3>5. CASE n # 1
      <4>1. n - 1 \in 1 .. Len(q) /\ ~ (n <= n - 1) /\ n - 1 \in Nat /\ (n - 1) + 1 = n
        BY <1>1, <3>3, <3>5
      <4>2. Good(n - 1)
        BY <3>3, <4>1
      <4>3. g[n] = g[n - 1] \o q[n]
        BY <2>3, <3>3, <3>5
      <4>4. g[n - 1] \o q[n] \in Seq(S) /\ Holds(g[n - 1] \o q[n], q, n)
        <5> HIDE DEF Bad
        <5>1. q[(n - 1) + 1] \in Seq(S)
          BY <1>1, <3>3, <4>1 DEF Bad
        <5>2. g[n - 1] \o q[(n - 1) + 1] \in Seq(S) /\ Holds(g[n - 1] \o q[(n - 1) + 1], q, (n - 1) + 1)
          BY <4>1, <4>2, <5>1, NextPart
        <5> QED
          BY <4>1, <5>2
      <4> QED
        BY <3>3, <4>3, <4>4
    <3> QED
      BY <3>4, <3>5
  <2>5. Len(q) \in 1 .. Len(q)
    BY <1>1, <1>3
  <2> QED
    BY <2>1, <2>4, <2>5
<1> QED
  BY <1>2, <1>3
-----------------------------------------------------------------------------
(* The inductive invariant *)

Outcome == [self : Status, target : Status \cup {NotRun}]

Types ==
  /\ case \in Declared
  /\ reference \in {"unknown", "configured", "unavailable"}
  /\ step \in {"resolve", "first", "second", "again", "target", "count", "write", "over"}
  /\ psql \in Seq(Runs)
  /\ shown \in Runs
  /\ outcome \in [self : Status \cup {NotRun}, target : Status \cup {NotRun}]
  /\ outcomes \in Seq(Outcome)

\* The cases are counted in their order, and the file is written after the last.
Progress ==
  /\ at \in 1 .. NCases + 1
  /\ step \notin {"write", "over"} => Len(outcomes) = at - 1
  /\ step \notin {"resolve", "first", "write", "over"} => at <= NCases
  /\ step = "resolve" => at = 1
  /\ step \in {"write", "over"} => Len(outcomes) = NCases

\* A case is held against the target only after its own lane passed.
Earned(o) == o.self \in Status /\ (o.target # NotRun => o.self = "passed")

LanesEarned ==
  /\ step = "count" => Earned(outcome)
  /\ \A i \in 1 .. Len(outcomes) : Earned(outcomes[i])

\* The cases of os whose own lane, or target lane, has status v.
Selves(os, v) == {i \in 1 .. Len(os) : os[i].self = v}
Targets(os, v) == {i \in 1 .. Len(os) : os[i].target = v}

CountsOf(os) ==
  [passed         |-> Cardinality(Selves(os, "passed")),
   skipped        |-> Cardinality(Selves(os, "skipped")),
   failed         |-> Cardinality(Selves(os, "failed")),
   target_passed  |-> Cardinality(Targets(os, "passed")),
   target_failed  |-> Cardinality(Targets(os, "failed")),
   target_skipped |-> Cardinality(Targets(os, "skipped"))]

\* The summary counts the cases so far.
Counted == summary = CountsOf(outcomes)

AllLanes == [i \in DOMAIN outcomes |-> Lanes(i)]

\* The file is written at the end, with all of them.
Written == raw = IF step = "over" THEN Features \o FlattenSeq(AllLanes) ELSE <<>>

IInv == Types /\ Progress /\ LanesEarned /\ Counted /\ Written

-----------------------------------------------------------------------------
(* Counting the cases of a status *)

LEMMA CountedSetsAreFinite ==
  ASSUME NEW os, Len(os) \in Nat, NEW A \in SUBSET (1 .. Len(os))
  PROVE  IsFiniteSet(A) /\ Cardinality(A) \in 0 .. Len(os)
<1>1. IsFiniteSet(1 .. Len(os)) /\ Cardinality(1 .. Len(os)) = Len(os)
  BY FS_Interval
<1>2. IsFiniteSet(A) /\ Cardinality(A) <= Cardinality(1 .. Len(os))
  BY <1>1, FS_Subset
<1>3. Cardinality(A) \in Nat
  BY <1>2, FS_CardinalityType
<1> QED
  BY <1>1, <1>2, <1>3

\* A further case counts for the status it has in each lane.
LEMMA OneMore ==
  ASSUME NEW os \in Seq(Outcome), NEW o \in Outcome, NEW v
  PROVE  /\ Cardinality(Selves(Append(os, o), v)) = Cardinality(Selves(os, v)) + Bump(o.self, v)
         /\ Cardinality(Targets(Append(os, o), v)) = Cardinality(Targets(os, v)) + Bump(o.target, v)
<1> DEFINE longer == Append(os, o)
           n == Len(os) + 1
<1>1. /\ Len(os) \in Nat /\ Len(longer) = n /\ longer[n] = o
      /\ \A i \in 1 .. Len(os) : longer[i] = os[i]
  OBVIOUS
<1>2. 1 .. n = (1 .. Len(os)) \cup {n} /\ n \notin 1 .. Len(os)
  BY <1>1
<1> HIDE DEF longer, n
<1>3. Selves(longer, v) = IF o.self = v THEN Selves(os, v) \cup {n} ELSE Selves(os, v)
  BY <1>1, <1>2 DEF Selves
<1>4. Targets(longer, v) = IF o.target = v THEN Targets(os, v) \cup {n} ELSE Targets(os, v)
  BY <1>1, <1>2 DEF Targets
<1>5. n \notin Selves(os, v) /\ n \notin Targets(os, v)
  BY <1>2 DEF Selves, Targets
<1>6. /\ IsFiniteSet(Selves(os, v)) /\ Cardinality(Selves(os, v)) \in Nat
      /\ IsFiniteSet(Targets(os, v)) /\ Cardinality(Targets(os, v)) \in Nat
  <2>1. Selves(os, v) \in SUBSET (1 .. Len(os)) /\ Targets(os, v) \in SUBSET (1 .. Len(os))
    BY DEF Selves, Targets
  <2> QED
    BY <1>1, <2>1, CountedSetsAreFinite
<1>7. /\ Cardinality(Selves(os, v) \cup {n}) = Cardinality(Selves(os, v)) + 1
      /\ Cardinality(Targets(os, v) \cup {n}) = Cardinality(Targets(os, v)) + 1
  BY <1>5, <1>6, FS_AddElement
<1>8. Cardinality(Selves(longer, v)) = Cardinality(Selves(os, v)) + Bump(o.self, v)
  BY <1>3, <1>6, <1>7 DEF Bump
<1>9. Cardinality(Targets(longer, v)) = Cardinality(Targets(os, v)) + Bump(o.target, v)
  BY <1>4, <1>6, <1>7 DEF Bump
<1> QED
  BY <1>8, <1>9 DEF longer

LEMMA NothingCounted ==
  CountsOf(<<>>) = [passed |-> 0, skipped |-> 0, failed |-> 0,
                    target_passed |-> 0, target_failed |-> 0, target_skipped |-> 0]
<1>1. \A v : Selves(<<>>, v) = {} /\ Targets(<<>>, v) = {}
  BY DEF Selves, Targets
<1> QED
  BY <1>1, FS_EmptySet DEF CountsOf

\* Without a reference every case counts as skipped.
LEMMA AllSkipped ==
  ASSUME NEW n \in Nat
  PROVE  CountsOf([i \in 1 .. n |-> [self |-> "skipped", target |-> NotRun]]) =
           [passed |-> 0, skipped |-> n, failed |-> 0,
            target_passed |-> 0, target_failed |-> 0, target_skipped |-> 0]
<1> DEFINE os == [i \in 1 .. n |-> [self |-> "skipped", target |-> NotRun]]
<1>1. Len(os) = n /\ \A i \in 1 .. n : os[i].self = "skipped" /\ os[i].target = NotRun
  OBVIOUS
<1> HIDE DEF os
<1>2. Selves(os, "passed") = {} /\ Selves(os, "failed") = {} /\ Selves(os, "skipped") = 1 .. n
  BY <1>1 DEF Selves
<1>3. Targets(os, "passed") = {} /\ Targets(os, "failed") = {} /\ Targets(os, "skipped") = {}
  BY <1>1 DEF Targets, NotRun
<1>4. Cardinality({}) = 0 /\ Cardinality(1 .. n) = n
  BY FS_EmptySet, FS_Interval
<1> HIDE DEF os
<1>5. CountsOf(os) = [passed |-> 0, skipped |-> n, failed |-> 0,
                      target_passed |-> 0, target_failed |-> 0, target_skipped |-> 0]
  BY <1>2, <1>3, <1>4 DEF CountsOf
<1> QED
  BY <1>5 DEF os

-----------------------------------------------------------------------------
(* It holds at the start, and every step keeps it *)

LEMMA InitEstablishes == Init => IInv
<1> SUFFICES ASSUME Init PROVE IInv
  OBVIOUS
<1> USE Sizes
<1>1. outcomes \in Seq(Outcome) /\ Len(outcomes) = 0
  BY DEF Init
<1>2. Types
  <2>1. psql \in Seq(Runs)
    BY DEF Init
  <2>2. shown \in Runs
    BY DEF Init, Runs
  <2> QED
    BY <1>1, <2>1, <2>2 DEF Init, Types, NotRun
<1>3. Progress
  BY <1>1 DEF Init, Progress
<1>4. LanesEarned
  BY <1>1 DEF Init, LanesEarned
<1>5. Counted
  BY NothingCounted DEF Init, Counted
<1>6. Written
  BY DEF Init, Written
<1> QED
  BY <1>2, <1>3, <1>4, <1>5, <1>6 DEF IInv

\* The steps that neither count a case nor write leave the counts and the file alone.
LEMMA Kept ==
  ASSUME IInv, UNCHANGED <<summary, outcomes, raw>>, step # "over", step' # "over"
  PROVE  Counted' /\ Written'
<1>1. Counted'
  BY DEF IInv, Counted
<1>2. raw = <<>> /\ raw' = <<>>
  BY DEF IInv, Written
<1>3. Written'
  BY <1>2 DEF Written
<1> QED
  BY <1>1, <1>3

\* Of the same case the engines may print the same.
LEMMA SameRuns ==
  ASSUME case' = case
  PROVE  Runs' = Runs
BY DEF Runs

LEMMA ResolveKeeps == IInv /\ Resolve => IInv'
<1> SUFFICES ASSUME IInv, Resolve PROVE IInv'
  OBVIOUS
<1> USE Sizes
<1>0. Types /\ Progress /\ LanesEarned /\ Counted /\ raw = <<>> /\ step = "resolve"
  BY DEF IInv, Written, Resolve
<1>1. CASE reference' = "configured" /\ step' = "first" /\ UNCHANGED <<summary, outcomes>>
  <2>1. UNCHANGED <<case, at, psql, shown, outcome, raw>>
    BY DEF Resolve
  <2>2. Types'
    BY <1>0, <1>1, <2>1, SameRuns DEF Types
  <2>3. Progress'
    BY <1>0, <1>1, <2>1 DEF Progress
  <2>4. LanesEarned'
    BY <1>0, <1>1, <2>1 DEF LanesEarned
  <2>5. Counted' /\ Written'
    BY <1>0, <1>1, <2>1, Kept
  <2> QED
    BY <2>2, <2>3, <2>4, <2>5 DEF IInv
<1>2. CASE /\ reference' = "unavailable"
           /\ step' = "write"
           /\ summary' = [summary EXCEPT !.skipped = NCases]
           /\ outcomes' = [i \in CaseIds |-> [self |-> "skipped", target |-> NotRun]]
  <2>1. UNCHANGED <<case, at, psql, shown, outcome, raw>>
    BY DEF Resolve
  <2>2. /\ outcomes' \in Seq(Outcome) /\ Len(outcomes') = NCases
        /\ \A i \in 1 .. NCases : outcomes'[i] = [self |-> "skipped", target |-> NotRun]
    <3>1. [self |-> "skipped", target |-> NotRun] \in Outcome
      BY DEF Outcome, Status
    <3>2. outcomes' \in [1 .. NCases -> Outcome]
      BY <1>2, <3>1 DEF CaseIds
    <3>3. outcomes' \in Seq(Outcome)
      BY <3>2, SeqDef
    <3> QED
      BY <1>2, <3>3 DEF CaseIds
  <2>3. Types'
    BY <1>0, <1>2, <2>1, <2>2, SameRuns DEF Types
  <2>4. Progress'
    BY <1>0, <1>2, <2>1, <2>2 DEF Progress
  <2>5. LanesEarned'
    BY <1>2, <2>2 DEF LanesEarned, Earned, Status
  <2>6. Counted'
    <3>1. summary = CountsOf(<<>>)
      <4>1. Len(outcomes) = 0 /\ outcomes \in Seq(Outcome)
        BY <1>0 DEF Progress, Types
      <4>2. outcomes = <<>>
        BY <4>1
      <4> QED
        BY <1>0, <4>2 DEF Counted
    <3>2. summary' = [passed |-> 0, skipped |-> NCases, failed |-> 0,
                      target_passed |-> 0, target_failed |-> 0, target_skipped |-> 0]
      BY <1>2, <3>1, NothingCounted
    <3>3. CountsOf(outcomes') = [passed |-> 0, skipped |-> NCases, failed |-> 0,
                                 target_passed |-> 0, target_failed |-> 0, target_skipped |-> 0]
      BY <1>2, AllSkipped DEF CaseIds
    <3>4. summary' = CountsOf(outcomes')
      BY <3>2, <3>3
    <3> QED
      BY <3>4 DEF Counted, CountsOf, Selves, Targets
  <2>7. Written'
    BY <1>0, <1>2, <2>1 DEF Written
  <2> QED
    BY <2>3, <2>4, <2>5, <2>6, <2>7 DEF IInv
<1> QED
  BY <1>1, <1>2 DEF Resolve

\* What Settle leaves: a case whose target lane is set only if its own lane passed.
LEMMA SettledIsEarned ==
  ASSUME NEW self \in Status, NEW target \in Status \cup {NotRun}, target # NotRun => self = "passed",
         Settle(self, target)
  PROVE  /\ step' = "count" /\ Earned(outcome')
         /\ outcome' \in [self : Status \cup {NotRun}, target : Status \cup {NotRun}]
BY DEF Settle, Earned

\* A step of a run: the case at hand moves on, or is settled.
LEMMA RunKeeps ==
  ASSUME IInv, step \in {"first", "second", "again", "target"}, at \in CaseIds,
         step' \in {"second", "again", "target", "count"},
         UNCHANGED <<case, reference, at, summary, outcomes, raw>>,
         psql' \in Seq(Runs), shown' \in Runs,
         outcome' \in [self : Status \cup {NotRun}, target : Status \cup {NotRun}],
         step' = "count" => Earned(outcome')
  PROVE  IInv'
<1> USE Sizes
<1>0. Types /\ Progress /\ LanesEarned
  BY DEF IInv
<1>1. Types'
  BY <1>0, SameRuns DEF Types
<1>2. Progress'
  BY <1>0 DEF Progress, CaseIds
<1>3. LanesEarned'
  <2>1. \A i \in 1 .. Len(outcomes) : Earned(outcomes[i])
    BY <1>0 DEF LanesEarned
  <2>2. \A i \in 1 .. Len(outcomes') : Earned(outcomes'[i])
    BY <2>1
  <2>3. LanesEarned' <=> /\ step' = "count" => Earned(outcome')
                         /\ \A i \in 1 .. Len(outcomes') : Earned(outcomes'[i])
    BY DEF LanesEarned, Earned
  <2> QED
    BY <2>2, <2>3
<1>4. Counted' /\ Written'
  BY Kept
<1> QED
  BY <1>1, <1>2, <1>3, <1>4 DEF IInv

LEMMA FirstKeeps == IInv /\ First => IInv'
<1> SUFFICES ASSUME IInv, First PROVE IInv'
  OBVIOUS
<1>0. Types
  BY DEF IInv
<1>1. PICK run \in Runs :
        /\ psql' = <<run>>
        /\ IF run = Err \/ run.exit # 0 THEN Settle("skipped", NotRun)
                                      ELSE step' = "second" /\ UNCHANGED outcome
  BY DEF First
<1>2. /\ step = "first" /\ at \in CaseIds
      /\ UNCHANGED <<case, reference, at, shown, summary, outcomes, raw>>
  BY DEF First
<1>3. psql' \in Seq(Runs) /\ shown' \in Runs
  BY <1>0, <1>1, <1>2 DEF Types
<1>4. CASE run = Err \/ run.exit # 0
  <2>1. Settle("skipped", NotRun)
    BY <1>1, <1>4
  <2>2. "skipped" \in Status
    BY DEF Status
  <2>3. /\ step' = "count" /\ Earned(outcome')
        /\ outcome' \in [self : Status \cup {NotRun}, target : Status \cup {NotRun}]
    BY <2>1, <2>2, SettledIsEarned
  <2> QED
    BY <1>2, <1>3, <2>3, RunKeeps
<1>5. CASE ~ (run = Err \/ run.exit # 0)
  <2>1. step' = "second"
    BY <1>1, <1>5
  <2>2. outcome' \in [self : Status \cup {NotRun}, target : Status \cup {NotRun}]
    BY <1>0, <1>1, <1>5 DEF Types
  <2> QED
    BY <1>2, <1>3, <2>1, <2>2, RunKeeps
<1> QED
  BY <1>4, <1>5

\* The case at hand of the later runs is one of the manifest's.
LEMMA CaseAtHand ==
  ASSUME IInv, step \in {"second", "again", "target", "count"}
  PROVE  at \in CaseIds /\ at \in Nat /\ Len(outcomes) = at - 1
BY Sizes DEF IInv, Progress, CaseIds

\* A further run of psql is the last.
LEMMA Asked ==
  ASSUME psql \in Seq(Runs), NEW run \in Runs, psql' = Append(psql, run)
  PROVE  /\ psql' \in Seq(Runs) /\ Len(psql) \in Nat /\ Len(psql') = Len(psql) + 1
         /\ psql'[Len(psql) + 1] = run
         /\ \A i \in 1 .. Len(psql) : psql'[i] = psql[i]
OBVIOUS

LEMMA SecondKeeps == IInv /\ Second => IInv'
<1> SUFFICES ASSUME IInv, Second PROVE IInv'
  OBVIOUS
<1>0. Types
  BY DEF IInv
<1>1. PICK run \in Runs :
        /\ psql' = Append(psql, run)
        /\ \/ run = Err /\ Settle("skipped", NotRun)
           \/ run # Err /\ ~SameOutput(psql[1], run) /\ Settle("failed", NotRun)
           \/ (/\ run # Err /\ SameOutput(psql[1], run) /\ step' = "again"
               /\ outcome' = [self |-> "passed", target |-> NotRun])
  BY DEF Second
<1>2. /\ step = "second"
      /\ UNCHANGED <<case, reference, at, shown, summary, outcomes, raw>>
  BY DEF Second
<1>3. at \in CaseIds
  BY <1>2, CaseAtHand
<1>4. psql' \in Seq(Runs) /\ shown' \in Runs
  BY <1>0, <1>1, <1>2, Asked DEF Types
<1>5. "skipped" \in Status /\ "failed" \in Status /\ "passed" \in Status
  BY DEF Status
<1>6. ASSUME NEW self \in Status, Settle(self, NotRun)
      PROVE  IInv'
  <2>1. /\ step' = "count" /\ Earned(outcome')
        /\ outcome' \in [self : Status \cup {NotRun}, target : Status \cup {NotRun}]
    BY <1>6, SettledIsEarned
  <2> QED
    BY <1>2, <1>3, <1>4, <2>1, RunKeeps
<1>7. CASE step' = "again" /\ outcome' = [self |-> "passed", target |-> NotRun]
  <2>1. outcome' \in [self : Status \cup {NotRun}, target : Status \cup {NotRun}]
    BY <1>5, <1>7
  <2> QED
    BY <1>2, <1>3, <1>4, <1>7, <2>1, RunKeeps
<1> QED
  BY <1>1, <1>5, <1>6, <1>7

LEMMA AgainKeeps == IInv /\ Again => IInv'
<1> SUFFICES ASSUME IInv, Again PROVE IInv'
  OBVIOUS
<1>0. Types
  BY DEF IInv
<1>1. PICK run \in Runs :
        /\ psql' = Append(psql, run)
        /\ \/ run = Err /\ Settle("passed", "skipped")
           \/ run # Err /\ step' = "target" /\ UNCHANGED outcome
  BY DEF Again
<1>2. /\ step = "again"
      /\ UNCHANGED <<case, reference, at, shown, summary, outcomes, raw>>
  BY DEF Again
<1>3. at \in CaseIds
  BY <1>2, CaseAtHand
<1>4. psql' \in Seq(Runs) /\ shown' \in Runs
  BY <1>0, <1>1, <1>2, Asked DEF Types
<1>5. CASE Settle("passed", "skipped")
  <2>1. "passed" \in Status /\ "skipped" \in Status
    BY DEF Status
  <2>2. /\ step' = "count" /\ Earned(outcome')
        /\ outcome' \in [self : Status \cup {NotRun}, target : Status \cup {NotRun}]
    BY <1>5, <2>1, SettledIsEarned
  <2> QED
    BY <1>2, <1>3, <1>4, <2>2, RunKeeps
<1>6. CASE step' = "target" /\ UNCHANGED outcome
  <2>1. outcome' \in [self : Status \cup {NotRun}, target : Status \cup {NotRun}]
    BY <1>0, <1>6 DEF Types
  <2> QED
    BY <1>2, <1>3, <1>4, <1>6, <2>1, RunKeeps
<1> QED
  BY <1>1, <1>5, <1>6

LEMMA TargetKeeps == IInv /\ Target => IInv'
<1> SUFFICES ASSUME IInv, Target PROVE IInv'
  OBVIOUS
<1>0. Types
  BY DEF IInv
<1>1. PICK run \in Runs :
        /\ shown' = run
        /\ Settle("passed", IF run = Err THEN "skipped" ELSE IF Agrees(psql[3], run) THEN "passed" ELSE "failed")
  BY DEF Target
<1>2. /\ step = "target"
      /\ UNCHANGED <<case, reference, at, psql, summary, outcomes, raw>>
  BY DEF Target
<1>3. at \in CaseIds
  BY <1>2, CaseAtHand
<1>4. psql' \in Seq(Runs) /\ shown' \in Runs
  BY <1>0, <1>1, <1>2 DEF Types
<1>5. PICK target \in Status : Settle("passed", target)
  <2> DEFINE target == IF run = Err THEN "skipped" ELSE IF Agrees(psql[3], run) THEN "passed" ELSE "failed"
  <2>1. target \in Status
    BY DEF Status
  <2>2. Settle("passed", target)
    BY <1>1
  <2> HIDE DEF target
  <2> QED
    BY <2>1, <2>2
<1>6. "passed" \in Status
  BY DEF Status
<1>7. /\ step' = "count" /\ Earned(outcome')
      /\ outcome' \in [self : Status \cup {NotRun}, target : Status \cup {NotRun}]
  BY <1>5, <1>6, SettledIsEarned
<1> QED
  BY <1>2, <1>3, <1>4, <1>7, RunKeeps

\* Tally adds one to the counts of the case's two statuses.
LEMMA TallyAdds ==
  ASSUME NEW p, NEW s, NEW f, NEW tp, NEW tf, NEW ts, NEW o,
         summary = [passed |-> p, skipped |-> s, failed |-> f,
                    target_passed |-> tp, target_failed |-> tf, target_skipped |-> ts]
  PROVE  Tally(o) = [passed         |-> p + Bump(o.self, "passed"),
                     skipped        |-> s + Bump(o.self, "skipped"),
                     failed         |-> f + Bump(o.self, "failed"),
                     target_passed  |-> tp + Bump(o.target, "passed"),
                     target_failed  |-> tf + Bump(o.target, "failed"),
                     target_skipped |-> ts + Bump(o.target, "skipped")]
<1> DEFINE sp == Bump(o.self, "passed")
           ss == Bump(o.self, "skipped")
           sf == Bump(o.self, "failed")
           bp == Bump(o.target, "passed")
           bf == Bump(o.target, "failed")
           bs == Bump(o.target, "skipped")
           t == Tally(o)
<1>1. t = [summary EXCEPT !.passed = @ + sp, !.skipped = @ + ss, !.failed = @ + sf,
                          !.target_passed = @ + bp, !.target_failed = @ + bf,
                          !.target_skipped = @ + bs]
  BY DEF Tally
<1> HIDE DEF sp, ss, sf, bp, bf, bs, t
<1>2. t = [passed |-> p + sp, skipped |-> s + ss, failed |-> f + sf,
           target_passed |-> tp + bp, target_failed |-> tf + bf, target_skipped |-> ts + bs]
  BY <1>1
<1> QED
  BY <1>2 DEF sp, ss, sf, bp, bf, bs, t

LEMMA CountKeeps == IInv /\ Count => IInv'
<1> SUFFICES ASSUME IInv, Count PROVE IInv'
  OBVIOUS
<1> USE Sizes
<1>0. Types /\ Progress /\ LanesEarned /\ Counted /\ raw = <<>> /\ step = "count"
  BY DEF IInv, Written, Count
<1>1. outcome \in Outcome /\ Earned(outcome)
  <2>1. Earned(outcome) /\ outcome \in [self : Status \cup {NotRun}, target : Status \cup {NotRun}]
    BY <1>0 DEF LanesEarned, Types
  <2>2. outcome.self \in Status
    BY <2>1 DEF Earned
  <2> QED
    BY <2>1, <2>2 DEF Outcome
<1>2. outcomes' = Append(outcomes, outcome) /\ outcomes \in Seq(Outcome)
  BY <1>0 DEF Count, Types
<1>3. /\ outcomes' \in Seq(Outcome) /\ Len(outcomes') = Len(outcomes) + 1
      /\ \A i \in 1 .. Len(outcomes') : outcomes'[i] = IF i <= Len(outcomes) THEN outcomes[i] ELSE outcome
  BY <1>1, <1>2
<1>4. /\ case' \in Declared /\ step' = "first" /\ shown' = Err /\ psql' = <<>> /\ at' = at + 1
      /\ outcome' = [self |-> NotRun, target |-> NotRun] /\ UNCHANGED <<reference, raw>>
  BY DEF Count
<1>5. Types'
  <2>1. Err \in Runs'
    BY DEF Runs
  <2>2. psql' \in Seq(Runs')
    BY <1>4
  <2>3. outcome' \in [self : Status \cup {NotRun}, target : Status \cup {NotRun}]
    BY <1>4
  <2> QED
    BY <1>0, <1>3, <1>4, <2>1, <2>2, <2>3 DEF Types
<1>6. Progress'
  <2>1. Len(outcomes) = at - 1 /\ at \in CaseIds
    BY <1>0, CaseAtHand
  <2> QED
    BY <1>3, <1>4, <2>1 DEF Progress, CaseIds
<1>7. LanesEarned'
  <2>1. \A i \in 1 .. Len(outcomes) : Earned(outcomes[i])
    BY <1>0 DEF LanesEarned
  <2>2. Len(outcomes) \in Nat
    BY <1>2
  <2>3. \A i \in 1 .. Len(outcomes') : Earned(outcomes'[i])
    <3> TAKE i \in 1 .. Len(outcomes')
    <3>1. CASE i <= Len(outcomes)
      <4>1. i \in 1 .. Len(outcomes) /\ outcomes'[i] = outcomes[i]
        BY <1>3, <2>2, <3>1
      <4> QED
        BY <2>1, <4>1
    <3>2. CASE ~ (i <= Len(outcomes))
      <4>1. outcomes'[i] = outcome
        BY <1>3, <3>2
      <4> QED
        BY <1>1, <4>1
    <3> QED
      BY <3>1, <3>2
  <2>4. LanesEarned' <=> /\ step' = "count" => Earned(outcome')
                         /\ \A i \in 1 .. Len(outcomes') : Earned(outcomes'[i])
    BY DEF LanesEarned, Earned
  <2> QED
    BY <1>4, <2>3, <2>4
<1>8. Counted'
  <2>1. summary' = Tally(outcome) /\ summary = CountsOf(outcomes)
    BY <1>0 DEF Count, Counted
  <2>2. CountsOf(Append(outcomes, outcome)) = Tally(outcome)
    <3>1. \A v : /\ Cardinality(Selves(Append(outcomes, outcome), v))
                      = Cardinality(Selves(outcomes, v)) + Bump(outcome.self, v)
                 /\ Cardinality(Targets(Append(outcomes, outcome), v))
                      = Cardinality(Targets(outcomes, v)) + Bump(outcome.target, v)
      BY <1>1, <1>2, OneMore
    <3> DEFINE sums == [passed         |-> Cardinality(Selves(outcomes, "passed")) + Bump(outcome.self, "passed"),
                        skipped        |-> Cardinality(Selves(outcomes, "skipped")) + Bump(outcome.self, "skipped"),
                        failed         |-> Cardinality(Selves(outcomes, "failed")) + Bump(outcome.self, "failed"),
                        target_passed  |-> Cardinality(Targets(outcomes, "passed")) + Bump(outcome.target, "passed"),
                        target_failed  |-> Cardinality(Targets(outcomes, "failed")) + Bump(outcome.target, "failed"),
                        target_skipped |-> Cardinality(Targets(outcomes, "skipped")) + Bump(outcome.target, "skipped")]
    <3>2. CountsOf(Append(outcomes, outcome)) = sums
      BY ONLY <3>1 DEF CountsOf
    <3>3. Tally(outcome) = sums
      BY ONLY <2>1, TallyAdds DEF CountsOf
    <3> QED
      BY <3>2, <3>3
  <2>3. Counted' <=> summary' = CountsOf(outcomes')
    BY DEF Counted, CountsOf, Selves, Targets
  <2> QED
    BY <1>2, <2>1, <2>2, <2>3
<1>9. Written'
  BY <1>0, <1>4 DEF Written
<1> QED
  BY <1>5, <1>6, <1>7, <1>8, <1>9 DEF IInv

LEMMA CasesEndKeeps == IInv /\ CasesEnd => IInv'
<1> SUFFICES ASSUME IInv, CasesEnd PROVE IInv'
  OBVIOUS
<1> USE Sizes
<1>0. Types /\ Progress /\ LanesEarned /\ step = "first" /\ step' = "write" /\ at = NCases + 1
  BY DEF IInv, CasesEnd
<1>1. UNCHANGED <<case, reference, at, psql, shown, outcome, summary, outcomes, raw>>
  BY DEF CasesEnd
<1>2. Types'
  BY <1>0, <1>1, SameRuns DEF Types
<1>3. Progress'
  BY <1>0, <1>1 DEF Progress
<1>4. LanesEarned'
  BY <1>0, <1>1 DEF LanesEarned, Earned
<1>5. Counted' /\ Written'
  BY <1>0, <1>1, Kept
<1> QED
  BY <1>2, <1>3, <1>4, <1>5 DEF IInv

LEMMA WriteKeeps == IInv /\ Write => IInv'
<1> SUFFICES ASSUME IInv, Write PROVE IInv'
  OBVIOUS
<1>0. Types /\ Progress /\ LanesEarned /\ Counted /\ step = "write" /\ step' = "over"
  BY DEF IInv, Write
<1>1. UNCHANGED <<case, reference, at, psql, shown, outcome, summary, outcomes>>
  BY DEF Write
<1>2. Types'
  BY <1>0, <1>1, SameRuns DEF Types
<1>3. Progress'
  BY <1>0, <1>1 DEF Progress
<1>4. LanesEarned'
  BY <1>0, <1>1 DEF LanesEarned, Earned
<1>5. Counted'
  BY <1>0, <1>1 DEF Counted
<1>6. Written'
  BY <1>0, <1>1 DEF Write, Written, AllLanes, Lanes
<1> QED
  BY <1>2, <1>3, <1>4, <1>5, <1>6 DEF IInv

LEMMA StepKeeps == IInv /\ [Next]_vars => IInv'
<1> SUFFICES ASSUME IInv, [Next]_vars PROVE IInv'
  OBVIOUS
<1>1. CASE Next
  BY <1>1, ResolveKeeps, FirstKeeps, SecondKeeps, AgainKeeps, TargetKeeps, CountKeeps,
     CasesEndKeeps, WriteKeeps DEF Next
<1>2. CASE UNCHANGED vars
  <2>1. UNCHANGED <<case, reference, at, step, psql, shown, outcome, summary, outcomes, raw>>
    BY <1>2 DEF vars
  <2>2. Types' /\ Progress' /\ LanesEarned'
    BY <2>1, SameRuns DEF IInv, Types, Progress, LanesEarned, Earned
  <2>3. Counted' /\ Written'
    BY <2>1 DEF IInv, Counted, Written, AllLanes, Lanes
  <2> QED
    BY <2>2, <2>3 DEF IInv
<1> QED
  BY <1>1, <1>2

\* In every reachable state the summary counts the cases so far, a target lane was
\* earned by the case's own lane, and the file lists all lanes once it is written:
\* run_cases_with in src/beyond_sqlite/oracle.rs and run in taxonomy.rs.
THEOREM Invariance == Spec => []IInv
<1>1. Init => IInv
  BY InitEstablishes
<1>2. IInv /\ [Next]_vars => IInv'
  BY StepKeeps
<1> QED
  BY <1>1, <1>2, PTL DEF Spec

\* The suite keeps the types of its state.
THEOREM TypeCorrect == Spec => []TypeOK
<1>1. IInv => TypeOK
  <2> SUFFICES ASSUME IInv PROVE TypeOK
    OBVIOUS
  <2> USE Sizes
  <2>1. Types /\ Progress /\ Counted
    BY DEF IInv
  <2>2. Len(outcomes) \in Nat
    BY <2>1 DEF Types
  <2>3. Len(outcomes) <= NCases
    BY <2>1, <2>2 DEF Progress
  <2>4. \A v : /\ Cardinality(Selves(outcomes, v)) \in 0 .. NCases
               /\ Cardinality(Targets(outcomes, v)) \in 0 .. NCases
    <3> TAKE v
    <3>1. /\ Selves(outcomes, v) \in SUBSET (1 .. Len(outcomes))
          /\ Targets(outcomes, v) \in SUBSET (1 .. Len(outcomes))
      BY DEF Selves, Targets
    <3>2. /\ Cardinality(Selves(outcomes, v)) \in 0 .. Len(outcomes)
          /\ Cardinality(Targets(outcomes, v)) \in 0 .. Len(outcomes)
      BY <2>2, <3>1, CountedSetsAreFinite
    <3> QED
      BY <2>2, <2>3, <3>2
  <2>5. summary \in Counts
    BY <2>1, <2>4 DEF Counted, CountsOf, Counts
  <2> QED
    BY <2>1, <2>5 DEF TypeOK, Types, Progress, Outcome
<1> QED
  BY <1>1, Invariance, PTL

-----------------------------------------------------------------------------
(* The file *)

Kinds == {"feature", "case"}

Records == [id : Kinds \X Nat, lane : {"metadata", "self", "target"}, status : Status]

SelfRecord(i) == Record("case", i, "self", outcomes[i].self)
TargetRecord(i) == Record("case", i, "target", outcomes[i].target)

LEMMA FeatureRecords ==
  /\ Features \in Seq(Records) /\ Len(Features) = NPassing + NBacklog
  /\ \A n \in 1 .. NPassing + NBacklog :
       /\ Features[n].id = <<"feature", n>> /\ Features[n].lane = "metadata"
       /\ Features[n].status = IF n <= NPassing THEN "passed" ELSE "skipped"
<1> USE Sizes
<1> DEFINE length == NPassing + NBacklog
<1>1. length \in Nat
  OBVIOUS
<1>2. \A n \in 1 .. length :
        Record("feature", n, "metadata", IF n <= NPassing THEN "passed" ELSE "skipped") \in Records
  BY <1>1 DEF Record, Records, Kinds, Status
<1>3. Features \in [1 .. length -> Records]
  BY <1>2 DEF Features
<1>4. Features \in Seq(Records) /\ Len(Features) = length
  BY <1>1, <1>3, SeqDef
<1>5. \A n \in 1 .. length :
        Features[n] = Record("feature", n, "metadata", IF n <= NPassing THEN "passed" ELSE "skipped")
  BY DEF Features
<1> QED
  BY <1>4, <1>5 DEF Record

LEMMA OneAfterTheOther ==
  ASSUME NEW S, NEW a \in S, NEW b \in S
  PROVE  <<a>> \o <<b>> = <<a, b>>
<1> DEFINE q == <<a>>
           p == <<b>>
           both == q \o p
<1>1. q \in Seq(S) /\ Len(q) = 1 /\ q[1] = a
  OBVIOUS
<1>2. p \in Seq(S) /\ Len(p) = 1 /\ p[1] = b
  OBVIOUS
<1> HIDE DEF q, p
<1>3. /\ both \in Seq(S) /\ Len(both) = 1 + 1
      /\ \A i \in 1 .. 1 + 1 : both[i] = IF i <= 1 THEN q[i] ELSE p[i - 1]
  BY <1>1, <1>2, ConcatProperties
<1> HIDE DEF both
<1>4. both[1] = a /\ both[2] = b /\ Len(both) = 2
  BY <1>1, <1>2, <1>3
<1>5. both = <<a, b>>
  BY <1>3, <1>4
<1> QED
  BY <1>5 DEF both, q, p

\* The record of a case's own lane comes first, that of the target after it.
LEMMA LanesOfCase ==
  ASSUME NEW i \in Nat, outcomes[i] \in Outcome, Earned(outcomes[i])
  PROVE  /\ Lanes(i) \in Seq(Records) /\ Lanes(i)[1] = SelfRecord(i)
         /\ outcomes[i].target = NotRun => Len(Lanes(i)) = 1
         /\ outcomes[i].target # NotRun => Len(Lanes(i)) = 2 /\ Lanes(i)[2] = TargetRecord(i)
<1>1. SelfRecord(i) \in Records
  BY DEF SelfRecord, Record, Records, Kinds, Outcome
<1>2. CASE outcomes[i].target = NotRun
  <2>1. Lanes(i) = <<SelfRecord(i)>> \o <<>>
    BY <1>2 DEF Lanes, SelfRecord
  <2>2. Lanes(i) = <<SelfRecord(i)>>
    BY <1>1, <2>1
  <2> QED
    BY <1>1, <1>2, <2>2
<1>3. CASE outcomes[i].target # NotRun
  <2>1. TargetRecord(i) \in Records
    BY <1>3 DEF TargetRecord, Record, Records, Kinds, Outcome
  <2>2. Lanes(i) = <<SelfRecord(i)>> \o <<TargetRecord(i)>>
    BY <1>3 DEF Lanes, SelfRecord, TargetRecord
  <2>3. Lanes(i) = <<SelfRecord(i), TargetRecord(i)>>
    BY <1>1, <2>1, <2>2, OneAfterTheOther
  <2> QED
    BY <1>1, <1>3, <2>1, <2>3
<1> QED
  BY <1>2, <1>3

\* The file written lists every feature and, of every case, its own lane and right
\* after it that of the target if it has one, and nothing else.
LEMMA FileListsAll ==
  ASSUME IInv, step = "over"
  PROVE  /\ raw \in Seq(Records)
         /\ \A n \in 1 .. NPassing + NBacklog : \E k \in DOMAIN raw : raw[k] = Features[n]
         /\ \A i \in CaseIds : \E k \in DOMAIN raw : raw[k] = SelfRecord(i)
         /\ \A i \in CaseIds : outcomes[i].target # NotRun => \E k \in DOMAIN raw : raw[k] = TargetRecord(i)
         /\ \A k \in DOMAIN raw :
              \/ \E n \in 1 .. NPassing + NBacklog : raw[k] = Features[n]
              \/ \E i \in CaseIds : raw[k] = SelfRecord(i)
              \/ \E i \in CaseIds : /\ outcomes[i].target # NotRun /\ raw[k] = TargetRecord(i)
                                    /\ k - 1 \in DOMAIN raw /\ raw[k - 1] = SelfRecord(i)
<1> USE Sizes
<1> DEFINE flat == FlattenSeq(AllLanes)
           m == NPassing + NBacklog
<1>1. /\ outcomes \in Seq(Outcome) /\ Len(outcomes) = NCases /\ raw = Features \o flat
      /\ \A i \in 1 .. NCases : Earned(outcomes[i])
  BY DEF IInv, Types, Progress, LanesEarned, Written
<1>2. \A i \in CaseIds : i \in Nat /\ outcomes[i] \in Outcome /\ Earned(outcomes[i])
  BY <1>1 DEF CaseIds
<1>3. ASSUME NEW i \in CaseIds
      PROVE  /\ AllLanes[i] \in Seq(Records) /\ AllLanes[i][1] = SelfRecord(i)
             /\ outcomes[i].target = NotRun => Len(AllLanes[i]) = 1
             /\ outcomes[i].target # NotRun => Len(AllLanes[i]) = 2 /\ AllLanes[i][2] = TargetRecord(i)
  <2>1. AllLanes[i] = Lanes(i)
    BY <1>1 DEF AllLanes, CaseIds
  <2> QED
    BY <1>2, <2>1, LanesOfCase
<1>4. AllLanes \in Seq(Seq(Records)) /\ Len(AllLanes) = NCases
  <2>1. AllLanes \in [1 .. NCases -> Seq(Records)]
    BY <1>1, <1>3 DEF AllLanes, CaseIds
  <2> QED
    BY <2>1, SeqDef
<1>5. flat \in Seq(Records) /\ Holds(flat, AllLanes, NCases)
  BY <1>4, Flattened
<1>6. /\ raw \in Seq(Records) /\ Len(raw) = m + Len(flat)
      /\ \A k \in 1 .. m + Len(flat) : raw[k] = IF k <= m THEN Features[k] ELSE flat[k - m]
  <2> HIDE DEF flat
  <2>1. Features \in Seq(Records) /\ Len(Features) = m
    BY FeatureRecords
  <2> HIDE DEF m
  <2> QED
    BY <1>1, <1>5, <2>1, ConcatProperties
<1>7. m \in Nat /\ Len(flat) \in Nat /\ DOMAIN raw = 1 .. m + Len(flat)
  BY <1>5, <1>6
<1>8. \A y \in 1 .. Len(flat) : m + y \in DOMAIN raw /\ raw[m + y] = flat[y]
  <2> HIDE DEF flat, m
  <2> TAKE y \in 1 .. Len(flat)
  <2>1. m + y \in 1 .. m + Len(flat) /\ ~ (m + y <= m) /\ (m + y) - m = y
    BY <1>7
  <2> QED
    BY <1>6, <1>7, <2>1
<1> HIDE DEF flat
<1>9. \A n \in 1 .. m : \E k \in DOMAIN raw : raw[k] = Features[n]
  <2> TAKE n \in 1 .. m
  <2>1. n \in DOMAIN raw /\ raw[n] = Features[n]
    BY <1>6, <1>7
  <2> QED
    BY <2>1
<1>10. ASSUME NEW i \in CaseIds, NEW a \in 1 .. Len(AllLanes[i])
       PROVE  \E k \in DOMAIN raw : raw[k] = AllLanes[i][a]
  <2>1. PICK skip \in Nat : Placed(flat, AllLanes[i], skip)
    BY <1>5 DEF Holds, CaseIds
  <2>2. skip + a \in 1 .. Len(flat) /\ flat[skip + a] = AllLanes[i][a]
    BY <2>1 DEF Placed
  <2> QED
    BY <1>8, <2>2
<1>11. ASSUME NEW i \in CaseIds
       PROVE  /\ \E k \in DOMAIN raw : raw[k] = SelfRecord(i)
              /\ outcomes[i].target # NotRun => \E k \in DOMAIN raw : raw[k] = TargetRecord(i)
  <2>1. 1 \in 1 .. Len(AllLanes[i]) /\ (outcomes[i].target # NotRun => 2 \in 1 .. Len(AllLanes[i]))
    BY <1>3
  <2> QED
    BY <1>3, <1>10, <2>1
<1>12. ASSUME NEW k \in DOMAIN raw
       PROVE  \/ \E n \in 1 .. m : raw[k] = Features[n]
              \/ \E i \in CaseIds : raw[k] = SelfRecord(i)
              \/ \E i \in CaseIds : /\ outcomes[i].target # NotRun /\ raw[k] = TargetRecord(i)
                                    /\ k - 1 \in DOMAIN raw /\ raw[k - 1] = SelfRecord(i)
  <2>1. CASE k <= m
    <3>1. k \in 1 .. m /\ raw[k] = Features[k]
      BY <1>6, <1>7, <2>1
    <3> QED
      BY <3>1
  <2>2. CASE ~ (k <= m)
    <3> DEFINE y == k - m
    <3>1. y \in 1 .. Len(flat) /\ raw[k] = flat[y] /\ m + y = k
      <4>1. k \in 1 .. m + Len(flat) /\ raw[k] = flat[y]
        BY <1>6, <1>7, <2>2
      <4> HIDE DEF m
      <4> QED
        BY <1>7, <2>2, <4>1
    <3> HIDE DEF y
    <3>2. PICK i \in CaseIds, skip \in Nat : Placed(flat, AllLanes[i], skip) /\ y - skip \in 1 .. Len(AllLanes[i])
      BY <1>5, <3>1 DEF Holds, CaseIds
    <3> DEFINE a == y - skip
    <3>3. a \in 1 .. Len(AllLanes[i]) /\ skip + a = y
      BY <3>1, <3>2
    <3> HIDE DEF a
    <3>4. raw[k] = AllLanes[i][a]
      BY <3>1, <3>2, <3>3 DEF Placed
    <3>5. CASE a = 1
      BY <1>3, <3>4, <3>5
    <3>6. CASE a # 1
      <4>1. Len(AllLanes[i]) \in {1, 2}
        BY <1>3
      <4>2. a = 2 /\ Len(AllLanes[i]) = 2
        <5> DEFINE l == Len(AllLanes[i])
        <5>1. l \in {1, 2} /\ a \in 1 .. l
          BY <3>3, <4>1
        <5> HIDE DEF l
        <5>2. a = 2 /\ l = 2
          BY <3>6, <5>1
        <5> QED
          BY <5>2 DEF l
      <4>3. outcomes[i].target # NotRun /\ raw[k] = TargetRecord(i)
        BY <1>3, <3>4, <4>2
      <4>4. 1 \in 1 .. Len(AllLanes[i])
        BY <4>2
      <4>5. skip + 1 \in 1 .. Len(flat) /\ flat[skip + 1] = SelfRecord(i)
        BY <1>3, <3>2, <4>4 DEF Placed
      <4>6. m + (skip + 1) = k - 1
        BY <1>7, <3>1, <3>3, <4>2
      <4>7. k - 1 \in DOMAIN raw /\ raw[k - 1] = SelfRecord(i)
        BY <1>8, <4>5, <4>6
      <4> QED
        BY <4>3, <4>7
    <3> QED
      BY <3>5, <3>6
  <2> QED
    BY <2>1, <2>2
<1> QED
  BY <1>6, <1>9, <1>11, <1>12

-----------------------------------------------------------------------------
(* What the report counts in the file *)

Tagged(kind, A) == {<<kind, i>> : i \in A}

LEMMA TagsKeepCount ==
  ASSUME NEW kind, NEW A, IsFiniteSet(A)
  PROVE  IsFiniteSet(Tagged(kind, A)) /\ Cardinality(Tagged(kind, A)) = Cardinality(A)
<1> DEFINE tag == [i \in A |-> <<kind, i>>]
<1>1. tag \in [A -> Tagged(kind, A)]
  BY DEF Tagged
<1>2. tag \in Injection(A, Tagged(kind, A))
  BY <1>1 DEF Injection, IsInjective
<1>3. tag \in Surjection(A, Tagged(kind, A))
  BY <1>1 DEF Surjection, Tagged
<1>4. ExistsBijection(A, Tagged(kind, A))
  BY <1>2, <1>3 DEF Bijection, ExistsBijection
<1> QED
  BY <1>4, FS_Bijection

LEMMA TagsAddUp ==
  ASSUME NEW A, IsFiniteSet(A), NEW B, IsFiniteSet(B)
  PROVE  Cardinality(Tagged("feature", A) \cup Tagged("case", B)) = Cardinality(A) + Cardinality(B)
<1>1. Tagged("feature", A) \cap Tagged("case", B) = {}
  BY DEF Tagged
<1>2. /\ IsFiniteSet(Tagged("feature", A)) /\ Cardinality(Tagged("feature", A)) = Cardinality(A)
      /\ IsFiniteSet(Tagged("case", B)) /\ Cardinality(Tagged("case", B)) = Cardinality(B)
  BY TagsKeepCount
<1>3. Cardinality(A) \in Nat /\ Cardinality(B) \in Nat /\ Cardinality({}) = 0
  BY FS_CardinalityType, FS_EmptySet
<1>4. Cardinality(Tagged("feature", A) \cup Tagged("case", B)) = Cardinality(A) + Cardinality(B) - 0
  BY <1>1, <1>2, <1>3, FS_Union
<1> QED
  BY <1>3, <1>4

AllIds == {r.id : r \in {raw[n] : n \in {k \in DOMAIN raw : TRUE}}}

StatusIds(v) == {r.id : r \in {raw[n] : n \in {k \in DOMAIN raw : raw[k].status = v}}}

\* The features of a status.
FeaturesOf(v) == {n \in 1 .. NPassing + NBacklog : Features[n].status = v}

LEMMA FeatureCounts ==
  /\ \A v : IsFiniteSet(FeaturesOf(v))
  /\ Cardinality(FeaturesOf("passed")) = NPassing
  /\ Cardinality(FeaturesOf("skipped")) = NBacklog
  /\ Cardinality(FeaturesOf("failed")) = 0
<1> USE Sizes
<1>1. IsFiniteSet(1 .. NPassing + NBacklog)
  BY FS_Interval
<1>2. \A v : IsFiniteSet(FeaturesOf(v))
  <2> TAKE v
  <2>1. FeaturesOf(v) \in SUBSET (1 .. NPassing + NBacklog)
    BY DEF FeaturesOf
  <2> QED
    BY <1>1, <2>1, FS_Subset
<1>3. \A n \in 1 .. NPassing + NBacklog :
        Features[n].status = IF n <= NPassing THEN "passed" ELSE "skipped"
  BY FeatureRecords
<1>4. FeaturesOf("passed") = 1 .. NPassing
  BY <1>3 DEF FeaturesOf
<1>5. FeaturesOf("skipped") = NPassing + 1 .. NPassing + NBacklog
  BY <1>3 DEF FeaturesOf
<1>6. FeaturesOf("failed") = {}
  BY <1>3 DEF FeaturesOf
<1>7. Cardinality(1 .. NPassing) = NPassing
  BY FS_Interval
<1>8. Cardinality(NPassing + 1 .. NPassing + NBacklog) = NBacklog
  <2>1. NPassing + 1 \in Int /\ NPassing + NBacklog \in Int
    OBVIOUS
  <2>2. Cardinality(NPassing + 1 .. NPassing + NBacklog) =
          IF NPassing + 1 > NPassing + NBacklog THEN 0 ELSE (NPassing + NBacklog) - (NPassing + 1) + 1
    BY <2>1, FS_Interval
  <2> QED
    BY <2>2
<1>9. Cardinality({}) = 0
  BY FS_EmptySet
<1> QED
  BY <1>2, <1>4, <1>5, <1>6, <1>7, <1>8, <1>9

\* The ids found in the file, of all records and of those of a status.
LEMMA IdsInFile ==
  ASSUME IInv, step = "over"
  PROVE  /\ AllIds = Tagged("feature", 1 .. NPassing + NBacklog) \cup Tagged("case", CaseIds)
         /\ \A v \in Status :
              StatusIds(v) = Tagged("feature", FeaturesOf(v))
                               \cup Tagged("case", Selves(outcomes, v) \cup Targets(outcomes, v))
<1> DEFINE m == NPassing + NBacklog
<1>1. \A n \in 1 .. m : Features[n].id = <<"feature", n>>
  BY FeatureRecords
<1>2. \A i : /\ SelfRecord(i).id = <<"case", i>> /\ SelfRecord(i).status = outcomes[i].self
             /\ TargetRecord(i).id = <<"case", i>> /\ TargetRecord(i).status = outcomes[i].target
  BY DEF SelfRecord, TargetRecord, Record
<1>3. /\ \A n \in 1 .. m : \E k \in DOMAIN raw : raw[k] = Features[n]
      /\ \A i \in CaseIds : \E k \in DOMAIN raw : raw[k] = SelfRecord(i)
      /\ \A i \in CaseIds : outcomes[i].target # NotRun => \E k \in DOMAIN raw : raw[k] = TargetRecord(i)
      /\ \A k \in DOMAIN raw :
           \/ \E n \in 1 .. m : raw[k] = Features[n]
           \/ \E i \in CaseIds : raw[k] = SelfRecord(i)
           \/ \E i \in CaseIds : outcomes[i].target # NotRun /\ raw[k] = TargetRecord(i)
  BY FileListsAll
<1>4. /\ \A v : Selves(outcomes, v) = {i \in CaseIds : outcomes[i].self = v}
      /\ \A v : Targets(outcomes, v) = {i \in CaseIds : outcomes[i].target = v}
  <2>1. 1 .. Len(outcomes) = CaseIds
    BY DEF IInv, Progress, CaseIds
  <2> QED
    BY <2>1 DEF Selves, Targets
<1> HIDE DEF m
<1>5. AllIds = Tagged("feature", 1 .. m) \cup Tagged("case", CaseIds)
  <2>1. ASSUME NEW x \in AllIds
        PROVE  x \in Tagged("feature", 1 .. m) \cup Tagged("case", CaseIds)
    <3>1. PICK k \in DOMAIN raw : x = raw[k].id
      BY DEF AllIds
    <3>2. CASE \E n \in 1 .. m : raw[k] = Features[n]
      BY <1>1, <3>1, <3>2 DEF Tagged
    <3>3. CASE \E i \in CaseIds : raw[k] = SelfRecord(i) \/ raw[k] = TargetRecord(i)
      <4>1. PICK i \in CaseIds : raw[k] = SelfRecord(i) \/ raw[k] = TargetRecord(i)
        BY <3>3
      <4>2. x = <<"case", i>>
        BY <1>2, <3>1, <4>1
      <4> QED
        BY <4>2 DEF Tagged
    <3> QED
      BY <1>3, <3>2, <3>3
  <2>2. ASSUME NEW n \in 1 .. m
        PROVE  <<"feature", n>> \in AllIds
    BY <1>1, <1>3 DEF AllIds
  <2>3. ASSUME NEW i \in CaseIds
        PROVE  <<"case", i>> \in AllIds
    BY <1>2, <1>3 DEF AllIds
  <2> QED
    BY <2>1, <2>2, <2>3 DEF Tagged
<1>6. ASSUME NEW v \in Status
      PROVE  StatusIds(v) = Tagged("feature", FeaturesOf(v))
                              \cup Tagged("case", Selves(outcomes, v) \cup Targets(outcomes, v))
  <2>0. v # NotRun
    BY DEF Status, NotRun
  <2>1. ASSUME NEW x \in StatusIds(v)
        PROVE  x \in Tagged("feature", FeaturesOf(v))
                       \cup Tagged("case", Selves(outcomes, v) \cup Targets(outcomes, v))
    <3>1. PICK k \in DOMAIN raw : x = raw[k].id /\ raw[k].status = v
      BY DEF StatusIds
    <3>2. CASE \E n \in 1 .. m : raw[k] = Features[n]
      BY <1>1, <3>1, <3>2 DEF Tagged, FeaturesOf, m
    <3>3. CASE \E i \in CaseIds : raw[k] = SelfRecord(i)
      <4>1. PICK i \in CaseIds : raw[k] = SelfRecord(i)
        BY <3>3
      <4>2. x = <<"case", i>> /\ i \in Selves(outcomes, v)
        BY <1>2, <1>4, <3>1, <4>1
      <4> QED
        BY <4>2 DEF Tagged
    <3>4. CASE \E i \in CaseIds : outcomes[i].target # NotRun /\ raw[k] = TargetRecord(i)
      <4>1. PICK i \in CaseIds : raw[k] = TargetRecord(i)
        BY <3>4
      <4>2. x = <<"case", i>> /\ i \in Targets(outcomes, v)
        BY <1>2, <1>4, <3>1, <4>1
      <4> QED
        BY <4>2 DEF Tagged
    <3> QED
      BY <1>3, <3>2, <3>3, <3>4
  <2>2. ASSUME NEW n \in FeaturesOf(v)
        PROVE  <<"feature", n>> \in StatusIds(v)
    <3>1. PICK k \in DOMAIN raw : raw[k] = Features[n]
      BY <1>3 DEF FeaturesOf, m
    <3>2. raw[k].status = v /\ raw[k].id = <<"feature", n>>
      BY <1>1, <3>1 DEF FeaturesOf, m
    <3> QED
      BY <3>2 DEF StatusIds
  <2>3. ASSUME NEW i \in Selves(outcomes, v)
        PROVE  <<"case", i>> \in StatusIds(v)
    <3>1. i \in CaseIds /\ outcomes[i].self = v
      BY <1>4
    <3>2. PICK k \in DOMAIN raw : raw[k] = SelfRecord(i)
      BY <1>3, <3>1
    <3>3. raw[k].status = v /\ raw[k].id = <<"case", i>>
      BY <1>2, <3>1, <3>2
    <3> QED
      BY <3>3 DEF StatusIds
  <2>4. ASSUME NEW i \in Targets(outcomes, v)
        PROVE  <<"case", i>> \in StatusIds(v)
    <3>1. i \in CaseIds /\ outcomes[i].target = v
      BY <1>4
    <3>2. PICK k \in DOMAIN raw : raw[k] = TargetRecord(i)
      BY <1>3, <2>0, <3>1
    <3>3. raw[k].status = v /\ raw[k].id = <<"case", i>>
      BY <1>2, <3>1, <3>2
    <3> QED
      BY <3>3 DEF StatusIds
  <2> QED
    BY <2>1, <2>2, <2>3, <2>4 DEF Tagged
<1> QED
  BY <1>5, <1>6 DEF m

\* No case has the same status in both lanes unless it passed both, and a case the
\* target passed passed its own lane.
LEMMA LanesCount ==
  ASSUME IInv
  PROVE  /\ \A v : IsFiniteSet(Selves(outcomes, v) \cup Targets(outcomes, v))
         /\ Cardinality(Selves(outcomes, "passed") \cup Targets(outcomes, "passed")) = summary.passed
         /\ Cardinality(Selves(outcomes, "failed") \cup Targets(outcomes, "failed"))
              = summary.failed + summary.target_failed
         /\ Cardinality(Selves(outcomes, "skipped") \cup Targets(outcomes, "skipped"))
              = summary.skipped + summary.target_skipped
<1>1. Len(outcomes) \in Nat /\ \A i \in 1 .. Len(outcomes) : Earned(outcomes[i])
  BY DEF IInv, Types, LanesEarned
<1>2. \A v : /\ IsFiniteSet(Selves(outcomes, v)) /\ Cardinality(Selves(outcomes, v)) \in Nat
             /\ IsFiniteSet(Targets(outcomes, v)) /\ Cardinality(Targets(outcomes, v)) \in Nat
  <2> TAKE v
  <2>1. /\ Selves(outcomes, v) \in SUBSET (1 .. Len(outcomes))
        /\ Targets(outcomes, v) \in SUBSET (1 .. Len(outcomes))
    BY DEF Selves, Targets
  <2> QED
    BY <1>1, <2>1, CountedSetsAreFinite
<1>3. Selves(outcomes, "passed") \cup Targets(outcomes, "passed") = Selves(outcomes, "passed")
  BY <1>1 DEF Selves, Targets, Earned, NotRun
<1>4. \A v \in {"failed", "skipped"} : Selves(outcomes, v) \cap Targets(outcomes, v) = {}
  BY <1>1 DEF Selves, Targets, Earned, NotRun
<1>5. \A v : IsFiniteSet(Selves(outcomes, v) \cup Targets(outcomes, v))
  BY <1>2, FS_Union
<1>6. \A v \in {"failed", "skipped"} :
        Cardinality(Selves(outcomes, v) \cup Targets(outcomes, v))
          = Cardinality(Selves(outcomes, v)) + Cardinality(Targets(outcomes, v))
  <2> TAKE v \in {"failed", "skipped"}
  <2>1. Cardinality(Selves(outcomes, v) \cup Targets(outcomes, v))
          = Cardinality(Selves(outcomes, v)) + Cardinality(Targets(outcomes, v)) - Cardinality({})
    BY <1>2, <1>4, FS_Union
  <2> QED
    BY <1>2, <2>1, FS_EmptySet
<1>7. summary = CountsOf(outcomes)
  BY DEF IInv, Counted
<1> QED
  BY <1>3, <1>5, <1>6, <1>7 DEF CountsOf

\* What src/report.rs counts in the file of this suite is the suite's own summary,
\* the features and, as further failed or skipped cases, those of the target lane.
THEOREM ReportAddsLane == Spec => []ReportAddsTargetLane
<1>1. IInv => ReportAddsTargetLane
  <2> SUFFICES ASSUME IInv, step = "over"
               PROVE  ReportCounts = [total   |-> NPassing + NBacklog + NCases,
                                      passed  |-> NPassing + summary.passed,
                                      failed  |-> summary.failed + summary.target_failed,
                                      skipped |-> NBacklog + summary.skipped + summary.target_skipped]
    BY DEF ReportAddsTargetLane
  <2> USE Sizes
  <2>1. ReportCounts = [total   |-> Cardinality(AllIds),
                        passed  |-> Cardinality(StatusIds("passed")),
                        failed  |-> Cardinality(StatusIds("failed")),
                        skipped |-> Cardinality(StatusIds("skipped"))]
    BY DEF ReportCounts, IdsWith, AllIds, StatusIds
  <2>2. Cardinality(AllIds) = NPassing + NBacklog + NCases
    <3>1. /\ IsFiniteSet(1 .. NPassing + NBacklog) /\ Cardinality(1 .. NPassing + NBacklog) = NPassing + NBacklog
          /\ IsFiniteSet(CaseIds) /\ Cardinality(CaseIds) = NCases
      <4>1. \A n \in Nat : IsFiniteSet(1 .. n) /\ Cardinality(1 .. n) = n
        BY FS_Interval
      <4>2. NPassing + NBacklog \in Nat
        OBVIOUS
      <4> QED
        BY <4>1, <4>2 DEF CaseIds
    <3> QED
      BY <3>1, IdsInFile, TagsAddUp
  <2>3. \A v \in Status :
          Cardinality(StatusIds(v)) =
            Cardinality(FeaturesOf(v)) + Cardinality(Selves(outcomes, v) \cup Targets(outcomes, v))
    BY IdsInFile, TagsAddUp, FeatureCounts, LanesCount
  <2>4. "passed" \in Status /\ "failed" \in Status /\ "skipped" \in Status
    BY DEF Status
  <2>5. Cardinality(StatusIds("passed")) = NPassing + summary.passed
    <3>1. /\ Cardinality(FeaturesOf("passed")) = NPassing
          /\ Cardinality(Selves(outcomes, "passed") \cup Targets(outcomes, "passed")) = summary.passed
      BY FeatureCounts, LanesCount
    <3> QED
      BY <2>3, <2>4, <3>1
  <2>6. /\ summary.failed \in Nat /\ summary.target_failed \in Nat
        /\ summary.skipped \in Nat /\ summary.target_skipped \in Nat
    <3>1. /\ Len(outcomes) \in Nat
          /\ \A v : /\ Selves(outcomes, v) \in SUBSET (1 .. Len(outcomes))
                    /\ Targets(outcomes, v) \in SUBSET (1 .. Len(outcomes))
      BY DEF IInv, Types, Selves, Targets
    <3>2. \A v : Cardinality(Selves(outcomes, v)) \in Nat /\ Cardinality(Targets(outcomes, v)) \in Nat
      BY <3>1, CountedSetsAreFinite
    <3> QED
      BY <3>2 DEF IInv, Counted, CountsOf
  <2>7. Cardinality(StatusIds("failed")) = summary.failed + summary.target_failed
    <3>1. Cardinality(FeaturesOf("failed")) = 0
      BY FeatureCounts
    <3>2. Cardinality(Selves(outcomes, "failed") \cup Targets(outcomes, "failed"))
            = summary.failed + summary.target_failed
      BY LanesCount
    <3>3. Cardinality(StatusIds("failed")) = 0 + (summary.failed + summary.target_failed)
      BY <2>3, <2>4, <3>1, <3>2
    <3> QED
      BY <2>6, <3>3
  <2>8. Cardinality(StatusIds("skipped")) = NBacklog + summary.skipped + summary.target_skipped
    <3>1. Cardinality(FeaturesOf("skipped")) = NBacklog
      BY FeatureCounts
    <3>2. Cardinality(Selves(outcomes, "skipped") \cup Targets(outcomes, "skipped"))
            = summary.skipped + summary.target_skipped
      BY LanesCount
    <3>3. Cardinality(StatusIds("skipped")) = NBacklog + (summary.skipped + summary.target_skipped)
      BY <2>3, <2>4, <3>1, <3>2
    <3> QED
      BY <2>6, <3>3
  <2> QED
    BY <2>1, <2>2, <2>5, <2>7, <2>8
<1> QED
  BY <1>1, Invariance, PTL
\* Induction over sequences, with the property as the set of those that have it.
LEMMA SeqInduction ==
  ASSUME NEW S, NEW Good, <<>> \in Good,
         \A s \in Seq(S), e \in S : s \in Good => Append(s, e) \in Good
  PROVE  \A s \in Seq(S) : s \in Good
<1> DEFINE Bad == {n \in Nat : \E s \in Seq(S) : Len(s) = n /\ s \notin Good}
<1>1. SUFFICES ASSUME NEW b \in Seq(S), b \notin Good PROVE FALSE
  OBVIOUS
<1>2. Len(b) \in Bad
  BY <1>1
<1>3. PICK n \in Bad : \A k \in Bad : n <= k
  BY <1>2, Least
<1>4. PICK s \in Seq(S) : Len(s) = n /\ s \notin Good
  BY <1>3
<1>5. s # <<>>
  BY <1>4
<1>6. PICK t \in Seq(S), e \in S : s = Append(t, e)
  BY <1>5, SequenceEmptyOrAppend
<1>7. Len(t) \in Nat /\ n = Len(t) + 1
  BY <1>4, <1>6
<1>8. t \notin Good
  BY <1>4, <1>6
<1>9. Len(t) \in Bad
  BY <1>7, <1>8
<1> QED
  BY <1>3, <1>7, <1>9

\* And only one: it depends on no more than the parts so far.
LEMMA FlatteningUnique ==
  ASSUME NEW q, NEW n \in Nat, NEW g, Flattens(g, q, n),
         NEW p, NEW m \in Nat, NEW h, Flattens(h, p, m),
         n <= m, \A i \in 1 .. n : q[i] = p[i]
  PROVE  \A i \in 1 .. n : g[i] = h[i]
<1> DEFINE Bad == {i \in 1 .. n : g[i] # h[i]}
<1>1. SUFFICES ASSUME Bad # {} PROVE FALSE
  OBVIOUS
<1>2. PICK i \in Bad : \A k \in Bad : i <= k
  <2>1. Bad \in SUBSET Nat
    OBVIOUS
  <2> HIDE DEF Bad
  <2> QED
    BY <1>1, <2>1, Least
<1>3. /\ \A k \in 1 .. n : g[k] = IF k = 1 THEN q[k] ELSE g[k - 1] \o q[k]
      /\ \A k \in 1 .. m : h[k] = IF k = 1 THEN p[k] ELSE h[k - 1] \o p[k]
  BY DEF Flattens
<1>4. i \in 1 .. n /\ i \in 1 .. m
  BY <1>2
<1>5. CASE i = 1
  BY <1>2, <1>3, <1>4, <1>5
<1>6. CASE i # 1
  <2>1. i - 1 \in 1 .. n /\ ~ (i <= i - 1)
    BY <1>4, <1>6
  <2>2. g[i - 1] = h[i - 1]
    BY <1>2, <2>1
  <2> QED
    BY <1>2, <1>3, <1>4, <1>6, <2>2
<1> QED
  BY <1>5, <1>6

LEMMA FlattenNothing == FlattenSeq(<<>>) = <<>>
BY DEF FlattenSeq

\* One part more.
LEMMA FlattenMore ==
  ASSUME NEW S, NEW q \in Seq(Seq(S)), NEW part \in Seq(S)
  PROVE  FlattenSeq(Append(q, part)) = FlattenSeq(q) \o part
<1> DEFINE longer == Append(q, part)
           n == Len(q)
<1>1. /\ n \in Nat /\ Len(longer) = n + 1 /\ longer[n + 1] = part
      /\ \A i \in 1 .. n : longer[i] = q[i]
  OBVIOUS
<1>2. n = 0 => q = <<>>
  OBVIOUS
<1> DEFINE g == CHOOSE g : g = [i \in 1 .. n |-> IF i = 1 THEN q[i] ELSE g[i - 1] \o q[i]]
           h == CHOOSE h : h = [i \in 1 .. n + 1 |-> IF i = 1 THEN longer[i] ELSE h[i - 1] \o longer[i]]
<1>3. n # 0 => FlattenSeq(q) = g[n]
  BY DEF FlattenSeq
<1>4. FlattenSeq(longer) = h[n + 1]
  <2>1. Len(longer) # 0
    BY <1>1
  <2>2. FlattenSeq(longer) =
          (CHOOSE f : f = [i \in 1 .. Len(longer) |-> IF i = 1 THEN longer[i] ELSE f[i - 1] \o longer[i]])[Len(longer)]
    BY <2>1, Zenon DEF FlattenSeq
  <2> HIDE DEF longer
  <2> QED
    BY <1>1, <2>2
<1> HIDE DEF longer, n
<1>5. Flattens(g, q, n)
  BY <1>1, FlatteningExists DEF Flattens
<1>6. Flattens(h, longer, n + 1)
  <2>1. n + 1 \in Nat
    BY <1>1
  <2> QED
    BY <2>1, FlatteningExists DEF Flattens
<1> HIDE DEF g, h
<1>7. n + 1 \in 1 .. n + 1 /\ (n + 1) - 1 = n /\ n + 1 \in Nat /\ n <= n + 1
  <2>1. n \in Nat
    BY <1>1
  <2> QED
    BY <2>1
<1>8. h[n + 1] = IF n + 1 = 1 THEN part ELSE h[n] \o part
  BY <1>1, <1>6, <1>7 DEF Flattens
<1>9. CASE n = 0
  <2>1. <<>> \o part = part
    BY ConcatEmptySeq
  <2>2. FlattenSeq(q) = <<>>
    BY <1>2, <1>9, FlattenNothing DEF n
  <2> QED
    BY <1>4, <1>8, <1>9, <2>1, <2>2 DEF longer
<1>10. CASE n # 0
  <2>1. \A i \in 1 .. n : g[i] = h[i]
    BY <1>1, <1>5, <1>6, <1>7, FlatteningUnique
  <2>2. n \in 1 .. n /\ n + 1 # 1
    BY <1>1, <1>10
  <2>3. h[n] = FlattenSeq(q)
    BY <1>3, <1>10, <2>1, <2>2
  <2> QED
    BY <1>4, <1>8, <2>2, <2>3 DEF longer
<1> QED
  BY <1>9, <1>10

\* What comes of a sequence when each member is replaced.
Each(h, s) == [i \in DOMAIN s |-> h[s[i]]]

LEMMA EachTypes ==
  ASSUME NEW S, NEW T, NEW h, \A x \in S : h[x] \in T, NEW s \in Seq(S)
  PROVE  Each(h, s) \in Seq(T) /\ Len(Each(h, s)) = Len(s) /\ \A i \in 1 .. Len(s) : Each(h, s)[i] = h[s[i]]
BY DEF Each

LEMMA EachMore ==
  ASSUME NEW S, NEW h, NEW s \in Seq(S), NEW e \in S
  PROVE  Each(h, Append(s, e)) = Append(Each(h, s), h[e])
<1> DEFINE T == {h[x] : x \in S}
           longer == Append(s, e)
           shorter == Each(h, s)
<1>1. \A x \in S : h[x] \in T
  OBVIOUS
<1> HIDE DEF T
<1>2. /\ longer \in Seq(S) /\ Len(longer) = Len(s) + 1
      /\ \A i \in 1 .. Len(s) : longer[i] = s[i]
      /\ longer[Len(s) + 1] = e
  BY AppendProperties
<1>3. shorter \in Seq(T) /\ Len(shorter) = Len(s) /\ \A i \in 1 .. Len(s) : shorter[i] = h[s[i]]
  BY <1>1 DEF Each
<1> HIDE DEF longer, shorter
<1>4. /\ Each(h, longer) \in Seq(T) /\ Len(Each(h, longer)) = Len(s) + 1
      /\ \A i \in 1 .. Len(s) + 1 : Each(h, longer)[i] = h[longer[i]]
  BY <1>1, <1>2 DEF Each
<1>5. /\ Append(shorter, h[e]) \in Seq(T) /\ Len(Append(shorter, h[e])) = Len(s) + 1
      /\ \A i \in 1 .. Len(s) : Append(shorter, h[e])[i] = h[s[i]]
      /\ Append(shorter, h[e])[Len(s) + 1] = h[e]
  BY <1>1, <1>3, AppendProperties
<1>6. \A i \in 1 .. Len(s) + 1 : i \in 1 .. Len(s) \/ i = Len(s) + 1
  OBVIOUS
<1>7. \A i \in 1 .. Len(s) + 1 : Each(h, longer)[i] = Append(shorter, h[e])[i]
  <2> TAKE i \in 1 .. Len(s) + 1
  <2>1. CASE i \in 1 .. Len(s)
    BY <1>2, <1>4, <1>5, <2>1
  <2>2. CASE i = Len(s) + 1
    BY <1>2, <1>4, <1>5, <2>2
  <2> QED
    BY <1>6, <2>1, <2>2
<1>8. Each(h, longer) = Append(shorter, h[e])
  BY <1>4, <1>5, <1>7, SeqEqual
<1> QED
  BY <1>8 DEF longer, shorter

\* The provers apply a lemma about an operator of this module more readily than
\* one about the concatenation they have rules of their own for.
Then(s, t) == s \o t

LEMMA ThenFacts ==
  ASSUME NEW S, NEW s \in Seq(S), NEW t \in Seq(S), NEW e \in S
  PROVE  /\ Then(s, t) \in Seq(S)
         /\ Then(s, <<>>) = s
         /\ Then(s, Append(t, e)) = Append(Then(s, t), e)
<1>1. s \o t \in Seq(S)
  BY ConcatProperties
<1>2. s \o <<>> = s
  BY ConcatEmptySeq
<1>3. Append(s \o t, e) = s \o Append(t, e)
  OBVIOUS
<1> QED
  BY <1>1, <1>2, <1>3 DEF Then

LEMMA ThenAppend ==
  ASSUME NEW S, NEW s \in Seq(S), NEW t \in Seq(S), NEW u \in Seq(S)
  PROVE  Then(Then(s, t), u) = Then(s, Then(t, u))
BY ConcatAssociative DEF Then

LEMMA EachConcat ==
  ASSUME NEW S, NEW h, NEW s \in Seq(S), NEW t \in Seq(S)
  PROVE  Each(h, Then(s, t)) = Then(Each(h, s), Each(h, t))
<1> DEFINE T == {h[x] : x \in S}
<1>4. \A x \in S : h[x] \in T
  OBVIOUS
<1> HIDE DEF T
<1> DEFINE Good == {b \in Seq(S) : Each(h, Then(s, b)) = Then(Each(h, s), Each(h, b))}
<1>0. \A b \in Seq(S) : Each(h, b) \in Seq(T)
  BY <1>4, EachTypes
<1>1. <<>> \in Good
  <2>1. s \o <<>> = s /\ Each(h, <<>>) = <<>>
    BY ConcatEmptySeq DEF Each
  <2>2. Each(h, s) \o <<>> = Each(h, s)
    BY <1>0, ConcatEmptySeq
  <2>3. <<>> \in Seq(S)
    OBVIOUS
  <2> QED
    BY <2>1, <2>2, <2>3, Zenon DEF Then
<1>2. ASSUME NEW b \in Seq(S), NEW e \in S, b \in Good
      PROVE  Append(b, e) \in Good
  <2>1. h[e] \in T /\ Append(b, e) \in Seq(S) /\ Each(h, b) \in Seq(T)
    BY <1>0, <1>4
  <2>2. Then(s, Append(b, e)) = Append(Then(s, b), e) /\ Then(s, b) \in Seq(S)
    BY ThenFacts
  <2>3. Each(h, Append(Then(s, b), e)) = Append(Each(h, Then(s, b)), h[e])
    BY <2>2, EachMore
  <2>4. Then(Each(h, s), Append(Each(h, b), h[e])) = Append(Then(Each(h, s), Each(h, b)), h[e])
    BY <1>0, <2>1, ThenFacts
  <2>5. Each(h, Append(b, e)) = Append(Each(h, b), h[e])
    BY EachMore
  <2> QED
    BY <1>2, <2>1, <2>2, <2>3, <2>4, <2>5
<1> HIDE DEF Good
<1>3. t \in Good
  BY <1>1, <1>2, SeqInduction
<1> QED
  BY <1>3 DEF Good

LEMMA FlattenConcat ==
  ASSUME NEW S, NEW p \in Seq(Seq(S)), NEW q \in Seq(Seq(S))
  PROVE  FlattenSeq(Then(p, q)) = Then(FlattenSeq(p), FlattenSeq(q))
<1> DEFINE Good == {b \in Seq(Seq(S)) : FlattenSeq(Then(p, b)) = Then(FlattenSeq(p), FlattenSeq(b))}
<1>0. \A b \in Seq(Seq(S)) : FlattenSeq(b) \in Seq(S)
  BY Flattened
<1>1. <<>> \in Good
  <2>1. Then(p, <<>>) = p
    BY ConcatEmptySeq DEF Then
  <2>2. Then(FlattenSeq(p), <<>>) = FlattenSeq(p)
    <3>1. FlattenSeq(p) \in Seq(S)
      BY <1>0
    <3> QED
      BY <3>1, ConcatEmptySeq DEF Then
  <2>3. <<>> \in Seq(Seq(S))
    OBVIOUS
  <2> QED
    BY <2>1, <2>2, <2>3, FlattenNothing, Zenon
<1>2. ASSUME NEW b \in Seq(Seq(S)), NEW e \in Seq(S), b \in Good
      PROVE  Append(b, e) \in Good
  <2>1. Then(p, b) \in Seq(Seq(S)) /\ Append(b, e) \in Seq(Seq(S))
    BY ThenFacts
  <2>2. Then(p, Append(b, e)) = Append(Then(p, b), e)
    BY ThenFacts
  <2>3. FlattenSeq(Append(Then(p, b), e)) = Then(FlattenSeq(Then(p, b)), e)
    BY <2>1, FlattenMore DEF Then
  <2>4. FlattenSeq(Append(b, e)) = Then(FlattenSeq(b), e)
    BY FlattenMore DEF Then
  <2>5. Then(Then(FlattenSeq(p), FlattenSeq(b)), e) = Then(FlattenSeq(p), Then(FlattenSeq(b), e))
    BY <1>0, ThenAppend
  <2> QED
    BY <1>2, <2>1, <2>2, <2>3, <2>4, <2>5
<1> HIDE DEF Good
<1>3. q \in Good
  BY <1>1, <1>2, SeqInduction
<1> QED
  BY <1>3 DEF Good

\* Parts of one member each.
LEMMA FlattenSingles ==
  ASSUME NEW S, NEW s \in Seq(S)
  PROVE  FlattenSeq([i \in DOMAIN s |-> <<s[i]>>]) = s
<1> DEFINE single == [x \in S |-> <<x>>]
           Good == {b \in Seq(S) : FlattenSeq(Each(single, b)) = b}
<1>0. \A x \in S : single[x] = <<x>> /\ single[x] \in Seq(S)
  OBVIOUS
<1>1. <<>> \in Good
  <2>1. Each(single, <<>>) = <<>>
    BY DEF Each
  <2> QED
    BY <2>1, FlattenNothing
<1> HIDE DEF single
<1>2. ASSUME NEW b \in Seq(S), NEW e \in S, b \in Good
      PROVE  Append(b, e) \in Good
  <2>1. Each(single, Append(b, e)) = Append(Each(single, b), single[e])
    BY EachMore
  <2>2. Each(single, b) \in Seq(Seq(S)) /\ single[e] \in Seq(S)
    BY <1>0, EachTypes
  <2>3. FlattenSeq(Append(Each(single, b), single[e])) = b \o <<e>>
    BY <1>0, <1>2, <2>2, FlattenMore
  <2>4. b \o <<e>> = Append(b, e) /\ Append(b, e) \in Seq(S)
    BY AppendIsConcat
  <2> QED
    BY <2>1, <2>3, <2>4
<1> HIDE DEF Good
<1>3. s \in Good
  BY <1>1, <1>2, SeqInduction
<1>4. Each(single, s) = [i \in DOMAIN s |-> <<s[i]>>]
  <2>1. \A i \in DOMAIN s : s[i] \in S
    OBVIOUS
  <2> QED
    BY <1>0, <2>1 DEF Each
<1> QED
  BY <1>3, <1>4 DEF Good

\* Each member of a flattened sequence made into a sequence and flattened again is
\* the same as that done to each part.
LEMMA FlattenEach ==
  ASSUME NEW S, NEW T, NEW h, \A x \in S : h[x] \in Seq(T), NEW q \in Seq(Seq(S))
  PROVE  FlattenSeq(Each(h, FlattenSeq(q))) = FlattenSeq([i \in DOMAIN q |-> FlattenSeq(Each(h, q[i]))])
<1> DEFINE whole == [s \in Seq(S) |-> FlattenSeq(Each(h, s))]
           Good == {b \in Seq(Seq(S)) : FlattenSeq(Each(h, FlattenSeq(b))) = FlattenSeq(Each(whole, b))}
<1>0. \A s \in Seq(S) : Each(h, s) \in Seq(Seq(T)) /\ FlattenSeq(Each(h, s)) \in Seq(T)
  BY EachTypes, Flattened
<1>1. \A s \in Seq(S) : whole[s] = FlattenSeq(Each(h, s))
  BY <1>0
<1>2. <<>> \in Good
  <2>1. Each(h, <<>>) = <<>> /\ Each(whole, <<>>) = <<>>
    BY DEF Each
  <2> QED
    BY <2>1, FlattenNothing
<1> HIDE DEF whole
<1>3. ASSUME NEW b \in Seq(Seq(S)), NEW e \in Seq(S), b \in Good
      PROVE  Append(b, e) \in Good
  <2>1. FlattenSeq(b) \in Seq(S) /\ Append(b, e) \in Seq(Seq(S))
    BY Flattened
  <2>2. Each(h, FlattenSeq(Append(b, e))) = Then(Each(h, FlattenSeq(b)), Each(h, e))
    <3>1. FlattenSeq(Append(b, e)) = Then(FlattenSeq(b), e)
      BY FlattenMore DEF Then
    <3> QED
      BY <2>1, <3>1, EachConcat
  <2>3. FlattenSeq(Then(Each(h, FlattenSeq(b)), Each(h, e)))
          = Then(FlattenSeq(Each(h, FlattenSeq(b))), FlattenSeq(Each(h, e)))
    BY <1>0, <2>1, FlattenConcat
  <2>4. Each(whole, Append(b, e)) = Append(Each(whole, b), whole[e])
    BY EachMore
  <2>5. FlattenSeq(Append(Each(whole, b), whole[e])) = Then(FlattenSeq(Each(whole, b)), whole[e])
    <3>1. \A s \in Seq(S) : whole[s] \in Seq(T)
      BY <1>0, <1>1
    <3>2. Each(whole, b) \in Seq(Seq(T)) /\ whole[e] \in Seq(T)
      BY <3>1, EachTypes
    <3> QED
      BY <3>2, FlattenMore DEF Then
  <2> QED
    BY <1>1, <1>3, <2>1, <2>2, <2>3, <2>4, <2>5
<1> HIDE DEF Good
<1>4. q \in Good
  BY <1>2, <1>3, SeqInduction
<1>5. Each(whole, q) = [i \in DOMAIN q |-> FlattenSeq(Each(h, q[i]))]
  <2>1. \A i \in DOMAIN q : q[i] \in Seq(S)
    OBVIOUS
  <2> QED
    BY <1>1, <2>1 DEF Each
<1> QED
  BY <1>4, <1>5 DEF Good

-----------------------------------------------------------------------------
(* What no normalizer changes: of a word *)

LEMMA WordTables ==
  ASSUME NEW w
  PROVE  /\ Mapped(Blanks, w) = IF w = " " THEN "" ELSE w
         /\ Mapped(Nulls, w) = IF w = "" THEN "NULL" ELSE w
         /\ Mapped(Bits, w) = CASE w = "t" -> "1" [] w = "f" -> "0" [] OTHER -> w
         /\ Mapped(Cuts, w) = CASE w = "12:00:00.5" -> "12:00:00" [] w \in {"1.5", "1.50"} -> "1" [] OTHER -> w
         /\ Mapped(Doubles, w) = CASE w = "1.50" -> "1.5"
                                   [] w = "9007199254740993" -> "9007199254740992"
                                   [] OTHER -> w
         /\ Mapped(Jsons, w) = IF w = "1.50" THEN "1.5" ELSE w
<1>1. Mapped(Blanks, w) = IF w = " " THEN "" ELSE w
  BY DEF Mapped, Blanks
<1>2. Mapped(Nulls, w) = IF w = "" THEN "NULL" ELSE w
  BY DEF Mapped, Nulls
<1>3. Mapped(Bits, w) = CASE w = "t" -> "1" [] w = "f" -> "0" [] OTHER -> w
  BY DEF Mapped, Bits
<1>4. Mapped(Cuts, w) = CASE w = "12:00:00.5" -> "12:00:00" [] w \in {"1.5", "1.50"} -> "1" [] OTHER -> w
  BY DEF Mapped, Cuts, Timestamps
<1>5. Mapped(Doubles, w) = CASE w = "1.50" -> "1.5"
                             [] w = "9007199254740993" -> "9007199254740992"
                             [] OTHER -> w
  BY DEF Mapped, Doubles
<1>6. Mapped(Jsons, w) = IF w = "1.50" THEN "1.5" ELSE w
  BY DEF Mapped, Jsons, Numbers, Doubles
<1> QED
  BY <1>1, <1>2, <1>3, <1>4, <1>5, <1>6

\* The table of each normalizer that rewrites words.
Tables ==
  [strip_trailing_ws |-> Blanks, pg_null_blank_to_null |-> Nulls, boolean_tf_to_int |-> Bits,
   timestamp_iso_to_seconds |-> Cuts, numeric_normalize |-> Doubles, jsonb_canonical |-> Jsons]

Gist(word, declared) == EssenceOfWord(word, declared, Cuts)

\* What the table of a normalizer says of a word, if anything.
LEMMA Changes ==
  ASSUME NEW w
  PROVE  /\ Mapped(Tables["strip_trailing_ws"], w) # w => w = " " /\ Mapped(Tables["strip_trailing_ws"], w) = ""
         /\ Mapped(Tables["pg_null_blank_to_null"], w) # w =>
              w = "" /\ Mapped(Tables["pg_null_blank_to_null"], w) = "NULL"
         /\ Mapped(Tables["boolean_tf_to_int"], w) # w =>
              \/ w = "t" /\ Mapped(Tables["boolean_tf_to_int"], w) = "1"
              \/ w = "f" /\ Mapped(Tables["boolean_tf_to_int"], w) = "0"
         /\ Mapped(Tables["timestamp_iso_to_seconds"], w) # w =>
              \/ w = "12:00:00.5" /\ Mapped(Tables["timestamp_iso_to_seconds"], w) = "12:00:00"
              \/ (w = "1.5" \/ w = "1.50") /\ Mapped(Tables["timestamp_iso_to_seconds"], w) = "1"
         /\ Mapped(Tables["numeric_normalize"], w) # w =>
              \/ w = "1.50" /\ Mapped(Tables["numeric_normalize"], w) = "1.5"
              \/ w = "9007199254740993" /\ Mapped(Tables["numeric_normalize"], w) = "9007199254740992"
         /\ Mapped(Tables["jsonb_canonical"], w) # w => w = "1.50" /\ Mapped(Tables["jsonb_canonical"], w) = "1.5"
<1>1. /\ Tables["strip_trailing_ws"] = Blanks /\ Tables["pg_null_blank_to_null"] = Nulls
      /\ Tables["boolean_tf_to_int"] = Bits /\ Tables["timestamp_iso_to_seconds"] = Cuts
      /\ Tables["numeric_normalize"] = Doubles /\ Tables["jsonb_canonical"] = Jsons
  BY DEF Tables
<1> QED
  BY <1>1, WordTables

\* A declared normalizer leaves the essence of a word as it is.
LEMMA WordKept ==
  ASSUME NEW D, NEW n \in DOMAIN Tables, n \in D, NEW w
  PROVE  Gist(Mapped(Tables[n], w), D) = Gist(w, D)
<1> DEFINE stripped(v) == Without(v, "strip_trailing_ws", Blanks, D)
           filled(v)   == Without(v, "pg_null_blank_to_null", Nulls, D)
           digit(v)    == Without(v, "boolean_tf_to_int", Bits, D)
           cut(v)      == Without(v, "timestamp_iso_to_seconds", Cuts, D)
           double(v)   == Without(v, "numeric_normalize", Doubles, D)
           json(v)     == Without(v, "jsonb_canonical", Jsons, D)
<1>1. \A v : Gist(v, D) = json(double(cut(digit(filled(stripped(v))))))
  BY Zenon DEF Gist, EssenceOfWord
<1>2. \A v : stripped(v) = IF "strip_trailing_ws" \in D /\ v = " " THEN "" ELSE v
  BY WordTables DEF Without
<1>3. \A v : filled(v) = IF "pg_null_blank_to_null" \in D /\ v = "" THEN "NULL" ELSE v
  BY WordTables DEF Without
<1>4. \A v : digit(v) = IF "boolean_tf_to_int" \in D /\ v = "t" THEN "1"
                        ELSE IF "boolean_tf_to_int" \in D /\ v = "f" THEN "0" ELSE v
  BY WordTables DEF Without
<1>5. \A v : cut(v) = IF "timestamp_iso_to_seconds" \in D /\ v = "12:00:00.5" THEN "12:00:00"
                      ELSE IF "timestamp_iso_to_seconds" \in D /\ (v = "1.5" \/ v = "1.50") THEN "1" ELSE v
  BY WordTables DEF Without
<1>6. \A v : double(v) = IF "numeric_normalize" \in D /\ v = "1.50" THEN "1.5"
                         ELSE IF "numeric_normalize" \in D /\ v = "9007199254740993" THEN "9007199254740992" ELSE v
  BY WordTables DEF Without
<1>7. \A v : json(v) = IF "jsonb_canonical" \in D /\ v = "1.50" THEN "1.5" ELSE v
  BY WordTables DEF Without
<1> HIDE DEF stripped, filled, digit, cut, double, json
<1>8. \A v : v # " " /\ v # "" => filled(stripped(v)) = v
  BY <1>2, <1>3
<1>9. \A v : v # " " /\ v # "" /\ v # "t" /\ v # "f" => digit(filled(stripped(v))) = v
  BY <1>4, <1>8
<1>10. CASE n = "strip_trailing_ws"
  <2>1. stripped("") = stripped(" ")
    BY <1>2, <1>10
  <2>2. Gist("", D) = Gist(" ", D)
    BY <1>1, <2>1
  <2> QED
    BY <1>10, <2>2, Changes
<1>11. CASE n = "pg_null_blank_to_null"
  <2>1. filled(stripped("NULL")) = filled(stripped(""))
    BY <1>2, <1>3, <1>11
  <2>2. Gist("NULL", D) = Gist("", D)
    BY <1>1, <2>1
  <2> QED
    BY <1>11, <2>2, Changes
<1>12. CASE n = "boolean_tf_to_int"
  <2>1. digit("1") = digit("t") /\ digit("0") = digit("f")
    BY <1>4, <1>12
  <2>2. \A v \in {"1", "t", "0", "f"} : Gist(v, D) = json(double(cut(digit(v))))
    BY <1>1, <1>8
  <2>3. Gist("1", D) = Gist("t", D)
    BY <2>1, <2>2
  <2>4. Gist("0", D) = Gist("f", D)
    BY <2>1, <2>2
  <2> QED
    BY <1>12, <2>3, <2>4, Changes
<1>13. CASE n = "timestamp_iso_to_seconds"
  <2>1. /\ cut("12:00:00") = cut("12:00:00.5") /\ cut("1") = cut("1.5") /\ cut("1") = cut("1.50")
    BY <1>5, <1>13
  <2>2. \A v \in {"12:00:00", "12:00:00.5", "1", "1.5", "1.50"} : Gist(v, D) = json(double(cut(v)))
    BY <1>1, <1>9
  <2>3. Gist("12:00:00", D) = Gist("12:00:00.5", D)
    BY <2>1, <2>2
  <2>4. Gist("1", D) = Gist("1.5", D) /\ Gist("1", D) = Gist("1.50", D)
    BY <2>1, <2>2
  <2> QED
    BY <1>13, <2>3, <2>4, Changes
<1>14. CASE n = "numeric_normalize"
  <2>1. \A v \in {"1.5", "1.50", "9007199254740992", "9007199254740993"} : Gist(v, D) = json(double(cut(v)))
    BY <1>1, <1>9
  <2>2. double(cut("1.5")) = double(cut("1.50"))
    BY <1>5, <1>6, <1>14
  <2>3. double(cut("9007199254740992")) = double(cut("9007199254740993"))
    BY <1>5, <1>6, <1>14
  <2>4. Gist("1.5", D) = Gist("1.50", D)
    BY <2>1, <2>2
  <2>5. Gist("9007199254740992", D) = Gist("9007199254740993", D)
    BY <2>1, <2>3
  <2> QED
    BY <1>14, <2>4, <2>5, Changes
<1>15. CASE n = "jsonb_canonical"
  <2>1. \A v \in {"1.5", "1.50"} : Gist(v, D) = json(double(cut(v)))
    BY <1>1, <1>9
  <2>2. json(double(cut("1.5"))) = json(double(cut("1.50")))
    BY <1>5, <1>6, <1>7, <1>15
  <2>3. Gist("1.5", D) = Gist("1.50", D)
    BY <2>1, <2>2
  <2> QED
    BY <1>15, <2>3, Changes
<1>16. n \in {"strip_trailing_ws", "pg_null_blank_to_null", "boolean_tf_to_int",
             "timestamp_iso_to_seconds", "numeric_normalize", "jsonb_canonical"}
  BY DEF Tables
<1> QED
  BY <1>10, <1>11, <1>12, <1>13, <1>14, <1>15, <1>16

\* The words stay words, and keys stay what they are.
LEMMA WordsMapped ==
  ASSUME NEW n \in DOMAIN Tables
  PROVE  /\ \A w \in Words : Mapped(Tables[n], w) \in Words
         /\ \A k \in DOMAIN Rank : Mapped(Tables[n], k) = k
<1>1. {"0", "1", "1.5", "12:00:00", "9007199254740992", "", "NULL"} \subseteq Words
  BY WordsAssumption DEF Numbers, Doubles, Timestamps
<1>2. n \in {"strip_trailing_ws", "pg_null_blank_to_null", "boolean_tf_to_int",
            "timestamp_iso_to_seconds", "numeric_normalize", "jsonb_canonical"}
  BY DEF Tables
<1>3. \A w : Mapped(Tables[n], w) = w
               \/ /\ Mapped(Tables[n], w) \in {"0", "1", "1.5", "12:00:00", "9007199254740992", "", "NULL"}
                  /\ w # "k1" /\ w # "k2"
  <2> TAKE w
  <2>1. CASE n = "strip_trailing_ws"
    BY <2>1, Changes
  <2>2. CASE n = "pg_null_blank_to_null"
    BY <2>2, Changes
  <2>3. CASE n = "boolean_tf_to_int"
    BY <2>3, Changes
  <2>4. CASE n = "timestamp_iso_to_seconds"
    BY <2>4, Changes
  <2>5. CASE n = "numeric_normalize"
    BY <2>5, Changes
  <2>6. CASE n = "jsonb_canonical"
    BY <2>6, Changes
  <2> QED
    BY <1>2, <2>1, <2>2, <2>3, <2>4, <2>5, <2>6
<1> QED
  BY <1>1, <1>3 DEF Rank

LEMMA KeysAreTheirGist ==
  ASSUME NEW D, NEW k \in DOMAIN Rank
  PROVE  Gist(k, D) = k
<1>1. k = "k1" \/ k = "k2"
  BY DEF Rank
<1>2. \A n \in DOMAIN Tables : Without(k, n, Tables[n], D) = k
  BY WordsMapped DEF Without
<1>3. /\ Without(k, "strip_trailing_ws", Blanks, D) = k /\ Without(k, "pg_null_blank_to_null", Nulls, D) = k
      /\ Without(k, "boolean_tf_to_int", Bits, D) = k /\ Without(k, "timestamp_iso_to_seconds", Cuts, D) = k
      /\ Without(k, "numeric_normalize", Doubles, D) = k /\ Without(k, "jsonb_canonical", Jsons, D) = k
  BY <1>2 DEF Tables
<1> QED
  BY <1>3 DEF Gist, EssenceOfWord

-----------------------------------------------------------------------------
(* What no normalizer changes: of an item *)

GistOfItem(item, D) == EssenceOfItem(item, D, Cuts)

LEMMA ItemShape ==
  ASSUME NEW item \in Items
  PROVE  /\ item = [quotes |-> item.quotes, words |-> item.words, key |-> item.key]
         /\ item.quotes \in 0 .. 2 /\ item.words \in Seq(Words) /\ item.key \in BOOLEAN
         /\ Len(item.words) \in Nat /\ Len(item.words) >= 1
         /\ item.quotes = 0 => Len(item.words) = 1
         /\ item.key => Len(item.words) = 2 /\ item.words[1] \in DOMAIN Rank
<1>1. /\ item \in [quotes : 0 .. 2, words : Seq(Words), key : BOOLEAN] /\ item.words # <<>>
      /\ item.quotes = 0 => Len(item.words) = 1
      /\ item.key => Len(item.words) = 2 /\ item.words[1] \in DOMAIN Rank
  BY DEF Items
<1>2. item.words \in Seq(Words) /\ item.quotes \in 0 .. 2 /\ item.key \in BOOLEAN
  BY <1>1
<1>3. item = [quotes |-> item.quotes, words |-> item.words, key |-> item.key]
  BY <1>1
<1>4. Len(item.words) \in Nat /\ Len(item.words) # 0
  BY <1>1, <1>2, EmptySeq
<1> QED
  BY <1>1, <1>2, <1>3, <1>4

LEMMA ItemsMade ==
  ASSUME NEW q \in 0 .. 2, NEW ws \in Seq(Words), NEW k \in BOOLEAN, Len(ws) >= 1,
         q = 0 => Len(ws) = 1,
         k => Len(ws) = 2 /\ ws[1] \in DOMAIN Rank
  PROVE  [quotes |-> q, words |-> ws, key |-> k] \in Items
<1>1. ws # <<>>
  OBVIOUS
<1> QED
  BY <1>1 DEF Items

LEMMA GistOfItemIs ==
  ASSUME NEW item \in Items, NEW D
  PROVE  GistOfItem(item, D) =
           [quotes |-> item.quotes, words |-> [k \in 1 .. Len(item.words) |-> Gist(item.words[k], D)],
            key |-> item.key]
<1>1. /\ item = [quotes |-> item.quotes, words |-> item.words, key |-> item.key]
      /\ DOMAIN item.words = 1 .. Len(item.words)
  BY ItemShape
<1> DEFINE new == [k \in DOMAIN item.words |-> Gist(item.words[k], D)]
<1>2. GistOfItem(item, D) = [item EXCEPT !.words = new]
  BY Zenon DEF GistOfItem, EssenceOfItem, Gist
<1>3. new = [k \in 1 .. Len(item.words) |-> Gist(item.words[k], D)]
  BY Zenon, <1>1
<1> HIDE DEF new
<1>4. [item EXCEPT !.words = new] = [quotes |-> item.quotes, words |-> new, key |-> item.key]
  BY <1>1
<1> QED
  BY Zenon, <1>2, <1>3, <1>4

LEMMA RewrittenIs ==
  ASSUME NEW item \in Items, NEW map
  PROVE  MapItem(map, item) =
           [quotes |-> item.quotes, words |-> [k \in 1 .. Len(item.words) |-> Mapped(map, item.words[k])],
            key |-> item.key]
<1>1. /\ item = [quotes |-> item.quotes, words |-> item.words, key |-> item.key]
      /\ DOMAIN item.words = 1 .. Len(item.words)
  BY ItemShape
<1> DEFINE new == [k \in DOMAIN item.words |-> Mapped(map, item.words[k])]
<1>2. MapItem(map, item) = [item EXCEPT !.words = new]
  BY Zenon DEF MapItem
<1>3. new = [k \in 1 .. Len(item.words) |-> Mapped(map, item.words[k])]
  BY Zenon, <1>1
<1> HIDE DEF new
<1>4. [item EXCEPT !.words = new] = [quotes |-> item.quotes, words |-> new, key |-> item.key]
  BY <1>1
<1> QED
  BY Zenon, <1>2, <1>3, <1>4

\* A table turns an item into an item of the same kind, with the same key.
LEMMA RewrittenItem ==
  ASSUME NEW item \in Items, NEW n \in DOMAIN Tables
  PROVE  LET r == MapItem(Tables[n], item) IN
         /\ r \in Items /\ r.quotes = item.quotes /\ r.key = item.key
         /\ item.key => r.words[1] = item.words[1]
<1> DEFINE ws == [k \in 1 .. Len(item.words) |-> Mapped(Tables[n], item.words[k])]
<1>1. Len(item.words) \in Nat /\ \A k \in 1 .. Len(item.words) : item.words[k] \in Words
  BY ItemShape
<1>2. \A k \in 1 .. Len(item.words) : Mapped(Tables[n], item.words[k]) \in Words
  BY <1>1, WordsMapped
<1>3. ws \in Seq(Words) /\ Len(ws) = Len(item.words)
  BY <1>1, <1>2
<1>4. item.key => ws[1] = item.words[1]
  <2>1. item.key => 1 \in 1 .. Len(item.words) /\ item.words[1] \in DOMAIN Rank
    BY ItemShape
  <2> QED
    BY <2>1, WordsMapped
<1>5. MapItem(Tables[n], item) = [quotes |-> item.quotes, words |-> ws, key |-> item.key]
  BY RewrittenIs
<1> HIDE DEF ws
<1>6. [quotes |-> item.quotes, words |-> ws, key |-> item.key] \in Items
  BY <1>3, <1>4, ItemShape, ItemsMade
<1> QED
  BY <1>4, <1>5, <1>6

LEMMA RewrittenKept ==
  ASSUME NEW item \in Items, NEW n \in DOMAIN Tables, NEW D, n \in D
  PROVE  GistOfItem(MapItem(Tables[n], item), D) = GistOfItem(item, D)
<1> DEFINE ws == [k \in 1 .. Len(item.words) |-> Mapped(Tables[n], item.words[k])]
           r == [quotes |-> item.quotes, words |-> ws, key |-> item.key]
<1>1. MapItem(Tables[n], item) = r
  BY RewrittenIs
<1>2. r \in Items
  BY <1>1, RewrittenItem
<1>3. r.quotes = item.quotes /\ r.words = ws /\ r.key = item.key
  OBVIOUS
<1>4. Len(item.words) \in Nat
  BY ItemShape
<1>5. Len(ws) = Len(item.words) /\ \A k \in 1 .. Len(item.words) : ws[k] = Mapped(Tables[n], item.words[k])
  BY <1>4
<1> HIDE DEF ws, r
<1>6. GistOfItem(r, D) = [quotes |-> item.quotes, words |-> [k \in 1 .. Len(item.words) |-> Gist(ws[k], D)],
                          key |-> item.key]
  BY <1>2, <1>3, <1>5, GistOfItemIs
<1>7. \A k \in 1 .. Len(item.words) : Gist(ws[k], D) = Gist(item.words[k], D)
  BY <1>5, WordKept
<1>8. [k \in 1 .. Len(item.words) |-> Gist(ws[k], D)] = [k \in 1 .. Len(item.words) |-> Gist(item.words[k], D)]
  BY <1>7
<1> QED
  BY <1>1, <1>6, <1>8, GistOfItemIs

-----------------------------------------------------------------------------
(* What no normalizer changes: of a cell *)

\* All items have keys, each its own.
Distinct(items) ==
  /\ \A i \in DOMAIN items : items[i].key
  /\ \A i, j \in DOMAIN items : i # j => items[i].words[1] # items[j].words[1]

\* The cells a chain comes by: an object may meanwhile have the brackets of an array.
Passing ==
  {cell \in [bracket : {"", "[", "{"}, items : Seq(Items)] :
     /\ IsScalar(cell) => Len(cell.items) = 1 /\ cell.items[1].quotes = 0 /\ ~cell.items[1].key
     /\ Keyed(cell) => Distinct(cell.items)}

LEMMA CellsArePassing == Cells \subseteq Passing
<1> SUFFICES ASSUME NEW cell \in Cells PROVE cell \in Passing
  OBVIOUS
<1>1. /\ cell \in [bracket : {"", "[", "{"}, items : Seq(Items)]
      /\ IsScalar(cell) => Len(cell.items) = 1 /\ cell = Scalar(Word(cell))
      /\ Keyed(cell) => Distinct(cell.items)
  BY DEF Cells, Distinct
<1>2. IsScalar(cell) => cell.items[1].quotes = 0 /\ ~cell.items[1].key
  <2> SUFFICES ASSUME IsScalar(cell) PROVE cell.items[1].quotes = 0 /\ ~cell.items[1].key
    OBVIOUS
  <2> DEFINE w == Word(cell)
  <2>1. cell = Scalar(w)
    BY <1>1
  <2> HIDE DEF w
  <2>2. Scalar(w).items[1] = Bare(w)
    BY DEF Scalar
  <2> QED
    BY <2>1, <2>2 DEF Bare
<1> QED
  BY <1>1, <1>2 DEF Passing

LEMMA CellShape ==
  ASSUME NEW cell \in Passing
  PROVE  /\ cell.bracket \in {"", "[", "{"} /\ cell.items \in Seq(Items)
         /\ Len(cell.items) \in Nat /\ DOMAIN cell.items = 1 .. Len(cell.items)
         /\ \A i \in 1 .. Len(cell.items) : cell.items[i] \in Items
         /\ IsScalar(cell) => Len(cell.items) = 1 /\ cell.items[1].quotes = 0 /\ ~cell.items[1].key
         /\ Keyed(cell) => Distinct(cell.items)
<1>1. /\ cell \in [bracket : {"", "[", "{"}, items : Seq(Items)]
      /\ IsScalar(cell) => Len(cell.items) = 1 /\ cell.items[1].quotes = 0 /\ ~cell.items[1].key
      /\ Keyed(cell) => Distinct(cell.items)
  BY DEF Passing
<1>2. cell.items \in Seq(Items) /\ cell.bracket \in {"", "[", "{"}
  BY <1>1
<1> DEFINE its == cell.items
<1>4. its \in Seq(Items)
  BY <1>2
<1> HIDE DEF its
<1>5. Len(its) \in Nat /\ DOMAIN its = 1 .. Len(its) /\ \A i \in 1 .. Len(its) : its[i] \in Items
  BY <1>4
<1>6. Len(cell.items) \in Nat /\ DOMAIN cell.items = 1 .. Len(cell.items)
      /\ \A i \in 1 .. Len(cell.items) : cell.items[i] \in Items
  BY <1>5 DEF its
<1> QED
  BY Zenon, <1>1, <1>2, <1>6

LEMMA CellIs ==
  ASSUME NEW cell \in Passing
  PROVE  cell = [bracket |-> cell.bracket, items |-> cell.items]
<1>1. cell \in [bracket : {"", "[", "{"}, items : Seq(Items)]
  BY DEF Passing
<1> QED
  BY <1>1

Gists(items, D) == [i \in DOMAIN items |-> GistOfItem(items[i], D)]

HasKey(gists) == \E i \in DOMAIN gists : gists[i].key

\* One empty word is nothing.
Bared(words, D) == IF words = <<Gist("", D)>> THEN <<>> ELSE words

\* What stays of the items: of an object whose keys are sorted the set of its members, of an
\* array whose strings lose their quotes the words in it.
Content(gists, D) ==
  IF HasKey(gists)
    THEN <<"object", IF "jsonb_canonical" \in D THEN {gists[i] : i \in DOMAIN gists} ELSE gists>>
    ELSE <<"plain", IF "json_string_array_unquote" \in D
                      THEN Bared(FlattenSeq([i \in DOMAIN gists |-> gists[i].words]), D) ELSE gists>>

Closing(bracket, D) == IF "pg_array_brace_to_bracket" \in D /\ bracket # "" THEN "[" ELSE bracket

\* What every declared normalizer leaves of a cell.
Kernel(cell, D) == <<Closing(cell.bracket, D), Content(Gists(cell.items, D), D)>>

LEMMA GistKeys ==
  ASSUME NEW item \in Items, NEW D
  PROVE  GistOfItem(item, D).key = item.key
BY GistOfItemIs

LEMMA KeyedIsHasKey ==
  ASSUME NEW cell \in Passing, NEW D
  PROVE  HasKey(Gists(cell.items, D)) = Keyed(cell)
<1>1. \A i \in DOMAIN cell.items : cell.items[i] \in Items
  BY CellShape
<1>2. \A i \in DOMAIN cell.items : GistOfItem(cell.items[i], D).key = cell.items[i].key
  BY <1>1, GistKeys
<1> QED
  BY <1>2 DEF HasKey, Gists, Keyed

\* Items replaced by others of the same kind.
LEMMA SameKind ==
  ASSUME NEW cell \in Passing, NEW its \in Seq(Items), Len(its) = Len(cell.items),
         \A i \in 1 .. Len(its) :
           /\ its[i].key = cell.items[i].key /\ its[i].quotes = cell.items[i].quotes
           /\ its[i].key => its[i].words[1] = cell.items[i].words[1]
  PROVE  [bracket |-> cell.bracket, items |-> its] \in Passing
<1> DEFINE new == [bracket |-> cell.bracket, items |-> its]
<1>1. new.bracket = cell.bracket /\ new.items = its
  OBVIOUS
<1>2. new \in [bracket : {"", "[", "{"}, items : Seq(Items)]
  BY CellShape
<1> HIDE DEF new
<1>3. DOMAIN its = 1 .. Len(its) /\ DOMAIN cell.items = 1 .. Len(its)
  <2>1. DOMAIN cell.items = 1 .. Len(its)
    BY CellShape
  <2>2. DOMAIN its = 1 .. Len(its)
    OBVIOUS
  <2> QED
    BY <2>1, <2>2
<1>4. IsScalar(new) => Len(new.items) = 1 /\ new.items[1].quotes = 0 /\ ~new.items[1].key
  <2>1. IsScalar(cell) => Len(its) = 1 /\ cell.items[1].quotes = 0 /\ ~cell.items[1].key
    BY CellShape
  <2>2. Len(its) = 1 => its[1].key = cell.items[1].key /\ its[1].quotes = cell.items[1].quotes
    OBVIOUS
  <2> QED
    BY <1>1, <2>1, <2>2 DEF IsScalar
<1>5. Keyed(new) => Distinct(new.items)
  <2>1. Keyed(new) => Keyed(cell)
    BY <1>1, <1>3 DEF Keyed
  <2>2. Keyed(cell) => Distinct(cell.items)
    BY CellShape
  <2>3. Distinct(cell.items) => Distinct(its)
    BY <1>3 DEF Distinct
  <2> QED
    BY <1>1, <2>1, <2>2, <2>3
<1> QED
  BY <1>2, <1>4, <1>5 DEF Passing, new

LEMMA SameGists ==
  ASSUME NEW cell \in Passing, NEW its \in Seq(Items), Len(its) = Len(cell.items), NEW D,
         \A i \in 1 .. Len(its) : GistOfItem(its[i], D) = GistOfItem(cell.items[i], D)
  PROVE  Kernel([bracket |-> cell.bracket, items |-> its], D) = Kernel(cell, D)
<1>1. DOMAIN cell.items = 1 .. Len(its)
  BY CellShape
<1>2. DOMAIN its = 1 .. Len(its)
  OBVIOUS
<1>3. Gists(its, D) = Gists(cell.items, D)
  BY <1>1, <1>2 DEF Gists
<1> QED
  BY <1>3 DEF Kernel

LEMMA MapWordsIs ==
  ASSUME NEW cell \in Passing, NEW map
  PROVE  MapWords(map, cell) =
           [bracket |-> cell.bracket, items |-> [i \in 1 .. Len(cell.items) |-> MapItem(map, cell.items[i])]]
<1>1. cell = [bracket |-> cell.bracket, items |-> cell.items]
  BY CellIs
<1>2. MapWords(map, cell) = [cell EXCEPT !.items = [i \in DOMAIN cell.items |-> MapItem(map, cell.items[i])]]
  BY Zenon DEF MapWords
<1> DEFINE new == [i \in DOMAIN cell.items |-> MapItem(map, cell.items[i])]
<1> HIDE DEF new
<1>3. [cell EXCEPT !.items = new] = [bracket |-> cell.bracket, items |-> new]
  BY <1>1
<1>4. DOMAIN cell.items = 1 .. Len(cell.items)
  BY CellShape
<1> QED
  BY Zenon, <1>2, <1>3, <1>4 DEF new

\* MapWords of the table of a declared normalizer, and MapScalar.
LEMMA MapWordsKeeps ==
  ASSUME NEW cell \in Passing, NEW D, NEW n \in DOMAIN Tables, n \in D
  PROVE  /\ MapWords(Tables[n], cell) \in Passing
         /\ Kernel(MapWords(Tables[n], cell), D) = Kernel(cell, D)
<1> DEFINE its == [i \in 1 .. Len(cell.items) |-> MapItem(Tables[n], cell.items[i])]
<1>1. MapWords(Tables[n], cell) = [bracket |-> cell.bracket, items |-> its]
  BY MapWordsIs
<1>2. \A i \in 1 .. Len(cell.items) : cell.items[i] \in Items
  BY CellShape
<1>3. \A i \in 1 .. Len(cell.items) : MapItem(Tables[n], cell.items[i]) \in Items
  BY <1>2, RewrittenItem
<1>4. Len(cell.items) \in Nat
  BY CellShape
<1>5. its \in Seq(Items) /\ Len(its) = Len(cell.items)
      /\ \A i \in 1 .. Len(cell.items) : its[i] = MapItem(Tables[n], cell.items[i])
  BY <1>3, <1>4
<1> HIDE DEF its
<1>6. \A i \in 1 .. Len(its) :
        /\ its[i].key = cell.items[i].key /\ its[i].quotes = cell.items[i].quotes
        /\ its[i].key => its[i].words[1] = cell.items[i].words[1]
  BY <1>2, <1>5, RewrittenItem
<1>7. \A i \in 1 .. Len(its) : GistOfItem(its[i], D) = GistOfItem(cell.items[i], D)
  BY <1>2, <1>5, RewrittenKept
<1> QED
  BY <1>1, <1>5, <1>6, <1>7, SameKind, SameGists

LEMMA MapScalarKeeps ==
  ASSUME NEW cell \in Passing, NEW D, NEW n \in DOMAIN Tables, n \in D
  PROVE  /\ MapScalar(Tables[n], cell) \in Passing
         /\ Kernel(MapScalar(Tables[n], cell), D) = Kernel(cell, D)
<1>1. CASE ~IsScalar(cell)
  BY <1>1 DEF MapScalar
<1>2. CASE IsScalar(cell)
  <2> DEFINE item == cell.items[1]
             map == Tables[n]
  <2>1. Len(cell.items) = 1 /\ item.quotes = 0 /\ ~item.key
    BY <1>2, CellShape
  <2>2. item \in Items
    <3>1. \A i \in 1 .. Len(cell.items) : cell.items[i] \in Items
      BY CellShape
    <3> QED
      BY <2>1, <3>1
  <2>3. Len(item.words) = 1 /\ item.key = FALSE
    BY <2>1, <2>2, ItemShape
  <2>4. MapItem(map, item) = Bare(Mapped(map, item.words[1]))
    <3>1. [k \in 1 .. 1 |-> Mapped(map, item.words[k])] = <<Mapped(map, item.words[1])>>
      OBVIOUS
    <3>2. MapItem(map, item) =
            [quotes |-> item.quotes, words |-> [k \in 1 .. Len(item.words) |-> Mapped(map, item.words[k])],
             key |-> item.key]
      BY <2>2, RewrittenIs
    <3> QED
      BY Zenon, <2>1, <2>3, <3>1, <3>2 DEF Bare
  <2>5. MapWords(map, cell) = [bracket |-> "", items |-> <<MapItem(map, item)>>]
    <3>1. [i \in 1 .. 1 |-> MapItem(map, cell.items[i])] = <<MapItem(map, item)>>
      OBVIOUS
    <3>2. MapWords(map, cell) =
            [bracket |-> cell.bracket, items |-> [i \in 1 .. Len(cell.items) |-> MapItem(map, cell.items[i])]]
      BY MapWordsIs
    <3>3. cell.bracket = ""
      BY <1>2 DEF IsScalar
    <3> QED
      BY Zenon, <2>1, <3>1, <3>2, <3>3
  <2>6. MapScalar(map, cell) = MapWords(map, cell)
    BY Zenon, <1>2, <2>4, <2>5 DEF MapScalar, Scalar, Word
  <2> QED
    BY <2>6, MapWordsKeeps
<1> QED
  BY <1>1, <1>2

-----------------------------------------------------------------------------
(* The members of an object, sorted *)

Ascending(items) ==
  \A i, j \in DOMAIN items : i < j => Rank[items[i].words[1]] < Rank[items[j].words[1]]

\* There are two keys to choose from, so an object has at most two members.
LEMMA FewMembers ==
  ASSUME NEW items \in Seq(Items), Distinct(items)
  PROVE  /\ \A i \in 1 .. Len(items) : items[i].words[1] \in {"k1", "k2"}
         /\ Len(items) \in 0 .. 2
<1>1. DOMAIN items = 1 .. Len(items) /\ Len(items) \in Nat /\ \A i \in 1 .. Len(items) : items[i] \in Items
  OBVIOUS
<1>2. \A i \in 1 .. Len(items) : items[i].key
  BY <1>1 DEF Distinct
<1>3. \A i \in 1 .. Len(items) : items[i].words[1] \in DOMAIN Rank
  BY <1>1, <1>2, ItemShape
<1>4. DOMAIN Rank = {"k1", "k2"}
  BY DEF Rank
<1>5. \A i \in 1 .. Len(items) : items[i].words[1] \in {"k1", "k2"}
  BY <1>3, <1>4
<1>6. ~ (Len(items) > 2)
  <2> SUFFICES ASSUME Len(items) > 2 PROVE FALSE
    OBVIOUS
  <2>1. 1 \in 1 .. Len(items) /\ 2 \in 1 .. Len(items) /\ 3 \in 1 .. Len(items)
    BY <1>1
  <2>2. /\ items[1].words[1] # items[2].words[1] /\ items[1].words[1] # items[3].words[1]
        /\ items[2].words[1] # items[3].words[1]
    BY <1>1, <2>1 DEF Distinct
  <2>3. /\ items[1].words[1] \in {"k1", "k2"} /\ items[2].words[1] \in {"k1", "k2"}
        /\ items[3].words[1] \in {"k1", "k2"}
    BY <1>5, <2>1
  <2> QED
    BY <2>2, <2>3
<1> QED
  BY <1>1, <1>5, <1>6

\* They can be sorted.
LEMMA SortedExists ==
  ASSUME NEW items \in Seq(Items), Distinct(items)
  PROVE  \E s \in [DOMAIN items -> ToSet(items)] :
           /\ ToSet(s) = ToSet(items)
           /\ \A i, j \in DOMAIN items : i < j => Rank[s[i].words[1]] < Rank[s[j].words[1]]
<1>1. DOMAIN items = 1 .. Len(items) /\ items \in [DOMAIN items -> ToSet(items)]
  BY DEF ToSet
<1>2. CASE Ascending(items)
  BY <1>1, <1>2 DEF Ascending
<1>3. CASE ~ Ascending(items)
  <2>1. Len(items) \in 0 .. 2 /\ \A i \in 1 .. Len(items) : items[i].words[1] \in {"k1", "k2"}
    BY FewMembers
  <2>2. PICK i, j \in 1 .. Len(items) : i < j /\ ~ (Rank[items[i].words[1]] < Rank[items[j].words[1]])
    BY <1>1, <1>3 DEF Ascending
  <2>3. Len(items) = 2 /\ i = 1 /\ j = 2
    BY <2>1, <2>2
  <2>4. items[1].words[1] # items[2].words[1]
    BY <1>1, <2>3 DEF Distinct
  <2>5. Rank["k1"] = 1 /\ Rank["k2"] = 2
    BY DEF Rank
  <2>6. Rank[items[2].words[1]] < Rank[items[1].words[1]]
    BY <2>1, <2>2, <2>3, <2>4, <2>5
  <2> DEFINE s == [k \in 1 .. 2 |-> IF k = 1 THEN items[2] ELSE items[1]]
  <2>7. ToSet(items) = {items[1], items[2]}
    BY <1>1, <2>3 DEF ToSet
  <2>8. DOMAIN s = 1 .. 2 /\ s[1] = items[2] /\ s[2] = items[1]
    OBVIOUS
  <2>9. s \in [1 .. 2 -> ToSet(items)]
    BY <2>7
  <2> HIDE DEF s
  <2>10. ToSet(s) = ToSet(items)
    <3>1. DOMAIN s = {1, 2}
      BY <2>8
    <3> QED
      BY <2>7, <2>8, <3>1 DEF ToSet
  <2>11. \A k, l \in 1 .. 2 : k < l => Rank[s[k].words[1]] < Rank[s[l].words[1]]
    BY <2>6, <2>8
  <2>12. DOMAIN items = 1 .. 2
    BY <1>1, <2>3
  <2> QED
    BY <2>9, <2>10, <2>11, <2>12
<1> QED
  BY <1>2, <1>3

LEMMA ByKeySorts ==
  ASSUME NEW items \in Seq(Items), Distinct(items)
  PROVE  /\ ByKey(items) \in Seq(Items) /\ Len(ByKey(items)) = Len(items)
         /\ ToSet(ByKey(items)) = ToSet(items)
         /\ Ascending(ByKey(items))
         /\ Distinct(ByKey(items))
<1> DEFINE s == ByKey(items)
<1>1. /\ s \in [DOMAIN items -> ToSet(items)] /\ ToSet(s) = ToSet(items)
      /\ \A i, j \in DOMAIN items : i < j => Rank[s[i].words[1]] < Rank[s[j].words[1]]
  BY SortedExists DEF ByKey
<1>2. DOMAIN items = 1 .. Len(items) /\ Len(items) \in Nat /\ ToSet(items) \subseteq Items
  BY DEF ToSet
<1>3. \A x \in ToSet(items) : x.key
  BY DEF ToSet, Distinct
<1> HIDE DEF s
<1>4. s \in [1 .. Len(items) -> Items]
  BY <1>1, <1>2
<1>5. s \in Seq(Items) /\ Len(s) = Len(items) /\ DOMAIN s = 1 .. Len(items)
  BY <1>2, <1>4
<1>6. Ascending(s)
  BY <1>1, <1>2, <1>5 DEF Ascending
<1>7. \A i \in DOMAIN s : s[i].key
  BY <1>1, <1>2, <1>3, <1>5
<1>8. \A i, j \in 1 .. Len(items) : i # j => s[i].words[1] # s[j].words[1]
  <2> SUFFICES ASSUME NEW i \in 1 .. Len(items), NEW j \in 1 .. Len(items), i < j
               PROVE  s[i].words[1] # s[j].words[1]
    BY <1>2
  <2>1. Rank[s[i].words[1]] < Rank[s[j].words[1]]
    BY <1>1, <1>2
  <2>2. \A k \in {"k1", "k2"} : Rank[k] \in Nat
    BY DEF Rank
  <2>3. s[i] \in ToSet(items)
    BY <1>1, <1>2
  <2>4. PICK k \in DOMAIN items : s[i] = items[k]
    BY <2>3 DEF ToSet
  <2>5. s[i].words[1] \in {"k1", "k2"}
    BY <1>2, <2>4, FewMembers
  <2>6. Rank[s[i].words[1]] \in Nat
    BY <2>2, <2>5
  <2> QED
    BY <2>1, <2>6
<1>9. Distinct(s)
  BY <1>5, <1>7, <1>8 DEF Distinct
<1> QED
  BY <1>1, <1>5, <1>6, <1>9 DEF s

-----------------------------------------------------------------------------
(* Each normalizer of cells keeps the cell passing and its kernel *)

\* To be declared and to change nothing the case does not declare.
Keeps(new, cell, D) == new \in Passing /\ Kernel(new, D) = Kernel(cell, D)

LEMMA SortKeeps ==
  ASSUME NEW cell \in Passing, NEW D, "jsonb_canonical" \in D, IsObject(cell)
  PROVE  Keeps([bracket |-> cell.bracket, items |-> ByKey(cell.items)], cell, D)
<1> DEFINE s == ByKey(cell.items)
           new == [bracket |-> cell.bracket, items |-> s]
<1>1. DOMAIN cell.items = 1 .. Len(cell.items) /\ Len(cell.items) \in Nat /\ cell.items \in Seq(Items)
  BY CellShape
<1>2. Distinct(cell.items)
  <2>1. Keyed(cell) => Distinct(cell.items)
    BY CellShape
  <2>2. \A i \in DOMAIN cell.items : cell.items[i].key
    BY DEF IsObject
  <2> QED
    BY <2>1, <2>2 DEF Keyed, Distinct
<1>3. s \in Seq(Items) /\ Len(s) = Len(cell.items) /\ ToSet(s) = ToSet(cell.items) /\ Distinct(s)
  BY <1>1, <1>2, ByKeySorts
<1>4. cell.bracket = "{"
  BY DEF IsObject
<1> HIDE DEF s
<1>5. new.bracket = "{" /\ new.items = s
  BY <1>4
<1>6. new \in [bracket : {"", "[", "{"}, items : Seq(Items)]
  BY <1>3, <1>4
<1> HIDE DEF new
<1>7. new \in Passing
  BY <1>3, <1>5, <1>6 DEF Passing, IsScalar
<1>8. DOMAIN s = DOMAIN cell.items
  BY <1>1, <1>3
<1>9. Content(Gists(s, D), D) = Content(Gists(cell.items, D), D)
  <2> DEFINE G == Gists(s, D)
             H == Gists(cell.items, D)
  <2>1. /\ DOMAIN G = DOMAIN cell.items /\ \A i \in DOMAIN cell.items : G[i] = GistOfItem(s[i], D)
        /\ DOMAIN H = DOMAIN cell.items /\ \A i \in DOMAIN cell.items : H[i] = GistOfItem(cell.items[i], D)
    BY <1>8 DEF Gists
  <2>2. CASE DOMAIN cell.items = {}
    <3>1. G = H
      BY <1>8, <2>2 DEF Gists
    <3> QED
      BY <3>1
  <2>3. CASE DOMAIN cell.items # {}
    <3>1. \A i \in DOMAIN cell.items : s[i] \in Items /\ cell.items[i] \in Items
      BY <1>1, <1>3
    <3>2. \A i \in DOMAIN cell.items : s[i].key /\ cell.items[i].key
      BY <1>2, <1>3, <1>8 DEF Distinct
    <3>3. \A i \in DOMAIN cell.items : G[i].key /\ H[i].key
      BY <2>1, <3>1, <3>2, GistKeys
    <3> HIDE DEF G, H
    <3>4. HasKey(G) /\ HasKey(H)
      BY <2>1, <2>3, <3>3 DEF HasKey
    <3>5. \A i \in DOMAIN cell.items : \E j \in DOMAIN cell.items : s[i] = cell.items[j]
      BY <1>3, <1>8 DEF ToSet
    <3>6. \A i \in DOMAIN cell.items : \E j \in DOMAIN cell.items : cell.items[i] = s[j]
      BY <1>3, <1>8 DEF ToSet
    <3>7. \A i \in DOMAIN cell.items : \E j \in DOMAIN cell.items : G[i] = H[j]
      BY <2>1, <3>5
    <3>8. \A i \in DOMAIN cell.items : \E j \in DOMAIN cell.items : H[i] = G[j]
      BY <2>1, <3>6
    <3>9. {G[i] : i \in DOMAIN G} = {H[i] : i \in DOMAIN H}
      BY <2>1, <3>7, <3>8
    <3>10. /\ Content(G, D) = <<"object", {G[i] : i \in DOMAIN G}>>
           /\ Content(H, D) = <<"object", {H[i] : i \in DOMAIN H}>>
      BY Zenon, <3>4 DEF Content
    <3> QED
      BY <3>9, <3>10 DEF G, H
  <2> QED
    BY <2>2, <2>3
<1>10. Kernel(new, D) = Kernel(cell, D)
  BY <1>4, <1>5, <1>9 DEF Kernel
<1> QED
  BY <1>7, <1>10 DEF Keeps, new, s

\* A number keeps its place, only its digits change.
LEMMA NumberRewritten ==
  ASSUME NEW item \in Items, IsNumber(item), ~item.key
  PROVE  Bare(Jsons[item.words[1]]) = MapItem(Tables["jsonb_canonical"], item)
<1>1. item.quotes = 0 /\ item.words[1] \in Numbers
  BY DEF IsNumber
<1>2. Len(item.words) = 1 /\ item.key = FALSE
  BY <1>1, ItemShape
<1>3. Mapped(Jsons, item.words[1]) = Jsons[item.words[1]]
  BY <1>1 DEF Mapped, Jsons
<1>4. Tables["jsonb_canonical"] = Jsons
  BY DEF Tables
<1>5. [k \in 1 .. 1 |-> Mapped(Jsons, item.words[k])] = <<Mapped(Jsons, item.words[1])>>
  OBVIOUS
<1>6. MapItem(Jsons, item) =
        [quotes |-> item.quotes, words |-> [k \in 1 .. Len(item.words) |-> Mapped(Jsons, item.words[k])],
         key |-> item.key]
  BY RewrittenIs
<1> QED
  BY Zenon, <1>1, <1>2, <1>3, <1>4, <1>5, <1>6 DEF Bare

LEMMA JsonbKeeps ==
  ASSUME NEW cell \in Passing, NEW D, "jsonb_canonical" \in D
  PROVE  Keeps(JsonbCanonical(cell), cell, D)
<1> DEFINE n == "jsonb_canonical"
<1>1. n \in DOMAIN Tables /\ Tables[n] = Jsons
  BY DEF Tables
<1>2. cell = [bracket |-> cell.bracket, items |-> cell.items]
  BY CellIs
<1>3. CASE IsObject(cell)
  <2> DEFINE new == [bracket |-> cell.bracket, items |-> ByKey(cell.items)]
  <2>1. Keeps(new, cell, D)
    BY <1>3, SortKeeps
  <2>2. [cell EXCEPT !.items = ByKey(@)] = new
    BY <1>2
  <2>3. JsonbCanonical(cell) = MapWords(Jsons, new)
    <3>1. ~IsArray(cell)
      BY <1>3 DEF IsObject, IsArray
    <3> QED
      BY Zenon, <1>3, <2>2, <3>1 DEF JsonbCanonical
  <2> HIDE DEF new
  <2>4. new \in Passing /\ Kernel(new, D) = Kernel(cell, D)
    BY <2>1 DEF Keeps
  <2>5. MapWords(Tables[n], new) \in Passing /\ Kernel(MapWords(Tables[n], new), D) = Kernel(new, D)
    BY <1>1, <2>4, MapWordsKeeps
  <2> QED
    BY <1>1, <2>3, <2>4, <2>5 DEF Keeps
<1>4. CASE ~IsObject(cell) /\ IsArray(cell)
  <2> DEFINE its == [i \in 1 .. Len(cell.items) |->
                       IF IsNumber(cell.items[i]) THEN Bare(Jsons[cell.items[i].words[1]]) ELSE cell.items[i]]
             new == [bracket |-> cell.bracket, items |-> its]
  <2>1. /\ DOMAIN cell.items = 1 .. Len(cell.items) /\ Len(cell.items) \in Nat
        /\ \A i \in 1 .. Len(cell.items) : cell.items[i] \in Items
    BY CellShape
  <2>2. JsonbCanonical(cell) = [cell EXCEPT !.items = its]
    BY Zenon, <1>4, <2>1 DEF JsonbCanonical
  <2>3. \A i \in 1 .. Len(cell.items) : ~cell.items[i].key
    BY <1>4, <2>1 DEF IsArray
  <2>4. \A i \in 1 .. Len(cell.items) :
          its[i] = MapItem(Tables[n], cell.items[i]) \/ its[i] = cell.items[i]
    BY <2>1, <2>3, NumberRewritten
  <2>5. its = [i \in 1 .. Len(cell.items) |-> its[i]]
    OBVIOUS
  <2> HIDE DEF its
  <2>6. \A x \in Items :
          LET r == MapItem(Tables[n], x) IN
          /\ r \in Items /\ r.quotes = x.quotes /\ r.key = x.key /\ (x.key => r.words[1] = x.words[1])
          /\ GistOfItem(r, D) = GistOfItem(x, D)
    BY <1>1, RewrittenItem, RewrittenKept
  <2>7. \A i \in 1 .. Len(cell.items) :
          /\ its[i] \in Items
          /\ its[i].key = cell.items[i].key /\ its[i].quotes = cell.items[i].quotes
          /\ its[i].key => its[i].words[1] = cell.items[i].words[1]
          /\ GistOfItem(its[i], D) = GistOfItem(cell.items[i], D)
    <3> TAKE i \in 1 .. Len(cell.items)
    <3>1. cell.items[i] \in Items
      BY <2>1
    <3>2. CASE its[i] = cell.items[i]
      BY <3>1, <3>2
    <3>3. CASE its[i] = MapItem(Tables[n], cell.items[i])
      BY <2>6, <3>1, <3>3
    <3> QED
      BY <2>4, <3>2, <3>3
  <2>8. its \in Seq(Items) /\ Len(its) = Len(cell.items)
    <3>1. its \in [1 .. Len(cell.items) -> Items]
      BY <2>5, <2>7
    <3> QED
      BY <2>1, <3>1
  <2>9. [cell EXCEPT !.items = its] = new
    BY <1>2
  <2>10. new \in Passing
    BY <2>7, <2>8, SameKind
  <2>11. Kernel(new, D) = Kernel(cell, D)
    BY <2>7, <2>8, SameGists
  <2> QED
    BY <2>2, <2>9, <2>10, <2>11 DEF Keeps
<1>5. CASE ~IsObject(cell) /\ ~IsArray(cell)
  <2>1. JsonbCanonical(cell) = cell
    BY <1>5 DEF JsonbCanonical
  <2> QED
    BY <2>1 DEF Keeps
<1> QED
  BY <1>3, <1>4, <1>5

LEMMA BraceToBracketKeeps ==
  ASSUME NEW cell \in Passing, NEW D, "pg_array_brace_to_bracket" \in D
  PROVE  Keeps(PgArrayBraceToBracket(cell), cell, D)
<1>1. CASE cell.bracket # "{"
  BY <1>1 DEF PgArrayBraceToBracket, Keeps
<1>2. CASE cell.bracket = "{"
  <2> DEFINE new == [bracket |-> "[", items |-> cell.items]
  <2>1. cell = [bracket |-> cell.bracket, items |-> cell.items]
    BY CellIs
  <2>2. [cell EXCEPT !.bracket = "["] = new
    BY <2>1
  <2>3. PgArrayBraceToBracket(cell) = new
    BY Zenon, <1>2, <2>2 DEF PgArrayBraceToBracket
  <2>4. cell.items \in Seq(Items) /\ (Keyed(cell) => Distinct(cell.items))
    BY CellShape
  <2>5. new.bracket = "[" /\ new.items = cell.items /\ new \in [bracket : {"", "[", "{"}, items : Seq(Items)]
    BY <2>4
  <2> HIDE DEF new
  <2>6. new \in Passing
    BY <2>4, <2>5 DEF Passing, IsScalar, Keyed
  <2>7. Closing(new.bracket, D) = Closing(cell.bracket, D)
    BY <1>2, <2>5 DEF Closing
  <2>8. Kernel(new, D) = Kernel(cell, D)
    BY <2>5, <2>7 DEF Kernel
  <2> QED
    BY <2>3, <2>6, <2>8 DEF Keeps
<1> QED
  BY <1>1, <1>2

\* What stays of the words of an item.
GistWords(D) == [item \in Items |-> GistOfItem(item, D).words]

LEMMA GistWordsIs ==
  ASSUME NEW item \in Items, NEW D
  PROVE  /\ GistWords(D)[item] = [k \in 1 .. Len(item.words) |-> Gist(item.words[k], D)]
         /\ GistWords(D)[item] \in Seq({Gist(w, D) : w \in Words})
         /\ Len(GistWords(D)[item]) = Len(item.words)
<1> DEFINE ws == [k \in 1 .. Len(item.words) |-> Gist(item.words[k], D)]
           T == {Gist(w, D) : w \in Words}
<1>1. GistWords(D)[item] = GistOfItem(item, D).words
  BY DEF GistWords
<1>2. GistOfItem(item, D) = [quotes |-> item.quotes, words |-> ws, key |-> item.key]
  BY GistOfItemIs
<1>3. GistWords(D)[item] = ws
  BY <1>1, <1>2
<1>4. item.words \in Seq(Words) /\ Len(item.words) \in Nat
  BY ItemShape
<1>5. \A k \in 1 .. Len(item.words) : item.words[k] \in Words
  BY <1>4
<1>6. \A k \in 1 .. Len(item.words) : Gist(item.words[k], D) \in T
  BY <1>5
<1> HIDE DEF T
<1>7. ws \in Seq(T) /\ Len(ws) = Len(item.words)
  BY <1>4, <1>6
<1> QED
  BY <1>3, <1>7 DEF T

LEMMA FlattenOne ==
  ASSUME NEW S, NEW part \in Seq(S)
  PROVE  FlattenSeq(<<part>>) = part
<1>1. <<>> \in Seq(Seq(S))
  OBVIOUS
<1>2. FlattenSeq(Append(<<>>, part)) = FlattenSeq(<<>>) \o part
  BY <1>1, FlattenMore
<1>3. Append(<<>>, part) = <<part>>
  OBVIOUS
<1>4. <<>> \o part = part
  BY ConcatEmptySeq
<1> QED
  BY <1>2, <1>3, <1>4, FlattenNothing

Plain == {item \in Items : ~item.key}

LEMMA PlainMade ==
  ASSUME NEW q \in 0 .. 2, NEW ws \in Seq(Words), Len(ws) >= 1, q = 0 => Len(ws) = 1
  PROVE  [quotes |-> q, words |-> ws, key |-> FALSE] \in Plain
<1> DEFINE new == [quotes |-> q, words |-> ws, key |-> FALSE]
<1>1. ws # <<>>
  OBVIOUS
<1>2. new.quotes = q /\ new.words = ws /\ ~new.key
  OBVIOUS
<1>3. new \in [quotes : 0 .. 2, words : Seq(Words), key : BOOLEAN]
  OBVIOUS
<1> HIDE DEF new
<1>4. new \in Items
  BY <1>1, <1>2, <1>3 DEF Items
<1> QED
  BY <1>2, <1>4 DEF Plain, new

LEMMA UnquotedKeepsWords ==
  ASSUME NEW item \in Plain, item.quotes > 0, NEW D
  PROVE  /\ Unquoted(item) \in Seq(Plain)
         /\ FlattenSeq(Each(GistWords(D), Unquoted(item))) = GistWords(D)[item]
<1> DEFINE h == GistWords(D)
           T == {Gist(w, D) : w \in Words}
<1>1. item \in Items /\ item.key = FALSE
  BY ItemShape DEF Plain
<1>2. h[item] = [k \in 1 .. Len(item.words) |-> Gist(item.words[k], D)] /\ h[item] \in Seq(T)
      /\ Len(h[item]) = Len(item.words)
  BY <1>1, GistWordsIs
<1>3. /\ item.quotes \in 0 .. 2 /\ item.words \in Seq(Words)
      /\ Len(item.words) \in Nat /\ Len(item.words) >= 1 /\ DOMAIN item.words = 1 .. Len(item.words)
  BY <1>1, ItemShape
<1>4. item = [quotes |-> item.quotes, words |-> item.words, key |-> item.key]
  BY <1>1, ItemShape
<1> HIDE DEF h, T
<1>5. CASE item.quotes = 2
  <2> DEFINE new == [quotes |-> 1, words |-> item.words, key |-> FALSE]
  <2>1. [item EXCEPT !.quotes = 1] = new
    <3>1. [item EXCEPT !.quotes = 1] = [quotes |-> 1, words |-> item.words, key |-> item.key]
      BY <1>4
    <3> QED
      BY Zenon, <1>1, <3>1
  <2>2. new \in Plain
    <3>1. 1 \in 0 .. 2 /\ 1 # 0
      OBVIOUS
    <3> QED
      BY <1>3, <3>1, PlainMade
  <2>3. Unquoted(item) = <<new>>
    BY <1>5, <2>1 DEF Unquoted
  <2>4. new.words = item.words
    OBVIOUS
  <2> HIDE DEF new
  <2>5. new \in Items
    BY <2>2 DEF Plain
  <2>6. h[new] = h[item]
    BY <1>2, <2>4, <2>5, GistWordsIs DEF h
  <2>7. Each(h, <<new>>) = <<h[new]>>
    BY DEF Each
  <2>8. FlattenSeq(<<h[item]>>) = h[item]
    BY <1>2, FlattenOne
  <2>9. <<new>> \in Seq(Plain)
    BY <2>2
  <2> QED
    BY <2>3, <2>6, <2>7, <2>8, <2>9 DEF h
<1>6. CASE item.quotes = 1
  <2> DEFINE bare == [k \in 1 .. Len(item.words) |-> Bare(item.words[k])]
             gw == h[item]
  <2>1. Unquoted(item) = bare
    <3>1. item.quotes # 2
      BY <1>6
    <3> QED
      BY Zenon, <1>3, <3>1 DEF Unquoted
  <2>2. \A k \in 1 .. Len(item.words) : item.words[k] \in Words
    BY <1>3
  <2>3. \A w \in Words : Bare(w) \in Plain /\ h[Bare(w)] = <<Gist(w, D)>>
    <3> TAKE w \in Words
    <3> DEFINE b == [quotes |-> 0, words |-> <<w>>, key |-> FALSE]
    <3>1. <<w>> \in Seq(Words) /\ Len(<<w>>) = 1
      OBVIOUS
    <3>2. b \in Plain
      <4>1. 0 \in 0 .. 2 /\ Len(<<w>>) >= 1
        OBVIOUS
      <4> QED
        BY <3>1, <4>1, PlainMade
    <3>3. b.words = <<w>>
      OBVIOUS
    <3> HIDE DEF b
    <3>4. h[b] = [k \in 1 .. Len(b.words) |-> Gist(b.words[k], D)]
      BY <3>2, GistWordsIs DEF h, Plain
    <3>5. [k \in 1 .. 1 |-> Gist(<<w>>[k], D)] = <<Gist(w, D)>>
      OBVIOUS
    <3>6. h[b] = <<Gist(w, D)>>
      BY <3>1, <3>3, <3>4, <3>5
    <3> QED
      BY <3>2, <3>6 DEF Bare, b
  <2>4. \A k \in 1 .. Len(item.words) : bare[k] \in Plain /\ h[bare[k]] = <<Gist(item.words[k], D)>>
    BY <2>2, <2>3
  <2>5. bare \in [1 .. Len(item.words) -> Plain]
    BY <2>4
  <2>6. DOMAIN bare = 1 .. Len(item.words)
    OBVIOUS
  <2> HIDE DEF bare
  <2>7. bare \in Seq(Plain)
    BY <1>3, <2>5
  <2>8. DOMAIN gw = 1 .. Len(item.words) /\ \A k \in 1 .. Len(item.words) : gw[k] = Gist(item.words[k], D)
    BY <1>2
  <2> HIDE DEF gw
  <2>9. Each(h, bare) = [k \in DOMAIN gw |-> <<gw[k]>>]
    BY <2>4, <2>6, <2>8 DEF Each
  <2>10. FlattenSeq([k \in DOMAIN gw |-> <<gw[k]>>]) = gw
    BY <1>2, FlattenSingles DEF gw
  <2> QED
    BY <2>1, <2>7, <2>9, <2>10 DEF gw, h
<1> QED
  BY <1>3, <1>5, <1>6

LEMMA ContentOfPlain ==
  ASSUME NEW its \in Seq(Plain), NEW D, "json_string_array_unquote" \in D
  PROVE  Content(Gists(its, D), D) = <<"plain", Bared(FlattenSeq(Each(GistWords(D), its)), D)>>
<1> DEFINE G == Gists(its, D)
<1>1. DOMAIN G = DOMAIN its /\ \A i \in DOMAIN its : G[i] = GistOfItem(its[i], D)
  BY DEF Gists
<1>2. \A i \in DOMAIN its : its[i] \in Plain
  OBVIOUS
<1>3. \A i \in DOMAIN its : its[i] \in Items /\ ~its[i].key
  BY <1>2 DEF Plain
<1>4. \A i \in DOMAIN its : ~G[i].key
  BY <1>1, <1>3, GistKeys
<1>5. \A i \in DOMAIN its : G[i].words = GistWords(D)[its[i]]
  BY <1>1, <1>3 DEF GistWords
<1> HIDE DEF G
<1>6. ~HasKey(G)
  BY <1>1, <1>4 DEF HasKey
<1>7. Content(G, D) = <<"plain", Bared(FlattenSeq([i \in DOMAIN G |-> G[i].words]), D)>>
  BY Zenon, <1>6 DEF Content
<1>8. [i \in DOMAIN G |-> G[i].words] = Each(GistWords(D), its)
  BY <1>1, <1>5 DEF Each
<1> QED
  BY <1>7, <1>8 DEF G

\* Nor does it matter that nothing is to be seen of one empty part.
LEMMA JoinedKeeps ==
  ASSUME NEW its \in Seq(Plain), NEW D, "json_string_array_unquote" \in D
  PROVE  Joined(its) \in Seq(Plain) /\ Content(Gists(Joined(its), D), D) = Content(Gists(its, D), D)
<1>1. CASE its # <<Bare("")>>
  BY <1>1 DEF Joined
<1>2. CASE its = <<Bare("")>>
  <2>1. Joined(its) = <<>> /\ <<>> \in Seq(Plain)
    <3>1. Joined(its) = <<>>
      BY Zenon, <1>2 DEF Joined
    <3> QED
      BY <3>1
  <2> DEFINE h == GistWords(D)
             b == Bare("")
  <2>10. its = <<b>> /\ b.words = <<"">>
    BY Zenon, <1>2, Bare("").words = <<"">> DEF Bare
  <2> HIDE DEF b
  <2>2. b \in Items /\ b.words = <<"">>
    <3>3. <<b>>[1] = b /\ 1 \in 1 .. Len(<<b>>)
      OBVIOUS
    <3>1. its[1] = b /\ 1 \in 1 .. Len(its)
      BY Zenon, <2>10, <3>3
    <3>2. b \in Plain
      BY <3>1, ElementOfSeq
    <3> QED
      BY <2>10, <3>2 DEF Plain
  <2>3. /\ h[b] = [k \in 1 .. Len(b.words) |-> Gist(b.words[k], D)]
        /\ h[b] \in Seq({Gist(w, D) : w \in Words})
    BY <2>2, GistWordsIs
  <2>4. [k \in 1 .. 1 |-> Gist(<<"">>[k], D)] = <<Gist("", D)>> /\ Len(<<"">>) = 1
    <3>1. \A w : [k \in 1 .. 1 |-> Gist(<<w>>[k], D)] = <<Gist(w, D)>>
      OBVIOUS
    <3>2. Len(<<"">>) = 1
      OBVIOUS
    <3> QED
      BY Zenon, <3>1, <3>2
  <2>5. h[b] = <<Gist("", D)>>
    BY Zenon, <2>2, <2>3, <2>4
  <2>6. FlattenSeq(<<h[b]>>) = h[b]
    BY <2>3, FlattenOne
  <2> HIDE DEF h
  <2>7. Each(h, <<b>>) = <<h[b]>> /\ Each(h, <<>>) = <<>>
    BY DEF Each
  <2>8. Content(Gists(its, D), D) = <<"plain", <<>>>>
    <3>1. Content(Gists(its, D), D) = <<"plain", Bared(FlattenSeq(Each(h, its)), D)>>
      BY ContentOfPlain DEF h
    <3>2. FlattenSeq(Each(h, its)) = <<Gist("", D)>>
      BY <1>2, <2>5, <2>6, <2>7 DEF b
    <3> QED
      BY <3>1, <3>2 DEF Bared
  <2>9. Content(Gists(<<>>, D), D) = <<"plain", <<>>>>
    <3>1. Content(Gists(<<>>, D), D) = <<"plain", Bared(FlattenSeq(Each(h, <<>>)), D)>>
      BY <2>1, ContentOfPlain DEF h
    <3>2. FlattenSeq(Each(h, <<>>)) = <<>>
      BY <2>7, FlattenNothing
    <3> QED
      BY <3>1, <3>2 DEF Bared
  <2> QED
    BY <2>1, <2>8, <2>9
<1> QED
  BY <1>1, <1>2

LEMMA UnquoteKeeps ==
  ASSUME NEW cell \in Passing, NEW D, "json_string_array_unquote" \in D
  PROVE  Keeps(JsonStringArrayUnquote(cell), cell, D)
<1> DEFINE strings == IsArray(cell) /\ \A i \in DOMAIN cell.items : cell.items[i].quotes > 0
<1>1. CASE ~strings
  <2>1. JsonStringArrayUnquote(cell) = cell
    BY Zenon, <1>1 DEF JsonStringArrayUnquote
  <2> QED
    BY <2>1 DEF Keeps
<1>2. CASE strings
  <2> DEFINE h == GistWords(D)
             q == [i \in 1 .. Len(cell.items) |-> Unquoted(cell.items[i])]
             flat == FlattenSeq(q)
             its == Joined(flat)
             new == [bracket |-> cell.bracket, items |-> its]
  <2>1. /\ DOMAIN cell.items = 1 .. Len(cell.items) /\ Len(cell.items) \in Nat
        /\ \A i \in 1 .. Len(cell.items) : cell.items[i] \in Items
    BY CellShape
  <2>2. JsonStringArrayUnquote(cell) = [cell EXCEPT !.items = its]
    BY Zenon, <1>2, <2>1 DEF JsonStringArrayUnquote
  <2>3. \A i \in 1 .. Len(cell.items) : cell.items[i].quotes > 0 /\ cell.items[i] \in Plain
    <3>1. \A i \in 1 .. Len(cell.items) : cell.items[i].quotes > 0 /\ ~cell.items[i].key
      BY <1>2, <2>1 DEF IsArray
    <3> QED
      BY <2>1, <3>1 DEF Plain
  <2>4. cell.bracket = "["
    BY <1>2 DEF IsArray
  <2>5. \A i \in 1 .. Len(cell.items) :
          q[i] \in Seq(Plain) /\ FlattenSeq(Each(h, q[i])) = h[cell.items[i]]
    BY <2>3, UnquotedKeepsWords
  <2>6. q \in [1 .. Len(cell.items) -> Seq(Plain)]
    BY <2>5
  <2>7. DOMAIN q = 1 .. Len(cell.items)
    OBVIOUS
  <2> HIDE DEF q
  <2>8. q \in Seq(Seq(Plain))
    BY <2>1, <2>6
  <2>19. flat \in Seq(Plain)
    BY <2>8, Flattened
  <2> HIDE DEF flat
  <2>9. its \in Seq(Plain) /\ Content(Gists(its, D), D) = Content(Gists(flat, D), D)
    BY <2>19, JoinedKeeps
  <2> HIDE DEF its
  <2>10. cell = [bracket |-> cell.bracket, items |-> cell.items]
    BY CellIs
  <2>11. [cell EXCEPT !.items = its] = new
    BY <2>10
  <2>12. new.bracket = "[" /\ new.items = its
    BY <2>4
  <2>13. its \in Seq(Items) /\ \A i \in DOMAIN its : ~its[i].key
    <3>1. \A i \in DOMAIN its : its[i] \in Plain
      BY <2>9
    <3>2. Plain \subseteq Items
      BY DEF Plain
    <3>3. its \in Seq(Items)
      BY <2>9, <3>2
    <3> QED
      BY <3>1, <3>3 DEF Plain
  <2>14. new \in [bracket : {"", "[", "{"}, items : Seq(Items)]
    BY <2>4, <2>13
  <2> HIDE DEF new
  <2>15. new \in Passing
    BY <2>12, <2>13, <2>14 DEF Passing, IsScalar, Keyed
  <2>16. cell.items \in Seq(Plain)
    <3>1. cell.items \in Seq(Items)
      BY CellShape
    <3> QED
      BY <2>1, <2>3, <3>1
  <2>17. Content(Gists(its, D), D) = Content(Gists(cell.items, D), D)
    <3>1. \A x \in Plain : h[x] \in Seq({Gist(w, D) : w \in Words})
      BY GistWordsIs DEF Plain
    <3>2. FlattenSeq(Each(h, flat)) = FlattenSeq([i \in DOMAIN q |-> FlattenSeq(Each(h, q[i]))])
      <4> HIDE DEF h
      <4> DEFINE T == {Gist(w, D) : w \in Words}
      <4>1. \A x \in Plain : h[x] \in Seq(T)
        BY <3>1
      <4> HIDE DEF T
      <4> QED
        BY <2>8, <4>1, FlattenEach DEF flat
    <3>3. [i \in DOMAIN q |-> FlattenSeq(Each(h, q[i]))] = Each(h, cell.items)
      BY <2>1, <2>5, <2>7 DEF Each
    <3> QED
      BY <2>9, <2>16, <2>19, <3>2, <3>3, ContentOfPlain
  <2>18. Kernel(new, D) = Kernel(cell, D)
    BY <2>4, <2>12, <2>17 DEF Kernel
  <2> QED
    BY <2>2, <2>11, <2>15, <2>18 DEF Keeps
<1> QED
  BY <1>1, <1>2

LEMMA OfCellKeeps ==
  ASSUME NEW cell \in Passing, NEW D, NEW n \in Normalizer, n \in D,
         n \notin {"timestamp_iso_to_seconds", "strip_trailing_ws", "error_first_line_only"}
  PROVE  Keeps(OfCell(n, cell), cell, D)
<1>1. /\ Tables["boolean_tf_to_int"] = Bits /\ Tables["pg_null_blank_to_null"] = Nulls
      /\ Tables["numeric_normalize"] = Doubles
      /\ {"boolean_tf_to_int", "pg_null_blank_to_null", "numeric_normalize"} \subseteq DOMAIN Tables
  BY DEF Tables
<1>2. CASE n \in {"boolean_tf_to_int", "pg_null_blank_to_null", "numeric_normalize"}
  <2>1. Keeps(MapScalar(Tables[n], cell), cell, D)
    BY <1>1, <1>2, MapScalarKeeps DEF Keeps
  <2>2. OfCell(n, cell) = MapScalar(Tables[n], cell)
    BY <1>1, <1>2 DEF OfCell
  <2> QED
    BY <2>1, <2>2
<1>3. CASE n = "jsonb_canonical"
  BY <1>3, JsonbKeeps DEF OfCell
<1>4. CASE n = "pg_array_brace_to_bracket"
  BY <1>4, BraceToBracketKeeps DEF OfCell
<1>5. CASE n = "json_string_array_unquote"
  BY <1>5, UnquoteKeeps DEF OfCell
<1> QED
  BY <1>2, <1>3, <1>4, <1>5 DEF Normalizer

-----------------------------------------------------------------------------
(* What no normalizer changes: of a text *)

PassingTexts == Seq(Seq(Passing))

Rows(text, D) == IF "error_first_line_only" \in D THEN DOMAIN text \cap {1} ELSE DOMAIN text

KernelRow(row, D) == [c \in DOMAIN row |-> Kernel(row[c], D)]

Kernels(text, D) == [r \in Rows(text, D) |-> KernelRow(text[r], D)]

TextKeeps(new, text, D) ==
  new \in PassingTexts /\ DOMAIN new \subseteq DOMAIN text /\ Kernels(new, D) = Kernels(text, D)

\* A text changed cell by cell.
LEMMA CellwiseKeeps ==
  ASSUME NEW text \in PassingTexts, NEW D, NEW cells,
         \A r \in DOMAIN text : \A c \in DOMAIN text[r] : Keeps(cells[r][c], text[r][c], D)
  PROVE  TextKeeps([r \in DOMAIN text |-> [c \in DOMAIN text[r] |-> cells[r][c]]], text, D)
<1> DEFINE new == [r \in DOMAIN text |-> [c \in DOMAIN text[r] |-> cells[r][c]]]
<1>1. DOMAIN text = 1 .. Len(text) /\ Len(text) \in Nat /\ \A r \in DOMAIN text : text[r] \in Seq(Passing)
  BY DEF PassingTexts
<1>2. \A r \in DOMAIN text : DOMAIN text[r] = 1 .. Len(text[r]) /\ Len(text[r]) \in Nat
  BY <1>1
<1>3. \A r \in DOMAIN text : \A c \in DOMAIN text[r] :
        cells[r][c] \in Passing /\ Kernel(cells[r][c], D) = Kernel(text[r][c], D)
  BY DEF Keeps
<1>4. DOMAIN new = DOMAIN text /\ \A r \in DOMAIN text : DOMAIN new[r] = DOMAIN text[r]
      /\ \A c \in DOMAIN text[r] : new[r][c] = cells[r][c]
  OBVIOUS
<1>5. \A r \in DOMAIN text : new[r] \in [DOMAIN text[r] -> Passing]
  BY <1>3
<1>6. new \in [1 .. Len(text) -> Seq(Passing)]
  <2>1. ASSUME NEW r \in 1 .. Len(text) PROVE new[r] \in Seq(Passing)
    <3>1. new[r] \in [1 .. Len(text[r]) -> Passing] /\ Len(text[r]) \in Nat
      BY <1>1, <1>2, <1>5
    <3> HIDE DEF new
    <3> QED
      BY <3>1
  <2> QED
    BY <1>1, <2>1
<1> HIDE DEF new
<1>7. new \in PassingTexts
  <2>1. Len(text) \in Nat
    BY <1>1
  <2> DEFINE S == Seq(Passing)
  <2>2. new \in [1 .. Len(text) -> S]
    BY <1>6
  <2> HIDE DEF S
  <2>3. new \in Seq(S)
    BY <2>1, <2>2
  <2> QED
    BY <2>3 DEF PassingTexts, S
<1>8. Rows(new, D) = Rows(text, D) /\ Rows(text, D) \subseteq DOMAIN text
  BY <1>4 DEF Rows
<1>9. \A r \in DOMAIN text : KernelRow(new[r], D) = KernelRow(text[r], D)
  BY <1>3, <1>4 DEF KernelRow
<1>10. Kernels(new, D) = Kernels(text, D)
  BY <1>8, <1>9 DEF Kernels
<1> QED
  BY <1>4, <1>7, <1>10 DEF TextKeeps, new

LEMMA FirstLineKeeps ==
  ASSUME NEW text \in PassingTexts, NEW D, "error_first_line_only" \in D
  PROVE  TextKeeps(ErrorFirstLineOnly(text), text, D) /\ DOMAIN ErrorFirstLineOnly(text) \subseteq {1}
<1> DEFINE new == ErrorFirstLineOnly(text)
<1>1. DOMAIN text = 1 .. Len(text) /\ Len(text) \in Nat /\ \A r \in DOMAIN text : text[r] \in Seq(Passing)
  BY DEF PassingTexts
<1>2. new = [r \in DOMAIN text \cap {1} |-> text[r]]
  BY DEF ErrorFirstLineOnly
<1> HIDE DEF new
<1>3. PICK n \in Nat : DOMAIN text \cap {1} = 1 .. n
  <2>1. CASE Len(text) = 0
    BY <1>1, <2>1
  <2>2. CASE Len(text) # 0
    <3>1. DOMAIN text \cap {1} = 1 .. 1
      BY <1>1, <2>2
    <3> QED
      BY <3>1
  <2> QED
    BY <2>1, <2>2
<1>4. new \in [1 .. n -> Seq(Passing)]
  BY <1>1, <1>2, <1>3
<1>5. new \in PassingTexts
  BY <1>4 DEF PassingTexts
<1>6. DOMAIN new = DOMAIN text \cap {1} /\ \A r \in DOMAIN new : new[r] = text[r]
  BY <1>2
<1>7. Rows(new, D) = Rows(text, D) /\ Rows(new, D) = DOMAIN new
  BY <1>6 DEF Rows
<1>8. Kernels(new, D) = Kernels(text, D)
  BY <1>6, <1>7 DEF Kernels
<1> QED
  BY <1>5, <1>6, <1>8 DEF TextKeeps, new

\* Each declared normalizer.
LEMMA ApplyKeeps ==
  ASSUME NEW text \in PassingTexts, NEW D, NEW n \in Normalizer, n \in D
  PROVE  TextKeeps(Apply(text, n), text, D)
<1>1. \A r \in DOMAIN text : \A c \in DOMAIN text[r] : text[r][c] \in Passing
  BY DEF PassingTexts
<1>2. \A cell \in Passing : Keeps(cell, cell, D)
  BY DEF Keeps
<1>3. CASE n = "timestamp_iso_to_seconds"
  <2> DEFINE cells == [r \in DOMAIN text |-> [c \in DOMAIN text[r] |->
                         IF AfterColon(text, r, c) THEN MapWords(Cuts, text[r][c]) ELSE text[r][c]]]
  <2>1. n \in DOMAIN Tables /\ Tables[n] = Cuts
    BY <1>3 DEF Tables
  <2>2. \A cell \in Passing : Keeps(MapWords(Cuts, cell), cell, D)
    BY <2>1, MapWordsKeeps DEF Keeps
  <2>3. \A r \in DOMAIN text : \A c \in DOMAIN text[r] : Keeps(cells[r][c], text[r][c], D)
    BY <1>1, <1>2, <2>2
  <2>4. cells = [r \in DOMAIN text |-> [c \in DOMAIN text[r] |-> cells[r][c]]]
    OBVIOUS
  <2>5. Apply(text, n) = cells
    BY <1>3 DEF Apply, TimestampIsoToSeconds
  <2> HIDE DEF cells
  <2>6. TextKeeps([r \in DOMAIN text |-> [c \in DOMAIN text[r] |-> cells[r][c]]], text, D)
    BY <2>3, CellwiseKeeps
  <2> QED
    BY <2>4, <2>5, <2>6
<1>4. CASE n = "strip_trailing_ws"
  <2> DEFINE cells == [r \in DOMAIN text |-> [c \in DOMAIN text[r] |->
                         IF c = Len(text[r]) THEN MapScalar(Blanks, text[r][c]) ELSE text[r][c]]]
  <2>1. n \in DOMAIN Tables /\ Tables[n] = Blanks
    BY <1>4 DEF Tables
  <2>2. \A cell \in Passing : Keeps(MapScalar(Blanks, cell), cell, D)
    BY <2>1, MapScalarKeeps DEF Keeps
  <2>3. \A r \in DOMAIN text : \A c \in DOMAIN text[r] : Keeps(cells[r][c], text[r][c], D)
    BY <1>1, <1>2, <2>2
  <2>4. cells = [r \in DOMAIN text |-> [c \in DOMAIN text[r] |-> cells[r][c]]]
    OBVIOUS
  <2>5. Apply(text, n) = cells
    BY <1>4 DEF Apply, StripTrailingWs
  <2> HIDE DEF cells
  <2>6. TextKeeps([r \in DOMAIN text |-> [c \in DOMAIN text[r] |-> cells[r][c]]], text, D)
    BY <2>3, CellwiseKeeps
  <2> QED
    BY <2>4, <2>5, <2>6
<1>5. CASE n = "error_first_line_only"
  BY <1>5, FirstLineKeeps DEF Apply
<1>6. CASE n \notin {"timestamp_iso_to_seconds", "strip_trailing_ws", "error_first_line_only"}
  <2> DEFINE cells == [r \in DOMAIN text |-> [c \in DOMAIN text[r] |-> OfCell(n, text[r][c])]]
  <2>1. \A cell \in Passing : Keeps(OfCell(n, cell), cell, D)
    BY <1>6, OfCellKeeps
  <2>2. \A r \in DOMAIN text : \A c \in DOMAIN text[r] : Keeps(cells[r][c], text[r][c], D)
    BY <1>1, <2>1
  <2>3. cells = [r \in DOMAIN text |-> [c \in DOMAIN text[r] |-> cells[r][c]]]
    OBVIOUS
  <2>4. Apply(text, n) = cells
    BY <1>6 DEF Apply
  <2> HIDE DEF cells
  <2>5. TextKeeps([r \in DOMAIN text |-> [c \in DOMAIN text[r] |-> cells[r][c]]], text, D)
    BY <2>2, CellwiseKeeps
  <2> QED
    BY <2>3, <2>4, <2>5
<1> QED
  BY <1>3, <1>4, <1>5, <1>6

\* The recursion of ApplyChain.
Chains(g, text, ns, n) == g = [k \in 0 .. n |-> IF k = 0 THEN text ELSE Apply(g[k - 1], ns[k])]

LEMMA ChainExists == \A text, ns : \A n \in Nat : \E g : Chains(g, text, ns, n)
<1> TAKE text, ns
<1> DEFINE Bad == {n \in Nat : ~ \E g : Chains(g, text, ns, n)}
<1>1. SUFFICES ASSUME Bad # {} PROVE FALSE
  OBVIOUS
<1>2. PICK n \in Bad : \A k \in Bad : n <= k
  <2>1. Bad \in SUBSET Nat
    OBVIOUS
  <2> HIDE DEF Bad
  <2> QED
    BY <1>1, <2>1, Least
<1>3. n \in Nat /\ ~ \E g : Chains(g, text, ns, n)
  OBVIOUS
<1>4. n # 0
  <2> DEFINE none == [k \in 0 .. 0 |-> text]
  <2>1. none = [k \in 0 .. 0 |-> IF k = 0 THEN text ELSE Apply(none[k - 1], ns[k])]
    OBVIOUS
  <2>2. Chains(none, text, ns, 0)
    BY <2>1 DEF Chains
  <2> QED
    BY <1>3, <2>2
<1>5. n - 1 \in Nat /\ ~ (n <= n - 1)
  BY <1>3, <1>4
<1>6. PICK g : Chains(g, text, ns, n - 1)
  BY <1>2, <1>5
<1> DEFINE h == [k \in 0 .. n |-> IF k = n THEN Apply(g[k - 1], ns[k]) ELSE g[k]]
<1>7. \A k \in 0 .. n - 1 : g[k] = IF k = 0 THEN text ELSE Apply(g[k - 1], ns[k])
  BY <1>6 DEF Chains
<1>8. \A k \in 0 .. n - 1 : h[k] = g[k]
  BY <1>3, <1>5
<1>9. h[n] = Apply(g[n - 1], ns[n])
  BY <1>3
<1>10. h = [k \in 0 .. n |-> h[k]]
  OBVIOUS
<1> HIDE DEF h
<1>11. ASSUME NEW k \in 0 .. n
       PROVE  h[k] = IF k = 0 THEN text ELSE Apply(h[k - 1], ns[k])
  <2>1. CASE k = n
    <3>1. n - 1 \in 0 .. n - 1
      BY <1>5
    <3> QED
      BY <1>4, <1>8, <1>9, <2>1, <3>1
  <2>2. CASE k # n
    <3>1. k \in 0 .. n - 1 /\ (k # 0 => k - 1 \in 0 .. n - 1)
      BY <1>3, <2>2
    <3> QED
      BY <1>7, <1>8, <3>1
  <2> QED
    BY <2>1, <2>2
<1>12. Chains(h, text, ns, n)
  BY <1>10, <1>11 DEF Chains
<1> QED
  BY <1>3, <1>12

\* A chain of declared normalizers, whatever its order.
LEMMA ChainKeeps ==
  ASSUME NEW text \in PassingTexts, NEW ns \in Seq(Normalizer)
  PROVE  /\ TextKeeps(ApplyChain(text, ns), text, ToSet(ns))
         /\ "error_first_line_only" \in ToSet(ns) => DOMAIN ApplyChain(text, ns) \subseteq {1}
<1> DEFINE D == ToSet(ns)
           e == "error_first_line_only"
           g == CHOOSE g : g = [k \in 0 .. Len(ns) |-> IF k = 0 THEN text ELSE Apply(g[k - 1], ns[k])]
<1>1. Len(ns) \in Nat /\ DOMAIN ns = 1 .. Len(ns) /\ \A k \in 1 .. Len(ns) : ns[k] \in Normalizer
  OBVIOUS
<1>2. \A k \in 1 .. Len(ns) : ns[k] \in D
  BY <1>1 DEF ToSet
<1>3. ApplyChain(text, ns) = g[Len(ns)]
  BY DEF ApplyChain
<1>4. Chains(g, text, ns, Len(ns))
  BY <1>1, ChainExists DEF Chains
<1> HIDE DEF g
<1>5. \A k \in 0 .. Len(ns) : g[k] = IF k = 0 THEN text ELSE Apply(g[k - 1], ns[k])
  BY <1>4 DEF Chains
<1> DEFINE Good(n) == /\ TextKeeps(g[n], text, D)
                      /\ (\E k \in 1 .. n : ns[k] = e) => DOMAIN g[n] \subseteq {1}
           Bad == {n \in 0 .. Len(ns) : ~Good(n)}
<1>6. Bad = {}
  <2>1. SUFFICES ASSUME Bad # {} PROVE FALSE
    OBVIOUS
  <2>2. Bad \in SUBSET Nat
    OBVIOUS
  <2>3. PICK n \in Bad : \A k \in Bad : n <= k
    <3> HIDE DEF Bad
    <3> QED
      BY <2>1, <2>2, Least
  <2>4. n \in 0 .. Len(ns) /\ ~Good(n)
    OBVIOUS
  <2>5. CASE n = 0
    <3>1. g[n] = text
      BY <1>5, <2>4, <2>5
    <3>2. TextKeeps(text, text, D)
      BY DEF TextKeeps
    <3>3. ~ \E k \in 1 .. n : ns[k] = e
      BY <2>5
    <3> QED
      BY <2>4, <3>1, <3>2, <3>3
  <2>6. CASE n # 0
    <3> DEFINE old == g[n - 1]
               new == g[n]
    <3>1. n \in 1 .. Len(ns) /\ n - 1 \in 0 .. Len(ns) /\ ~ (n <= n - 1)
      BY <1>1, <2>4, <2>6
    <3>2. Good(n - 1)
      BY <2>3, <3>1
    <3>3. new = Apply(old, ns[n])
      BY <1>5, <2>4, <2>6
    <3>4. TextKeeps(old, text, D)
      BY <3>2
    <3>5. old \in PassingTexts /\ ns[n] \in Normalizer /\ ns[n] \in D
      BY <1>1, <1>2, <3>1, <3>4 DEF TextKeeps
    <3> HIDE DEF old, new, D
    <3>6. TextKeeps(new, old, D)
      BY <3>3, <3>5, ApplyKeeps
    <3>7. TextKeeps(new, text, D)
      BY <3>4, <3>6 DEF TextKeeps
    <3>8. CASE ns[n] = e
      <4>1. DOMAIN new \subseteq {1}
        BY <3>3, <3>5, <3>8, FirstLineKeeps DEF Apply
      <4> QED
        BY <2>4, <3>7, <4>1 DEF new, D
    <3>9. CASE ns[n] # e
      <4>1. (\E k \in 1 .. n : ns[k] = e) => \E k \in 1 .. n - 1 : ns[k] = e
        BY <2>4, <3>1, <3>9
      <4>2. (\E k \in 1 .. n : ns[k] = e) => DOMAIN old \subseteq {1}
        BY <3>2, <4>1 DEF old
      <4>3. (\E k \in 1 .. n : ns[k] = e) => DOMAIN new \subseteq {1}
        BY <3>6, <4>2 DEF TextKeeps
      <4> QED
        BY <2>4, <3>7, <4>3 DEF new, D
    <3> QED
      BY <3>8, <3>9
  <2> QED
    BY <2>5, <2>6
<1>7. Good(Len(ns))
  BY <1>1, <1>6
<1>8. e \in D => \E k \in 1 .. Len(ns) : ns[k] = e
  BY <1>1 DEF ToSet
<1> QED
  BY <1>3, <1>7, <1>8

\* What a chain yields shows the kernels of what it was given, row by row.
LEMMA ChainShows ==
  ASSUME NEW text \in PassingTexts, NEW ns \in Seq(Normalizer)
  PROVE  /\ ApplyChain(text, ns) \in PassingTexts
         /\ DOMAIN ApplyChain(text, ns) = Rows(text, ToSet(ns))
         /\ \A r \in Rows(text, ToSet(ns)) :
              KernelRow(ApplyChain(text, ns)[r], ToSet(ns)) = KernelRow(text[r], ToSet(ns))
<1> DEFINE D == ToSet(ns)
           new == ApplyChain(text, ns)
<1>1. TextKeeps(new, text, D) /\ ("error_first_line_only" \in D => DOMAIN new \subseteq {1})
  BY ChainKeeps
<1> HIDE DEF D, new
<1>2. Rows(new, D) = DOMAIN new
  BY <1>1 DEF Rows
<1>3. Kernels(new, D) = Kernels(text, D) /\ new \in PassingTexts
  BY <1>1 DEF TextKeeps
<1>4. DOMAIN Kernels(new, D) = DOMAIN new /\ DOMAIN Kernels(text, D) = Rows(text, D)
  BY <1>2 DEF Kernels
<1>5. DOMAIN new = Rows(text, D)
  BY <1>3, <1>4
<1>6. \A r \in DOMAIN new : Kernels(new, D)[r] = KernelRow(new[r], D)
  BY <1>2 DEF Kernels
<1>7. \A r \in Rows(text, D) : Kernels(text, D)[r] = KernelRow(text[r], D)
  BY DEF Kernels
<1>8. \A r \in Rows(text, D) : KernelRow(new[r], D) = KernelRow(text[r], D)
  BY <1>3, <1>5, <1>6, <1>7
<1> QED
  BY <1>3, <1>5, <1>8 DEF D, new

-----------------------------------------------------------------------------
(* The essence follows from the kernel *)

LEMMA KeyInGist ==
  ASSUME NEW x \in Items, x.key, NEW D
  PROVE  GistOfItem(x, D).words[1] = x.words[1]
<1>1. Len(x.words) = 2 /\ x.words[1] \in DOMAIN Rank
  BY ItemShape
<1>2. GistOfItem(x, D).words = [k \in 1 .. Len(x.words) |-> Gist(x.words[k], D)]
  BY GistOfItemIs
<1>3. GistOfItem(x, D).words[1] = Gist(x.words[1], D)
  BY <1>1, <1>2
<1> QED
  BY <1>1, <1>3, KeysAreTheirGist

LEMMA NoMoreMembers ==
  ASSUME NEW p \in Seq(Items), NEW q \in Seq(Items), Distinct(p), Distinct(q), NEW D,
         ToSet(Gists(p, D)) = ToSet(Gists(q, D))
  PROVE  Len(p) <= Len(q)
<1>1. Len(p) \in 0 .. 2 /\ Len(q) \in 0 .. 2
  BY FewMembers
<1> DEFINE P == Gists(p, D)
           Q == Gists(q, D)
<1>2. /\ DOMAIN p = 1 .. Len(p) /\ \A i \in 1 .. Len(p) : p[i] \in Items
      /\ DOMAIN q = 1 .. Len(q)
  OBVIOUS
<1>3. \A i \in 1 .. Len(p) : p[i].key
  BY <1>2 DEF Distinct
<1>4. /\ DOMAIN P = 1 .. Len(p) /\ \A i \in 1 .. Len(p) : P[i] = GistOfItem(p[i], D)
      /\ DOMAIN Q = 1 .. Len(q)
  BY <1>2 DEF Gists
<1>5. \A i \in 1 .. Len(p) : P[i].words[1] = p[i].words[1]
  BY <1>2, <1>3, <1>4, KeyInGist
<1> HIDE DEF P, Q
<1>6. \A i \in 1 .. Len(p) : \E j \in 1 .. Len(q) : P[i] = Q[j]
  BY <1>4 DEF ToSet, P, Q
<1>7. CASE Len(q) = 0
  BY <1>1, <1>6, <1>7
<1>8. CASE Len(q) = 1 /\ Len(p) = 2
  <2>1. 1 \in 1 .. Len(p) /\ 2 \in 1 .. Len(p)
    BY <1>8
  <2>2. P[1] = Q[1] /\ P[2] = Q[1]
    BY <1>6, <1>8, <2>1
  <2>3. p[1].words[1] = p[2].words[1]
    BY <1>5, <2>1, <2>2
  <2>4. p[1].words[1] # p[2].words[1]
    BY <1>2, <2>1 DEF Distinct
  <2> QED
    BY <2>3, <2>4
<1> QED
  BY <1>1, <1>7, <1>8

LEMMA SortedOnce ==
  ASSUME NEW p \in Seq(Items), NEW q \in Seq(Items), Distinct(p), Distinct(q), NEW D,
         Ascending(p), Ascending(q),
         ToSet(Gists(p, D)) = ToSet(Gists(q, D))
  PROVE  Gists(p, D) = Gists(q, D)
<1> DEFINE P == Gists(p, D)
           Q == Gists(q, D)
           R(x) == Rank[x.words[1]]
<1>1. /\ DOMAIN p = 1 .. Len(p) /\ DOMAIN q = 1 .. Len(p) /\ Len(q) = Len(p)
      /\ \A i \in 1 .. Len(p) : p[i] \in Items /\ q[i] \in Items
  <2>1. Len(p) <= Len(q) /\ Len(q) <= Len(p)
    BY NoMoreMembers
  <2>2. Len(p) \in Nat /\ Len(q) \in Nat
    OBVIOUS
  <2>3. Len(q) = Len(p)
    BY <2>1, <2>2
  <2> QED
    BY <2>3
<1>2. /\ DOMAIN P = 1 .. Len(p) /\ \A i \in 1 .. Len(p) : P[i] = GistOfItem(p[i], D)
      /\ DOMAIN Q = 1 .. Len(p) /\ \A i \in 1 .. Len(p) : Q[i] = GistOfItem(q[i], D)
  BY <1>1 DEF Gists
<1>3. \A x \in Items : x.key => GistOfItem(x, D).words[1] = x.words[1]
  BY KeyInGist
<1>4. \A i \in 1 .. Len(p) : p[i].key /\ q[i].key
  BY <1>1 DEF Distinct
<1>5. \A i \in 1 .. Len(p) : R(P[i]) = R(p[i]) /\ R(Q[i]) = R(q[i])
  BY <1>1, <1>2, <1>3, <1>4
<1>6. Len(p) \in 0 .. 2 /\ \A i \in 1 .. Len(p) : p[i].words[1] \in {"k1", "k2"} /\ q[i].words[1] \in {"k1", "k2"}
  <2>1. Len(p) \in 0 .. 2 /\ \A i \in 1 .. Len(p) : p[i].words[1] \in {"k1", "k2"}
    BY FewMembers
  <2>2. \A i \in 1 .. Len(q) : q[i].words[1] \in {"k1", "k2"}
    BY FewMembers
  <2> QED
    BY <1>1, <2>1, <2>2
<1>7. \A k \in {"k1", "k2"} : Rank[k] \in Nat
  BY DEF Rank
<1>8. \A i \in 1 .. Len(p) : R(P[i]) \in Nat /\ R(Q[i]) \in Nat
  BY <1>5, <1>6, <1>7
<1>9. \A i, j \in 1 .. Len(p) : i < j => R(P[i]) < R(P[j]) /\ R(Q[i]) < R(Q[j])
  <2>1. \A i, j \in 1 .. Len(p) : i < j => R(p[i]) < R(p[j])
    BY <1>1 DEF Ascending
  <2>2. \A i, j \in 1 .. Len(p) : i < j => R(q[i]) < R(q[j])
    BY <1>1 DEF Ascending
  <2> HIDE DEF P, Q, R
  <2> QED
    BY <1>5, <2>1, <2>2
<1>10. {P[i] : i \in 1 .. Len(p)} = {Q[i] : i \in 1 .. Len(p)}
  <2>1. ToSet(P) = ToSet(Q)
    OBVIOUS
  <2> HIDE DEF P, Q
  <2> QED
    BY <1>2, <2>1 DEF ToSet
<1>11. /\ \A i \in 1 .. Len(p) : \E j \in 1 .. Len(p) : P[i] = Q[j]
       /\ \A i \in 1 .. Len(p) : \E j \in 1 .. Len(p) : Q[i] = P[j]
  <2> HIDE DEF P, Q
  <2> QED
    BY <1>10
<1>12. P = [i \in 1 .. Len(p) |-> P[i]] /\ Q = [i \in 1 .. Len(p) |-> Q[i]]
  BY <1>2 DEF Gists
<1> HIDE DEF P, Q
<1> DEFINE r == [x \in {P[i] : i \in 1 .. Len(p)} |-> R(x)]
<1>13. \A i \in 1 .. Len(p) : r[P[i]] = R(P[i]) /\ r[Q[i]] = R(Q[i])
  BY <1>11
<1>14. \A i \in 1 .. Len(p) : r[P[i]] \in Nat /\ r[Q[i]] \in Nat
  BY <1>8, <1>13
<1>15. \A i, j \in 1 .. Len(p) : i < j => r[P[i]] < r[P[j]] /\ r[Q[i]] < r[Q[j]]
  BY <1>9, <1>13
<1> HIDE DEF r
<1>16. \A i \in 1 .. Len(p) : P[i] = Q[i]
  <2>1. CASE Len(p) = 0
    BY <2>1
  <2>2. CASE Len(p) = 1
    BY <1>11, <2>2
  <2>3. CASE Len(p) = 2
    <3>1. 1 .. Len(p) = {1, 2}
      BY <2>3
    <3>2. r[P[1]] < r[P[2]] /\ r[Q[1]] < r[Q[2]]
      BY <1>15, <3>1
    <3>3. /\ r[P[1]] \in Nat /\ r[P[2]] \in Nat /\ r[Q[1]] \in Nat /\ r[Q[2]] \in Nat
      BY <1>14, <3>1
    <3>4. (P[1] = Q[1] \/ P[1] = Q[2]) /\ (P[2] = Q[1] \/ P[2] = Q[2])
      BY <1>11, <3>1
    <3>5. Q[1] = P[1] \/ Q[1] = P[2]
      BY <1>11, <3>1
    <3>6. P[1] = Q[1]
      BY <3>2, <3>3, <3>4, <3>5
    <3>7. P[2] = Q[2]
      BY <3>2, <3>3, <3>4, <3>6
    <3> QED
      BY <3>1, <3>6, <3>7
  <2> QED
    BY <1>6, <2>1, <2>2, <2>3
<1> QED
  BY <1>12, <1>16 DEF P, Q

\* What the essence shows of the items of a cell.
Members(cell, D) ==
  IF "jsonb_canonical" \in D /\ IsObject(cell) THEN ByKey(cell.items) ELSE cell.items

Shown(gists, D) ==
  IF "json_string_array_unquote" \in D
    THEN Bared(FlattenSeq([i \in DOMAIN gists |-> gists[i].words]), D) ELSE gists

LEMMA EssenceIs ==
  ASSUME NEW cell, NEW D
  PROVE  EssenceOfCell(cell, D, Cuts) =
           [bracket |-> Closing(cell.bracket, D), items |-> Shown(Gists(Members(cell, D), D), D)]
<1> DEFINE G == EssenceOfItems(Members(cell, D), D, Cuts)
           flat == FlattenSeq([i \in DOMAIN G |-> G[i].words])
<1>1. G = Gists(Members(cell, D), D)
  BY DEF Gists, EssenceOfItems, GistOfItem
<1>2. EssenceOfCell(cell, D, Cuts) =
        [bracket |-> IF "pg_array_brace_to_bracket" \in D /\ ~IsScalar(cell) THEN "[" ELSE cell.bracket,
         items |-> IF "json_string_array_unquote" \notin D THEN G
                   ELSE IF flat = <<EssenceOfWord("", D, Cuts)>> THEN <<>> ELSE flat]
  BY DEF EssenceOfCell, Members
<1>3. Closing(cell.bracket, D) =
        IF "pg_array_brace_to_bracket" \in D /\ ~IsScalar(cell) THEN "[" ELSE cell.bracket
  BY DEF Closing, IsScalar
<1>4. Shown(G, D) = IF "json_string_array_unquote" \notin D THEN G
                    ELSE IF flat = <<EssenceOfWord("", D, Cuts)>> THEN <<>> ELSE flat
  BY DEF Shown, Bared, Gist
<1> QED
  BY Zenon, <1>1, <1>2, <1>3, <1>4

\* An object of psql or of the target has braces: its members are sorted by a declared
\* jsonb_canonical.
LEMMA ObjectMembers ==
  ASSUME NEW cell \in Cells, Keyed(cell), NEW D
  PROVE  /\ IsObject(cell)
         /\ Distinct(cell.items)
<1>1. /\ cell.bracket = "{"
      /\ \A i \in DOMAIN cell.items : cell.items[i].key
      /\ \A i, j \in DOMAIN cell.items :
               i # j => cell.items[i].words[1] # cell.items[j].words[1]
  BY DEF Cells
<1> QED
  BY <1>1 DEF IsObject, Distinct

LEMMA PlainMembers ==
  ASSUME NEW cell \in Passing, ~Keyed(cell), NEW D
  PROVE  Members(cell, D) = cell.items
<1>1. CASE IsObject(cell)
  <2>1. cell.items \in Seq(Items) /\ DOMAIN cell.items = 1 .. Len(cell.items) /\ Len(cell.items) \in Nat
    BY CellShape
  <2>2. DOMAIN cell.items = {}
    BY <1>1 DEF IsObject, Keyed
  <2>3. Distinct(cell.items)
    BY <2>2 DEF Distinct
  <2>4. ByKey(cell.items) \in Seq(Items) /\ Len(ByKey(cell.items)) = Len(cell.items)
    BY <2>1, <2>3, ByKeySorts
  <2>5. Len(cell.items) = 0
    <3>1. \A n \in Nat : 1 .. n = {} => n = 0
      OBVIOUS
    <3> QED
      BY <2>1, <2>2, <3>1
  <2>6. ByKey(cell.items) = cell.items
    <3> DEFINE s == ByKey(cell.items)
               t == cell.items
    <3> HIDE DEF s, t
    <3>1. s \in Seq(Items) /\ Len(s) = 0 /\ t \in Seq(Items) /\ Len(t) = 0
      BY <2>1, <2>4, <2>5 DEF s, t
    <3>2. s = <<>> /\ t = <<>>
      BY <3>1
    <3> QED
      BY <3>2 DEF s, t
  <2> QED
    BY <2>6 DEF Members
<1> QED
  BY <1>1 DEF Members

LEMMA SortedMembers ==
  ASSUME NEW cell \in Cells, Keyed(cell), NEW D, "jsonb_canonical" \in D
  PROVE  LET s == Members(cell, D) IN
         /\ s \in Seq(Items) /\ Len(s) = Len(cell.items) /\ Distinct(s) /\ Ascending(s)
         /\ ToSet(Gists(s, D)) = {Gists(cell.items, D)[i] : i \in DOMAIN Gists(cell.items, D)}
<1> DEFINE s == Members(cell, D)
<1>1. s = ByKey(cell.items)
  BY ObjectMembers DEF Members
<1>2. cell.items \in Seq(Items) /\ DOMAIN cell.items = 1 .. Len(cell.items) /\ Len(cell.items) \in Nat
  BY CellsArePassing, CellShape
<1>3. /\ s \in Seq(Items) /\ Len(s) = Len(cell.items) /\ Distinct(s) /\ Ascending(s)
      /\ ToSet(s) = ToSet(cell.items)
  BY <1>1, <1>2, ObjectMembers, ByKeySorts
<1> HIDE DEF s
<1>4. DOMAIN s = DOMAIN cell.items
  BY <1>2, <1>3
<1>5. ToSet(Gists(s, D)) = {Gists(cell.items, D)[i] : i \in DOMAIN Gists(cell.items, D)}
  <2> DEFINE G == Gists(s, D)
             H == Gists(cell.items, D)
  <2>1. /\ DOMAIN G = DOMAIN cell.items /\ \A i \in DOMAIN cell.items : G[i] = GistOfItem(s[i], D)
        /\ DOMAIN H = DOMAIN cell.items /\ \A i \in DOMAIN cell.items : H[i] = GistOfItem(cell.items[i], D)
    BY <1>4 DEF Gists
  <2>2. \A i \in DOMAIN cell.items : \E j \in DOMAIN cell.items : s[i] = cell.items[j]
    BY <1>3, <1>4 DEF ToSet
  <2>3. \A i \in DOMAIN cell.items : \E j \in DOMAIN cell.items : cell.items[i] = s[j]
    BY <1>3, <1>4 DEF ToSet
  <2> HIDE DEF G, H
  <2>4. \A i \in DOMAIN cell.items : \E j \in DOMAIN cell.items : G[i] = H[j]
    BY <2>1, <2>2
  <2>5. \A i \in DOMAIN cell.items : \E j \in DOMAIN cell.items : H[i] = G[j]
    BY <2>1, <2>3
  <2> QED
    BY <2>1, <2>4, <2>5 DEF ToSet, G, H
<1> QED
  BY <1>3, <1>5 DEF s

LEMMA KernelGivesEssence ==
  ASSUME NEW u \in Cells, NEW v \in Cells, NEW D, Kernel(u, D) = Kernel(v, D)
  PROVE  EssenceOfCell(u, D, Cuts) = EssenceOfCell(v, D, Cuts)
<1> DEFINE U == Gists(u.items, D)
           V == Gists(v.items, D)
<1>1. Closing(u.bracket, D) = Closing(v.bracket, D) /\ Content(U, D) = Content(V, D)
  BY DEF Kernel
<1>2. HasKey(U) = Keyed(u) /\ HasKey(V) = Keyed(v)
  BY CellsArePassing, KeyedIsHasKey
<1>3. u.items \in Seq(Items) /\ v.items \in Seq(Items)
  BY CellsArePassing, CellShape
<1>4. DOMAIN U = DOMAIN u.items /\ DOMAIN V = DOMAIN v.items
  BY DEF Gists
<1> HIDE DEF U, V
<1>5. HasKey(U) <=> HasKey(V)
  <2>1. Content(U, D)[1] = (IF HasKey(U) THEN "object" ELSE "plain")
    BY DEF Content
  <2>2. Content(V, D)[1] = (IF HasKey(V) THEN "object" ELSE "plain")
    BY DEF Content
  <2> QED
    BY <1>1, <2>1, <2>2
<1>6. Shown(Gists(Members(u, D), D), D) = Shown(Gists(Members(v, D), D), D)
  <2>1. CASE ~HasKey(U)
    <3>1. Members(u, D) = u.items /\ Members(v, D) = v.items
      BY <1>2, <1>5, <2>1, CellsArePassing, PlainMembers
    <3>2. Content(U, D)[2] = Shown(U, D) /\ Content(V, D)[2] = Shown(V, D)
      BY <1>5, <2>1 DEF Content, Shown
    <3>3. Shown(U, D) = Shown(V, D)
      BY <1>1, <3>2
    <3> QED
      BY <3>1, <3>3 DEF U, V
  <2>2. CASE HasKey(U) /\ "jsonb_canonical" \notin D
    <3>1. Members(u, D) = u.items /\ Members(v, D) = v.items
      BY <2>2 DEF Members
    <3>2. Content(U, D)[2] = U /\ Content(V, D)[2] = V
      BY <1>5, <2>2 DEF Content
    <3>3. U = V
      BY <1>1, <3>2
    <3> QED
      BY <3>1, <3>3 DEF U, V
  <2>3. CASE HasKey(U) /\ "jsonb_canonical" \in D
    <3> DEFINE p == Members(u, D)
               q == Members(v, D)
    <3>1. /\ Content(U, D)[2] = {U[i] : i \in DOMAIN U}
          /\ Content(V, D)[2] = {V[i] : i \in DOMAIN V}
      BY <1>5, <2>3 DEF Content
    <3>2. {U[i] : i \in DOMAIN U} = {V[i] : i \in DOMAIN V}
      BY <1>1, <3>1
    <3>3. Keyed(u) /\ Keyed(v)
      BY <1>2, <1>5, <2>3
    <3>4. /\ p \in Seq(Items) /\ Distinct(p) /\ Ascending(p)
          /\ ToSet(Gists(p, D)) = {U[i] : i \in DOMAIN U}
      BY <2>3, <3>3, SortedMembers DEF U
    <3>5. /\ q \in Seq(Items) /\ Distinct(q) /\ Ascending(q)
          /\ ToSet(Gists(q, D)) = {V[i] : i \in DOMAIN V}
      BY <2>3, <3>3, SortedMembers DEF V
    <3> HIDE DEF p, q
    <3>6. Gists(p, D) = Gists(q, D)
      BY <3>2, <3>4, <3>5, SortedOnce
    <3> QED
      BY <3>6 DEF p, q
  <2> QED
    BY <2>1, <2>2, <2>3
<1> QED
  BY <1>1, <1>6, EssenceIs

-----------------------------------------------------------------------------
(* What follows from equal rows, in each compare_mode *)

\* Sequences with the same bag of members: each member of one has a partner in the other.
LEMMA Partners ==
  ASSUME NEW s, IsFiniteSet(DOMAIN s), NEW t, IsFiniteSet(DOMAIN t),
         InMode("sorted_rows", s) = InMode("sorted_rows", t)
  PROVE  \E p \in Bijection(DOMAIN s, DOMAIN t) : \A i \in DOMAIN s : s[i] = t[p[i]]
<1> DEFINE S == DOMAIN s
           T == DOMAIN t
           inS(row) == {i \in S : s[i] = row}
           inT(row) == {i \in T : t[i] = row}
<1>1. /\ InMode("sorted_rows", s) = [row \in ToSet(s) |-> Cardinality(inS(row))]
      /\ InMode("sorted_rows", t) = [row \in ToSet(t) |-> Cardinality(inT(row))]
  BY DEF InMode, Times
<1>2. ToSet(s) = ToSet(t)
  BY <1>1
<1>3. \A row \in ToSet(s) : Cardinality(inS(row)) = Cardinality(inT(row))
  BY <1>1, <1>2
<1>4. \A row : IsFiniteSet(inS(row)) /\ IsFiniteSet(inT(row))
  <2> TAKE row
  <2>1. inS(row) \subseteq S /\ inT(row) \subseteq T
    OBVIOUS
  <2> HIDE DEF inS, inT
  <2> QED
    BY <2>1, FS_Subset
<1>5. \A row \in ToSet(s) : \E f : f \in Bijection(inS(row), inT(row))
  <2> TAKE row \in ToSet(s)
  <2> HIDE DEF inS, inT
  <2>1. ExistsBijection(inS(row), inT(row))
    BY <1>3, <1>4, FS_SameCardinalityBij
  <2> QED
    BY <2>1, Fun_ExistsBij
<1> DEFINE b == [row \in ToSet(s) |-> CHOOSE f : f \in Bijection(inS(row), inT(row))]
           p == [i \in S |-> b[s[i]][i]]
<1>6. \A row \in ToSet(s) : b[row] \in Bijection(inS(row), inT(row))
  BY <1>5
<1> HIDE DEF b
<1>7. \A row \in ToSet(s) :
        /\ \A i \in inS(row) : b[row][i] \in inT(row)
        /\ \A i, j \in inS(row) : b[row][i] = b[row][j] => i = j
        /\ \A k \in inT(row) : \E i \in inS(row) : b[row][i] = k
  <2> TAKE row \in ToSet(s)
  <2> DEFINE A == inS(row)
             B == inT(row)
             f == b[row]
  <2>1. f \in Bijection(A, B)
    BY <1>6
  <2> HIDE DEF A, B, f
  <2>2. /\ f \in [A -> B]
        /\ \A i, j \in A : f[i] = f[j] => i = j
        /\ \A k \in B : \E i \in A : f[i] = k
    BY <2>1, Fun_BijectionProperties
  <2>3. \A i \in A : f[i] \in B
    BY <2>2
  <2> QED
    BY <2>2, <2>3 DEF A, B, f
<1>8. \A i \in S : s[i] \in ToSet(s) /\ i \in inS(s[i])
  BY DEF ToSet
<1>9. \A i \in S : p[i] = b[s[i]][i]
  OBVIOUS
<1>10. \A i \in S : p[i] \in T /\ t[p[i]] = s[i]
  BY <1>7, <1>8, <1>9
<1>11. p \in [S -> T]
  BY <1>10
<1> HIDE DEF p
<1>12. \A i, j \in S : p[i] = p[j] => i = j
  <2> SUFFICES ASSUME NEW i \in S, NEW j \in S, p[i] = p[j] PROVE i = j
    OBVIOUS
  <2>1. s[i] = s[j]
    BY <1>10
  <2>2. i \in inS(s[i]) /\ j \in inS(s[i])
    BY <2>1
  <2> QED
    BY <1>7, <1>8, <1>9, <2>1, <2>2
<1>13. \A k \in T : \E i \in S : p[i] = k
  <2> TAKE k \in T
  <2>1. t[k] \in ToSet(s) /\ k \in inT(t[k])
    BY <1>2 DEF ToSet
  <2>2. PICK i \in inS(t[k]) : b[t[k]][i] = k
    BY <1>7, <2>1
  <2>3. i \in S /\ s[i] = t[k]
    BY <2>2
  <2> QED
    BY <1>9, <2>2, <2>3
<1>14. p \in Bijection(S, T)
  BY <1>11, <1>12, <1>13, Fun_IsBij
<1> QED
  BY <1>10, <1>14

\* And the other way round.
LEMMA PartnersSameBag ==
  ASSUME NEW s, IsFiniteSet(DOMAIN s), NEW t, IsFiniteSet(DOMAIN t),
         NEW p \in Bijection(DOMAIN s, DOMAIN t), \A i \in DOMAIN s : s[i] = t[p[i]]
  PROVE  InMode("sorted_rows", s) = InMode("sorted_rows", t)
<1> DEFINE S == DOMAIN s
           T == DOMAIN t
           inS(row) == {i \in S : s[i] = row}
           inT(row) == {i \in T : t[i] = row}
<1>1. /\ InMode("sorted_rows", s) = [row \in ToSet(s) |-> Cardinality(inS(row))]
      /\ InMode("sorted_rows", t) = [row \in ToSet(t) |-> Cardinality(inT(row))]
  BY DEF InMode, Times
<1>2. /\ p \in [S -> T]
      /\ \A i, j \in S : p[i] = p[j] => i = j
      /\ \A k \in T : \E i \in S : p[i] = k
  BY Fun_BijectionProperties
<1>3. \A i \in S : p[i] \in T
  BY <1>2
<1>4. ToSet(s) = ToSet(t)
  BY <1>2, <1>3 DEF ToSet
<1>5. ASSUME NEW row PROVE Cardinality(inS(row)) = Cardinality(inT(row))
  <2> DEFINE A == inS(row)
             B == inT(row)
             f == [i \in A |-> p[i]]
  <2>1. f \in [A -> B]
    BY <1>3
  <2>2. \A i, j \in A : f[i] = f[j] => i = j
    BY <1>2
  <2>3. \A k \in B : \E i \in A : f[i] = k
    <3> TAKE k \in B
    <3>1. PICK i \in S : p[i] = k
      BY <1>2
    <3>2. i \in A
      BY <3>1
    <3> QED
      BY <3>1, <3>2
  <2>4. IsFiniteSet(A)
    <3>1. A \subseteq S
      OBVIOUS
    <3> HIDE DEF A
    <3> QED
      BY <3>1, FS_Subset
  <2> HIDE DEF A, B, f
  <2>5. f \in Bijection(A, B)
    BY <2>1, <2>2, <2>3, Fun_IsBij
  <2>6. ExistsBijection(A, B)
    BY <2>5, Fun_ExistsBij
  <2>7. Cardinality(B) = Cardinality(A)
    BY <2>4, <2>6, FS_Bijection
  <2> QED
    BY <2>7 DEF A, B
<1> HIDE DEF inS, inT
<1> QED
  BY <1>1, <1>4, <1>5

\* Where equal members of two sequences stand for equal members of two others, what is
\* the same of the first two in a compare_mode is the same of the others.
LEMMA ModeFollows ==
  ASSUME NEW mode \in CompareMode,
         NEW s, IsFiniteSet(DOMAIN s), NEW t, IsFiniteSet(DOMAIN t),
         NEW u, DOMAIN u = DOMAIN s, NEW v, DOMAIN v = DOMAIN t,
         u = [i \in DOMAIN u |-> u[i]], v = [i \in DOMAIN v |-> v[i]],
         \A i \in DOMAIN s : \A j \in DOMAIN t : s[i] = t[j] => u[i] = v[j],
         InMode(mode, s) = InMode(mode, t)
  PROVE  InMode(mode, u) = InMode(mode, v)
<1>1. CASE mode = "ordered_rows"
  <2>1. s = t
    BY <1>1 DEF InMode
  <2>2. DOMAIN u = DOMAIN v /\ \A i \in DOMAIN u : u[i] = v[i]
    BY <2>1
  <2>3. u = v
    BY <2>2
  <2> QED
    BY <2>3
<1>2. CASE mode = "set"
  <2>1. ToSet(s) = ToSet(t)
    BY <1>2 DEF InMode
  <2>2. \A i \in DOMAIN s : \E j \in DOMAIN t : s[i] = t[j]
    BY <2>1 DEF ToSet
  <2>3. \A j \in DOMAIN t : \E i \in DOMAIN s : s[i] = t[j]
    BY <2>1 DEF ToSet
  <2>4. ToSet(u) = ToSet(v)
    BY <2>2, <2>3 DEF ToSet
  <2> QED
    BY <1>2, <2>4 DEF InMode
<1>3. CASE mode = "sorted_rows"
  <2>1. PICK p \in Bijection(DOMAIN s, DOMAIN t) : \A i \in DOMAIN s : s[i] = t[p[i]]
    BY <1>3, Partners
  <2>2. p \in [DOMAIN s -> DOMAIN t]
    BY Fun_BijectionProperties
  <2>3. \A i \in DOMAIN s : p[i] \in DOMAIN t
    BY <2>2
  <2>4. \A i \in DOMAIN u : u[i] = v[p[i]]
    BY <2>1, <2>3
  <2>5. p \in Bijection(DOMAIN u, DOMAIN v)
    BY <2>1
  <2>6. InMode("sorted_rows", u) = InMode("sorted_rows", v)
    BY <2>4, <2>5, PartnersSameBag
  <2> QED
    BY <1>3, <2>6
<1> QED
  BY <1>1, <1>2, <1>3 DEF CompareMode

\* The rows of the essence, in the order of the text.
EssenceRows(text, D) ==
  [r \in Rows(text, D) |-> [c \in DOMAIN text[r] |-> EssenceOfCell(text[r][c], D, Cuts)]]

LEMMA EssenceInMode ==
  ASSUME NEW text, NEW c
  PROVE  Essence(text, c, Cuts) = InMode(c.mode, EssenceRows(text, ToSet(c.normalizers)))
<1> DEFINE D == ToSet(c.normalizers)
           seen == IF "error_first_line_only" \in D THEN ErrorFirstLineOnly(text) ELSE text
           rows == [r \in DOMAIN seen |-> [k \in DOMAIN seen[r] |-> EssenceOfCell(seen[r][k], D, Cuts)]]
<1>1. Essence(text, c, Cuts) = InMode(c.mode, rows)
  BY Zenon DEF Essence
<1>2. DOMAIN seen = Rows(text, D) /\ \A r \in Rows(text, D) : seen[r] = text[r]
  BY DEF Rows, ErrorFirstLineOnly
<1> HIDE DEF seen, D
<1>3. rows = EssenceRows(text, D)
  BY <1>2 DEF EssenceRows
<1> QED
  BY <1>1, <1>3 DEF D

\* Equal kernels of two rows, equal essences.
LEMMA KernelRowGivesEssence ==
  ASSUME NEW x \in Seq(Cells), NEW y \in Seq(Cells), NEW D, KernelRow(x, D) = KernelRow(y, D)
  PROVE  [k \in DOMAIN x |-> EssenceOfCell(x[k], D, Cuts)] = [k \in DOMAIN y |-> EssenceOfCell(y[k], D, Cuts)]
<1>1. DOMAIN KernelRow(x, D) = DOMAIN x /\ DOMAIN KernelRow(y, D) = DOMAIN y
  BY DEF KernelRow
<1>2. DOMAIN x = DOMAIN y
  BY <1>1
<1>3. \A k \in DOMAIN x : KernelRow(x, D)[k] = Kernel(x[k], D)
  BY DEF KernelRow
<1>4. \A k \in DOMAIN y : KernelRow(y, D)[k] = Kernel(y[k], D)
  BY DEF KernelRow
<1>5. \A k \in DOMAIN x : x[k] \in Cells /\ y[k] \in Cells
  BY <1>2
<1>6. \A k \in DOMAIN x : EssenceOfCell(x[k], D, Cuts) = EssenceOfCell(y[k], D, Cuts)
  BY <1>2, <1>3, <1>4, <1>5, KernelGivesEssence
<1> QED
  BY <1>2, <1>6

LEMMA SameOutputSameEssence ==
  ASSUME NEW u \in Seq(Seq(Cells)), NEW v \in Seq(Seq(Cells)),
         NEW c, c.mode \in CompareMode, c.normalizers \in Seq(Normalizer),
         NormalizeForCompare(u, c) = NormalizeForCompare(v, c)
  PROVE  Essence(u, c, Cuts) = Essence(v, c, Cuts)
<1> DEFINE D == ToSet(c.normalizers)
           s == ApplyChain(u, c.normalizers)
           t == ApplyChain(v, c.normalizers)
           eu == EssenceRows(u, D)
           ev == EssenceRows(v, D)
<1>1. u \in PassingTexts /\ v \in PassingTexts
  <2>1. Seq(Cells) \subseteq Seq(Passing)
    BY CellsArePassing
  <2> DEFINE A == Seq(Cells)
             B == Seq(Passing)
  <2>2. A \subseteq B /\ u \in Seq(A) /\ v \in Seq(A)
    BY <2>1
  <2> HIDE DEF A, B
  <2>3. u \in Seq(B) /\ v \in Seq(B)
    BY <2>2
  <2> QED
    BY <2>3 DEF PassingTexts, B
<1>2. /\ s \in PassingTexts /\ DOMAIN s = Rows(u, D)
      /\ \A r \in Rows(u, D) : KernelRow(s[r], D) = KernelRow(u[r], D)
  BY <1>1, ChainShows
<1>3. /\ t \in PassingTexts /\ DOMAIN t = Rows(v, D)
      /\ \A r \in Rows(v, D) : KernelRow(t[r], D) = KernelRow(v[r], D)
  BY <1>1, ChainShows
<1>4. InMode(c.mode, s) = InMode(c.mode, t)
  BY DEF NormalizeForCompare
<1>5. Essence(u, c, Cuts) = InMode(c.mode, eu) /\ Essence(v, c, Cuts) = InMode(c.mode, ev)
  BY EssenceInMode
<1> HIDE DEF s, t, D
<1>6. IsFiniteSet(DOMAIN s) /\ IsFiniteSet(DOMAIN t)
  <2>1. \A x \in PassingTexts : Len(x) \in Nat /\ DOMAIN x = 1 .. Len(x)
    BY DEF PassingTexts
  <2>2. \A n \in Nat : IsFiniteSet(1 .. n)
    BY FS_Interval
  <2> QED
    BY <1>2, <1>3, <2>1, <2>2
<1>7. DOMAIN eu = DOMAIN s /\ DOMAIN ev = DOMAIN t
  BY <1>2, <1>3 DEF EssenceRows
<1>8. eu = [i \in DOMAIN eu |-> eu[i]] /\ ev = [i \in DOMAIN ev |-> ev[i]]
  BY DEF EssenceRows
<1>9. \A i \in DOMAIN s : \A j \in DOMAIN t : s[i] = t[j] => eu[i] = ev[j]
  <2> SUFFICES ASSUME NEW i \in DOMAIN s, NEW j \in DOMAIN t, s[i] = t[j] PROVE eu[i] = ev[j]
    OBVIOUS
  <2>1. i \in Rows(u, D) /\ j \in Rows(v, D)
    BY <1>2, <1>3
  <2>2. KernelRow(u[i], D) = KernelRow(v[j], D)
    BY <1>2, <1>3, <2>1
  <2>3. u[i] \in Seq(Cells) /\ v[j] \in Seq(Cells)
    <3>1. i \in DOMAIN u /\ j \in DOMAIN v
      BY <2>1 DEF Rows
    <3> DEFINE S == Seq(Cells)
    <3>2. u \in Seq(S) /\ v \in Seq(S)
      OBVIOUS
    <3> HIDE DEF S
    <3>3. u[i] \in S /\ v[j] \in S
      BY <3>1, <3>2
    <3> QED
      BY <3>3 DEF S
  <2>4. eu[i] = [k \in DOMAIN u[i] |-> EssenceOfCell(u[i][k], D, Cuts)]
    BY <2>1 DEF EssenceRows
  <2>5. ev[j] = [k \in DOMAIN v[j] |-> EssenceOfCell(v[j][k], D, Cuts)]
    BY <2>1 DEF EssenceRows
  <2> QED
    BY <2>2, <2>3, <2>4, <2>5, KernelRowGivesEssence
<1> HIDE DEF eu, ev
<1>10. InMode(c.mode, eu) = InMode(c.mode, ev)
  BY <1>4, <1>6, <1>7, <1>8, <1>9, ModeFollows
<1> QED
  BY <1>5, <1>10

-----------------------------------------------------------------------------
(* The verdict on the target *)

\* psql has run twice, with the same rows, the first time without an error.
Steady ==
  /\ psql[1] # Err /\ psql[1].exit = 0
  /\ psql[2] # Err /\ SameOutput(psql[1], psql[2])

\* How often psql has run, and what the verdict on the target stands on: a psql that is
\* steady, and a third run compared with the target's.
Judged ==
  /\ step \in {"resolve", "first"} => psql = <<>>
  /\ step = "second" => Len(psql) = 1 /\ psql[1] # Err /\ psql[1].exit = 0
  /\ step = "again" => Len(psql) = 2 /\ Steady
  /\ step = "target" => Len(psql) = 3 /\ Steady /\ psql[3] # Err
  /\ step # "count" => outcome.target = NotRun
  /\ outcome.target # NotRun => Len(psql) = 3 /\ Steady
  /\ outcome.target \in {"passed", "failed"} =>
       psql[3] # Err /\ shown # Err /\ (outcome.target = "passed" <=> Agrees(psql[3], shown))

\* The runs and the case are what the verdict is about.
LEMMA VerdictKept ==
  ASSUME UNCHANGED <<case, psql, shown>>
  PROVE  /\ Steady' <=> Steady
         /\ Agrees(psql[3], shown)' <=> Agrees(psql[3], shown)
BY DEF Steady, Agrees, SameOutput

LEMMA JudgedHolds == IInv /\ Judged /\ [Next]_vars => Judged'
<1> SUFFICES ASSUME IInv, Judged, [Next]_vars PROVE Judged'
  OBVIOUS
<1>0. /\ outcome \in [self : Status \cup {NotRun}, target : Status \cup {NotRun}]
      /\ psql \in Seq(Runs)
  BY DEF IInv, Types
<1>1. "passed" # NotRun /\ "skipped" # NotRun /\ "failed" # NotRun
  BY DEF NotRun
<1>2. CASE Resolve
  <2>1. UNCHANGED <<psql, outcome>> /\ step' \in {"first", "write"} /\ step = "resolve"
    BY <1>2 DEF Resolve
  <2> QED
    BY <1>1, <2>1 DEF Judged
<1>3. CASE First
  <2>1. PICK run \in Runs :
          /\ psql' = <<run>>
          /\ IF run = Err \/ run.exit # 0 THEN Settle("skipped", NotRun)
                                        ELSE step' = "second" /\ UNCHANGED outcome
    BY <1>3 DEF First
  <2>2. Len(psql') = 1 /\ psql'[1] = run /\ outcome.target = NotRun
    BY <1>3, <2>1 DEF Judged, First
  <2>3. CASE run = Err \/ run.exit # 0
    <3>1. step' = "count" /\ outcome'.target = NotRun
      BY <2>1, <2>3 DEF Settle
    <3> QED
      BY <1>1, <3>1 DEF Judged
  <2>4. CASE ~ (run = Err \/ run.exit # 0)
    <3>1. step' = "second" /\ outcome'.target = NotRun
      BY <2>1, <2>2, <2>4
    <3> QED
      BY <1>1, <2>2, <2>4, <3>1 DEF Judged
  <2> QED
    BY <2>3, <2>4
<1>4. CASE Second
  <2>1. PICK run \in Runs :
          /\ psql' = Append(psql, run)
          /\ \/ step' = "count" /\ outcome'.target = NotRun
             \/ (/\ run # Err /\ SameOutput(psql[1], run) /\ step' = "again"
                 /\ outcome'.target = NotRun)
    BY <1>4 DEF Second, Settle
  <2>2. Len(psql) = 1 /\ psql[1] # Err /\ psql[1].exit = 0 /\ case' = case
    BY <1>4 DEF Judged, Second
  <2>3. Len(psql') = 2 /\ psql'[1] = psql[1] /\ psql'[2] = run
    BY <1>0, <2>1, <2>2, Asked
  <2>4. CASE step' = "count" /\ outcome'.target = NotRun
    BY <1>1, <2>4 DEF Judged
  <2>5. CASE run # Err /\ SameOutput(psql[1], run) /\ step' = "again" /\ outcome'.target = NotRun
    <3>1. SameOutput(psql[1], psql[2])'
      BY <2>2, <2>3, <2>5 DEF SameOutput
    <3>2. Steady'
      BY <2>2, <2>3, <2>5, <3>1 DEF Steady
    <3> QED
      BY <1>1, <2>3, <2>5, <3>2 DEF Judged
  <2> QED
    BY <2>1, <2>4, <2>5
<1>5. CASE Again
  <2>1. PICK run \in Runs :
          /\ psql' = Append(psql, run)
          /\ \/ step' = "count" /\ outcome'.target = "skipped"
             \/ run # Err /\ step' = "target" /\ UNCHANGED outcome
    BY <1>5 DEF Again, Settle
  <2>2. Len(psql) = 2 /\ Steady /\ case' = case /\ outcome.target = NotRun
    BY <1>5 DEF Judged, Again
  <2>3. Len(psql') = 3 /\ psql'[1] = psql[1] /\ psql'[2] = psql[2] /\ psql'[3] = run
    BY <1>0, <2>1, <2>2, Asked
  <2>4. Steady'
    BY <2>2, <2>3 DEF Steady, SameOutput
  <2> QED
    BY <1>1, <2>1, <2>2, <2>3, <2>4 DEF Judged
<1>6. CASE Target
  <2>1. PICK run \in Runs :
          /\ shown' = run
          /\ outcome' = [self |-> "passed", target |-> IF run = Err THEN "skipped"
                                              ELSE IF Agrees(psql[3], run) THEN "passed" ELSE "failed"]
          /\ step' = "count"
    BY <1>6 DEF Target, Settle
  <2>2. psql' = psql /\ case' = case /\ Len(psql) = 3 /\ Steady /\ psql[3] # Err
    BY <1>6 DEF Target, Judged
  <2>3. Steady' /\ Len(psql') = 3 /\ psql'[3] # Err
    BY <2>2 DEF Steady, SameOutput
  <2>4. Agrees(psql[3], shown)' <=> Agrees(psql[3], run)
    BY <2>1, <2>2 DEF Agrees, SameOutput
  <2>5. outcome'.target \in {"passed", "failed"} =>
          run # Err /\ (outcome'.target = "passed" <=> Agrees(psql[3], run))
    BY <1>1, <2>1
  <2> QED
    BY <2>1, <2>3, <2>4, <2>5 DEF Judged
<1>7. CASE Count
  <2>1. psql' = <<>> /\ step' = "first" /\ outcome'.target = NotRun
    BY <1>7 DEF Count
  <2> QED
    BY <1>1, <2>1 DEF Judged
<1>8. CASE CasesEnd \/ Write
  <2>1. step' \in {"write", "over"} /\ outcome'.target = NotRun
    BY <1>8 DEF CasesEnd, Write, Judged
  <2> QED
    BY <1>1, <2>1 DEF Judged
<1>9. CASE UNCHANGED vars
  <2>1. UNCHANGED <<case, psql, shown, step, outcome>>
    BY <1>9 DEF vars
  <2> QED
    BY <2>1, VerdictKept DEF Judged
<1> QED
  BY <1>2, <1>3, <1>4, <1>5, <1>6, <1>7, <1>8, <1>9 DEF Next

\* The verdict on the target stands on two outputs compared.
LEMMA JudgedAlways == Spec => []Judged
<1>1. Init => Judged
  <2> SUFFICES ASSUME Init PROVE Judged
    OBVIOUS
  <2>1. outcome = [self |-> NotRun, target |-> NotRun] /\ step = "resolve" /\ psql = <<>>
    BY DEF Init
  <2>2. outcome.target = NotRun /\ NotRun # "passed" /\ NotRun # "failed"
    BY <2>1 DEF NotRun
  <2> QED
    BY <2>1, <2>2 DEF Judged
<1>2. IInv /\ Judged /\ [Next]_vars => Judged'
  BY JudgedHolds
<1> QED
  BY <1>1, <1>2, Invariance, PTL DEF Spec

\* run_cases_with in src/beyond_sqlite/oracle.rs holds a case against the target only if
\* psql gave the same rows twice, and fails it only for a difference that is there: if
\* all three runs of psql were the same, the target did as none of them.
THEOREM TargetIsNotBlamed == Spec => []TargetNotBlamed
<1>1. Judged => TargetNotBlamed
  <2> SUFFICES ASSUME Judged, outcome.target # NotRun
               PROVE  /\ psql[1].exit = 0 /\ SameOutput(psql[1], psql[2])
                      /\ outcome.target = "failed" /\ (\A k \in 2 .. 3 : Agrees(psql[1], psql[k])) =>
                           \A k \in 1 .. 3 : ~Agrees(psql[k], shown)
    BY DEF TargetNotBlamed
  <2>1. psql[1].exit = 0 /\ SameOutput(psql[1], psql[2])
    BY DEF Judged, Steady
  <2>2. ASSUME outcome.target = "failed", \A k \in 2 .. 3 : Agrees(psql[1], psql[k]), NEW k \in 1 .. 3
        PROVE  ~Agrees(psql[k], shown)
    <3>1. ~Agrees(psql[3], shown)
      BY <2>2 DEF Judged
    <3>2. Agrees(psql[1], psql[3])
      BY <2>2
    <3>3. Agrees(psql[k], psql[3])
      <4>1. k = 1 \/ k = 2 \/ k = 3
        OBVIOUS
      <4>2. Agrees(psql[1], psql[2])
        BY <2>2
      <4> QED
        BY <3>2, <4>1, <4>2 DEF Agrees, SameOutput
    <3> QED
      BY <3>1, <3>3 DEF Agrees, SameOutput
  <2> QED
    BY <2>1, <2>2
<1> QED
  BY <1>1, JudgedAlways, PTL

\* A target that passes a case shows what the reference shows, up to what the case
\* declares: for any declared chain of normalizers, in any order and of any length, and
\* any output of psql and of the target, normalize_for_compare in
\* src/beyond_sqlite/oracle.rs loses no difference that no declared normalizer of
\* src/beyond_sqlite/normalize.rs is there to ignore.
THEOREM HidesNothingElse == Spec => []HidesOnlyDeclared
<1>1. IInv /\ Judged => HidesOnlyDeclared
  <2> SUFFICES ASSUME IInv, Judged, outcome.target = "passed"
               PROVE  /\ shown.exit = psql[3].exit
                      /\ Essence(shown.text, case, Cuts) = Essence(psql[3].text, case, Cuts)
    BY DEF HidesOnlyDeclared
  <2>1. psql \in Seq(Runs) /\ Len(psql) = 3 /\ shown \in Runs /\ psql[3] # Err /\ shown # Err
        /\ Agrees(psql[3], shown)
    BY DEF IInv, Types, Judged, NotRun
  <2>2. psql[3] \in Runs
    <3>1. psql \in Seq(Runs) /\ 3 \in 1 .. Len(psql)
      BY <2>1
    <3> QED
      BY <3>1, ElementOfSeq
  <2>3. psql[3].text \in Prints[case] /\ shown.text \in Prints[case]
    BY <2>1, <2>2 DEF Runs
  <2>4. psql[3].text \in Seq(Seq(Cells)) /\ shown.text \in Seq(Seq(Cells))
    BY <2>3, OracleAssumption DEF IInv, Types
  <2>5. case.mode \in CompareMode /\ case.normalizers \in Seq(Normalizer)
    BY OracleAssumption DEF IInv, Types
  <2>6. /\ shown.exit = psql[3].exit
        /\ NormalizeForCompare(psql[3].text, case) = NormalizeForCompare(shown.text, case)
    BY <2>1 DEF Agrees, SameOutput
  <2> QED
    BY <2>4, <2>5, <2>6, SameOutputSameEssence
<1> QED
  BY <1>1, Invariance, JudgedAlways, PTL

-----------------------------------------------------------------------------
(* A normalizer applied twice *)

LEMMA MappedTwice ==
  ASSUME NEW n \in DOMAIN Tables, NEW w
  PROVE  Mapped(Tables[n], Mapped(Tables[n], w)) = Mapped(Tables[n], w)
<1>1. CASE n = "strip_trailing_ws"
  BY <1>1 DEF Tables, Mapped, Blanks
<1>2. CASE n = "pg_null_blank_to_null"
  BY <1>2 DEF Tables, Mapped, Nulls
<1>3. CASE n = "boolean_tf_to_int"
  BY <1>3 DEF Tables, Mapped, Bits
<1>4. CASE n = "timestamp_iso_to_seconds"
  BY <1>4 DEF Tables, Mapped, Cuts, Timestamps
<1>5. CASE n = "numeric_normalize"
  BY <1>5 DEF Tables, Mapped, Doubles
<1>6. CASE n = "jsonb_canonical"
  BY <1>6 DEF Tables, Mapped, Jsons, Numbers, Doubles
<1> QED
  BY <1>1, <1>2, <1>3, <1>4, <1>5, <1>6 DEF Tables

LEMMA MapScalarTwice ==
  ASSUME NEW n \in DOMAIN Tables, NEW cell
  PROVE  MapScalar(Tables[n], MapScalar(Tables[n], cell)) = MapScalar(Tables[n], cell)
<1>1. \A w : IsScalar(Scalar(w)) /\ Word(Scalar(w)) = w
  BY DEF IsScalar, Scalar, Word, Bare
<1> QED
  BY <1>1, MappedTwice DEF MapScalar

LEMMA MapItemTwice ==
  ASSUME NEW n \in DOMAIN Tables, NEW item \in Items
  PROVE  MapItem(Tables[n], MapItem(Tables[n], item)) = MapItem(Tables[n], item)
<1> DEFINE map == Tables[n]
           ws == [k \in 1 .. Len(item.words) |-> Mapped(map, item.words[k])]
           new == [quotes |-> item.quotes, words |-> ws, key |-> item.key]
<1>1. MapItem(map, item) = new
  BY RewrittenIs
<1>2. new \in Items
  BY <1>1, RewrittenItem
<1>3. new.quotes = item.quotes /\ new.words = ws /\ new.key = item.key
  OBVIOUS
<1>4. Len(item.words) \in Nat
  BY ItemShape
<1>5. Len(ws) = Len(item.words) /\ \A k \in 1 .. Len(item.words) : ws[k] = Mapped(map, item.words[k])
  BY <1>4
<1>6. ws = [k \in 1 .. Len(item.words) |-> ws[k]]
  OBVIOUS
<1> HIDE DEF ws, new, map
<1>7. MapItem(map, new) =
        [quotes |-> new.quotes, words |-> [k \in 1 .. Len(new.words) |-> Mapped(map, new.words[k])],
         key |-> new.key]
  BY <1>2, RewrittenIs
<1>8. \A k \in 1 .. Len(item.words) : Mapped(map, ws[k]) = ws[k]
  BY <1>5, MappedTwice DEF map
<1>9. [k \in 1 .. Len(ws) |-> Mapped(map, ws[k])] = ws
  BY <1>5, <1>6, <1>8
<1> QED
  BY <1>1, <1>3, <1>7, <1>9 DEF new, map

LEMMA MapWordsTwice ==
  ASSUME NEW n \in DOMAIN Tables, NEW cell \in Passing
  PROVE  MapWords(Tables[n], MapWords(Tables[n], cell)) = MapWords(Tables[n], cell)
<1> DEFINE map == Tables[n]
           its == [i \in 1 .. Len(cell.items) |-> MapItem(map, cell.items[i])]
           new == [bracket |-> cell.bracket, items |-> its]
<1>1. MapWords(map, cell) = new
  BY MapWordsIs
<1>2. new \in Passing
  BY <1>1, MapWordsKeeps
<1>3. new.bracket = cell.bracket /\ new.items = its
  OBVIOUS
<1>4. Len(cell.items) \in Nat /\ \A i \in 1 .. Len(cell.items) : cell.items[i] \in Items
  BY CellShape
<1>5. Len(its) = Len(cell.items) /\ \A i \in 1 .. Len(cell.items) : its[i] = MapItem(map, cell.items[i])
  BY <1>4
<1>6. its = [i \in 1 .. Len(cell.items) |-> its[i]]
  OBVIOUS
<1> HIDE DEF its, new, map
<1>7. MapWords(map, new) =
        [bracket |-> new.bracket, items |-> [i \in 1 .. Len(new.items) |-> MapItem(map, new.items[i])]]
  BY <1>2, MapWordsIs
<1>8. \A i \in 1 .. Len(cell.items) : MapItem(map, its[i]) = its[i]
  BY <1>4, <1>5, MapItemTwice DEF map
<1>9. [i \in 1 .. Len(its) |-> MapItem(map, its[i])] = its
  BY <1>5, <1>6, <1>8
<1> QED
  BY <1>1, <1>3, <1>7, <1>9 DEF new, map

\* The members of an object in order stay as they are.
LEMMA SortedStays ==
  ASSUME NEW items \in Seq(Items), Distinct(items), Ascending(items)
  PROVE  ByKey(items) = items
<1> DEFINE s == ByKey(items)
<1>1. s \in Seq(Items) /\ Len(s) = Len(items) /\ ToSet(s) = ToSet(items) /\ Ascending(s)
  BY ByKeySorts
<1>2. Len(items) \in 0 .. 2 /\ \A i \in 1 .. Len(items) : items[i].words[1] \in {"k1", "k2"}
  BY FewMembers
<1>3. \A k \in {"k1", "k2"} : Rank[k] \in Nat
  BY DEF Rank
<1> HIDE DEF s
<1>4. DOMAIN items = 1 .. Len(items) /\ DOMAIN s = 1 .. Len(items)
  BY <1>1
<1>8. items = [i \in 1 .. Len(items) |-> items[i]] /\ s = [i \in 1 .. Len(items) |-> s[i]]
  BY <1>1
<1>9. SUFFICES \A i \in 1 .. Len(items) : s[i] = items[i]
  BY <1>8 DEF s
<1>5. CASE Len(items) = 2
  <2>1. DOMAIN items = {1, 2} /\ DOMAIN s = {1, 2}
    BY <1>4, <1>5
  <2>2. s[1] \in {items[1], items[2]} /\ s[2] \in {items[1], items[2]}
    BY <1>1, <2>1 DEF ToSet
  <2>3. /\ Rank[items[1].words[1]] < Rank[items[2].words[1]]
        /\ Rank[s[1].words[1]] < Rank[s[2].words[1]]
    BY <1>1, <2>1 DEF Ascending
  <2>4. Rank[items[1].words[1]] \in Nat /\ Rank[items[2].words[1]] \in Nat
    BY <1>2, <1>3, <1>5
  <2>5. s[1] = items[1] /\ s[2] = items[2]
    BY <2>2, <2>3, <2>4
  <2> QED
    BY <1>4, <2>1, <2>5
<1>6. CASE Len(items) = 1
  <2>1. DOMAIN items = {1} /\ DOMAIN s = {1}
    BY <1>4, <1>6
  <2>2. s[1] = items[1]
    BY <1>1, <2>1 DEF ToSet
  <2> QED
    BY <1>4, <2>1, <2>2
<1>7. CASE Len(items) = 0
  BY <1>7
<1> QED
  BY <1>2, <1>5, <1>6, <1>7

LEMMA JsonbTwice ==
  ASSUME NEW cell \in Passing
  PROVE  JsonbCanonical(JsonbCanonical(cell)) = JsonbCanonical(cell)
<1> DEFINE n == "jsonb_canonical"
           out == JsonbCanonical(cell)
<1>1. n \in DOMAIN Tables /\ Tables[n] = Jsons
  BY DEF Tables
<1>2. /\ DOMAIN cell.items = 1 .. Len(cell.items) /\ Len(cell.items) \in Nat
      /\ cell.items \in Seq(Items) /\ \A i \in 1 .. Len(cell.items) : cell.items[i] \in Items
  BY CellShape
<1>3. cell = [bracket |-> cell.bracket, items |-> cell.items]
  BY CellIs
<1>4. CASE IsObject(cell)
  <2> DEFINE s == ByKey(cell.items)
             new == [bracket |-> cell.bracket, items |-> s]
  <2>1. Keeps(new, cell, {n})
    BY <1>4, SortKeeps
  <2>2. [cell EXCEPT !.items = ByKey(@)] = new
    BY <1>3
  <2>3. cell.bracket = "{" /\ ~IsArray(cell)
    BY <1>4 DEF IsObject, IsArray
  <2>4. out = MapWords(Jsons, new)
    BY Zenon, <1>4, <2>2, <2>3 DEF JsonbCanonical
  <2>5. Distinct(cell.items)
    <3>1. Keyed(cell) => Distinct(cell.items)
      BY CellShape
    <3>2. \A i \in DOMAIN cell.items : cell.items[i].key
      BY <1>4 DEF IsObject
    <3> QED
      BY <3>1, <3>2 DEF Keyed, Distinct
  <2>6. s \in Seq(Items) /\ Ascending(s) /\ Distinct(s)
    BY <1>2, <2>5, ByKeySorts
  <2>7. new.bracket = "{" /\ new.items = s
    BY <2>3
  <2>8. new \in Passing
    BY <2>1 DEF Keeps
  <2> DEFINE its == [i \in 1 .. Len(s) |-> MapItem(Jsons, s[i])]
  <2>9. out = [bracket |-> "{", items |-> its]
    <3> HIDE DEF s, new, its, out
    <3>1. MapWords(Jsons, new) =
            [bracket |-> new.bracket, items |-> [i \in 1 .. Len(new.items) |-> MapItem(Jsons, new.items[i])]]
      BY <2>8, MapWordsIs
    <3> QED
      BY Zenon, <2>4, <2>7, <3>1 DEF its
  <2>10. out.bracket = "{" /\ out.items = its
    <3> HIDE DEF out, its
    <3> QED
      BY <2>9
  <2> HIDE DEF s, new, out
  <2>11. DOMAIN s = 1 .. Len(s) /\ Len(s) \in Nat /\ \A i \in 1 .. Len(s) : s[i] \in Items
    BY <2>6
  <2>12. \A i \in 1 .. Len(s) :
           /\ MapItem(Jsons, s[i]) \in Items /\ MapItem(Jsons, s[i]).key = s[i].key
           /\ s[i].key => MapItem(Jsons, s[i]).words[1] = s[i].words[1]
    BY <1>1, <2>11, RewrittenItem
  <2>13. \A i \in 1 .. Len(s) : s[i].key
    BY <2>6, <2>11 DEF Distinct
  <2>14. /\ DOMAIN its = 1 .. Len(s)
         /\ \A i \in 1 .. Len(s) : its[i] \in Items /\ its[i].key /\ its[i].words[1] = s[i].words[1]
    BY <2>12, <2>13
  <2>15. its \in Seq(Items)
    <3>1. its \in [1 .. Len(s) -> Items]
      BY <2>12
    <3> HIDE DEF its
    <3> QED
      BY <2>11, <3>1
  <2> HIDE DEF its
  <2>16. Distinct(its) /\ Ascending(its)
    BY <2>6, <2>11, <2>14 DEF Distinct, Ascending
  <2>17. ByKey(its) = its
    BY <2>15, <2>16, SortedStays
  <2>18. IsObject(out) /\ ~IsArray(out)
    BY <2>10, <2>14 DEF IsObject, IsArray
  <2>19. [out EXCEPT !.items = its] = out
    <3>1. out = [bracket |-> out.bracket, items |-> out.items]
      BY Zenon, <2>9, <2>10
    <3>2. [out EXCEPT !.items = its] = [bracket |-> out.bracket, items |-> its]
      BY <3>1
    <3> QED
      BY Zenon, <2>10, <3>1, <3>2
  <2>20. JsonbCanonical(out) = MapWords(Jsons, out)
    BY Zenon, <2>10, <2>17, <2>18, <2>19 DEF JsonbCanonical
  <2>21. MapWords(Jsons, out) = out
    BY <1>1, <2>4, <2>8, MapWordsTwice
  <2> QED
    BY <2>20, <2>21 DEF out
<1>5. CASE ~IsObject(cell) /\ IsArray(cell)
  <2> DEFINE Digits(item) == IF IsNumber(item) THEN Bare(Jsons[item.words[1]]) ELSE item
             its == [i \in 1 .. Len(cell.items) |-> Digits(cell.items[i])]
  <2>1. out = [cell EXCEPT !.items = its]
    BY Zenon, <1>2, <1>5 DEF JsonbCanonical
  <2>2. cell.bracket = "["
    BY <1>5 DEF IsArray
  <2>3. \A x : IsNumber(x) => IsNumber(Digits(x)) /\ Digits(Digits(x)) = Digits(x) /\ ~Digits(x).key
    <3> SUFFICES ASSUME NEW x, IsNumber(x)
                 PROVE  IsNumber(Digits(x)) /\ Digits(Digits(x)) = Digits(x) /\ ~Digits(x).key
      OBVIOUS
    <3> DEFINE w == Jsons[x.words[1]]
    <3>1. Digits(x) = Bare(w)
      OBVIOUS
    <3>2. x.words[1] \in Numbers
      BY DEF IsNumber
    <3>3. w \in Numbers /\ Jsons[w] = w
      BY <3>2 DEF Jsons, Numbers, Doubles
    <3> HIDE DEF w
    <3>4. Bare(w).words[1] = w /\ Bare(w).quotes = 0 /\ Bare(w).key = FALSE
      BY DEF Bare
    <3>5. IsNumber(Bare(w))
      BY <3>3, <3>4 DEF IsNumber
    <3>6. Digits(Bare(w)) = Bare(w)
      BY <3>3, <3>4, <3>5
    <3> HIDE DEF Digits
    <3> QED
      BY <3>1, <3>4, <3>5, <3>6
  <2>4. \A x : ~IsNumber(x) => Digits(x) = x
    OBVIOUS
  <2>5. /\ DOMAIN its = 1 .. Len(cell.items) /\ its = [i \in 1 .. Len(cell.items) |-> its[i]]
        /\ \A i \in 1 .. Len(cell.items) : its[i] = Digits(cell.items[i])
    OBVIOUS
  <2> HIDE DEF its, out
  <2>6. out = [bracket |-> "[", items |-> its]
    BY <1>3, <2>1, <2>2
  <2>7. out.bracket = "[" /\ out.items = its
    BY <2>6
  <2>8. \A i \in 1 .. Len(cell.items) :
          ~cell.items[i].key /\ (cell.items[i].quotes > 0 \/ IsNumber(cell.items[i]))
    BY <1>2, <1>5 DEF IsArray
  <2> HIDE DEF Digits
  <2>9. \A i \in 1 .. Len(cell.items) :
          ~its[i].key /\ (its[i].quotes > 0 \/ IsNumber(its[i])) /\ Digits(its[i]) = its[i]
    BY <2>3, <2>4, <2>5, <2>8
  <2>10. IsArray(out) /\ ~IsObject(out)
    <3>1. \A i \in DOMAIN its : ~its[i].key /\ (its[i].quotes > 0 \/ IsNumber(its[i]))
      BY <2>5, <2>9
    <3> QED
      BY <2>7, <3>1 DEF IsArray, IsObject
  <2>11. [i \in DOMAIN out.items |-> Digits(out.items[i])] = its
    BY <2>5, <2>7, <2>9
  <2>12. JsonbCanonical(out) = [out EXCEPT !.items = [i \in DOMAIN out.items |-> Digits(out.items[i])]]
    BY Zenon, <2>10 DEF JsonbCanonical, Digits
  <2> QED
    BY <2>6, <2>11, <2>12 DEF out
<1>6. CASE ~IsObject(cell) /\ ~IsArray(cell)
  <2>1. JsonbCanonical(cell) = cell
    BY <1>6 DEF JsonbCanonical
  <2> QED
    BY <2>1
<1> QED
  BY <1>4, <1>5, <1>6

LEMMA BraceToBracketTwice ==
  ASSUME NEW cell \in Passing
  PROVE  PgArrayBraceToBracket(PgArrayBraceToBracket(cell)) = PgArrayBraceToBracket(cell)
<1> DEFINE new == [bracket |-> "[", items |-> cell.items]
<1>1. cell = [bracket |-> cell.bracket, items |-> cell.items]
  BY CellIs
<1>2. [cell EXCEPT !.bracket = "["] = new
  BY <1>1
<1>3. new.bracket # "{"
  OBVIOUS
<1> HIDE DEF new
<1> QED
  BY Zenon, <1>2, <1>3 DEF PgArrayBraceToBracket

LEMMA OfCellTwice ==
  ASSUME NEW cell \in Passing, NEW n \in Normalizer,
         n \notin {"timestamp_iso_to_seconds", "strip_trailing_ws", "error_first_line_only",
                   "json_string_array_unquote"}
  PROVE  OfCell(n, OfCell(n, cell)) = OfCell(n, cell)
<1>1. /\ Tables["boolean_tf_to_int"] = Bits /\ Tables["pg_null_blank_to_null"] = Nulls
      /\ Tables["numeric_normalize"] = Doubles
      /\ {"boolean_tf_to_int", "pg_null_blank_to_null", "numeric_normalize"} \subseteq DOMAIN Tables
  BY DEF Tables
<1>2. CASE n \in {"boolean_tf_to_int", "pg_null_blank_to_null", "numeric_normalize"}
  <2>1. \A x : OfCell(n, x) = MapScalar(Tables[n], x)
    BY <1>1, <1>2 DEF OfCell
  <2>2. n \in DOMAIN Tables
    BY <1>1, <1>2
  <2> QED
    BY <2>1, <2>2, MapScalarTwice
<1>3. CASE n = "jsonb_canonical"
  <2>1. \A x : OfCell(n, x) = JsonbCanonical(x)
    BY <1>3 DEF OfCell
  <2> QED
    BY <2>1, JsonbTwice
<1>4. CASE n = "pg_array_brace_to_bracket"
  <2>1. \A x : OfCell(n, x) = PgArrayBraceToBracket(x)
    BY <1>4 DEF OfCell
  <2> QED
    BY <2>1, BraceToBracketTwice
<1> QED
  BY <1>2, <1>3, <1>4 DEF Normalizer

\* A text whose cells an operation leaves alone is left alone.
LEMMA CellsStay ==
  ASSUME NEW new, NEW cells,
         new = [r \in DOMAIN new |-> [c \in DOMAIN new[r] |-> new[r][c]]],
         \A r \in DOMAIN new : \A c \in DOMAIN new[r] : cells[r][c] = new[r][c]
  PROVE  [r \in DOMAIN new |-> [c \in DOMAIN new[r] |-> cells[r][c]]] = new
<1>1. \A r \in DOMAIN new :
        [c \in DOMAIN new[r] |-> cells[r][c]] = [c \in DOMAIN new[r] |-> new[r][c]]
  OBVIOUS
<1>2. [r \in DOMAIN new |-> [c \in DOMAIN new[r] |-> cells[r][c]]]
        = [r \in DOMAIN new |-> [c \in DOMAIN new[r] |-> new[r][c]]]
  BY <1>1
<1> QED
  BY Zenon, <1>2

\* Cell by cell, twice.
LEMMA CellwiseTwice ==
  ASSUME NEW text \in PassingTexts, NEW n \in Normalizer,
         n \notin {"timestamp_iso_to_seconds", "strip_trailing_ws", "error_first_line_only",
                   "json_string_array_unquote"}
  PROVE  Apply(Apply(text, n), n) = Apply(text, n)
<1> DEFINE new == [r \in DOMAIN text |-> [c \in DOMAIN text[r] |-> OfCell(n, text[r][c])]]
           cells == [r \in DOMAIN new |-> [c \in DOMAIN new[r] |-> OfCell(n, new[r][c])]]
<1>1. \A x : Apply(x, n) = [r \in DOMAIN x |-> [c \in DOMAIN x[r] |-> OfCell(n, x[r][c])]]
  BY Zenon DEF Apply
<1>2. \A r \in DOMAIN text : \A c \in DOMAIN text[r] : text[r][c] \in Passing
  BY DEF PassingTexts
<1>3. /\ DOMAIN new = DOMAIN text
      /\ \A r \in DOMAIN new : DOMAIN new[r] = DOMAIN text[r]
      /\ \A r \in DOMAIN new : \A c \in DOMAIN new[r] : new[r][c] = OfCell(n, text[r][c])
      /\ new = [r \in DOMAIN new |-> [c \in DOMAIN new[r] |-> new[r][c]]]
  OBVIOUS
<1> HIDE DEF new
<1>4. \A r \in DOMAIN new : \A c \in DOMAIN new[r] : OfCell(n, new[r][c]) = new[r][c]
  BY <1>2, <1>3, OfCellTwice
<1>5. \A r \in DOMAIN new : \A c \in DOMAIN new[r] : cells[r][c] = new[r][c]
  BY <1>4
<1>6. cells = [r \in DOMAIN new |-> [c \in DOMAIN new[r] |-> cells[r][c]]]
  OBVIOUS
<1>7. Apply(text, n) = new /\ Apply(new, n) = cells
  BY Zenon, <1>1 DEF new
<1> HIDE DEF cells
<1>8. cells = new
  BY <1>3, <1>5, <1>6, CellsStay
<1> QED
  BY <1>7, <1>8

\* Where the colons are, no fraction matters.
LEMMA ColonStays ==
  ASSUME NEW cell \in Passing
  PROVE  HasColon(MapWords(Cuts, cell)) <=> HasColon(cell)
<1> DEFINE n == "timestamp_iso_to_seconds"
           its == [i \in 1 .. Len(cell.items) |-> MapItem(Cuts, cell.items[i])]
           new == [bracket |-> cell.bracket, items |-> its]
<1>1. n \in DOMAIN Tables /\ Tables[n] = Cuts
  BY DEF Tables
<1>2. MapWords(Cuts, cell) = new
  BY MapWordsIs
<1>3. new.items = its
  OBVIOUS
<1>4. /\ DOMAIN cell.items = 1 .. Len(cell.items)
      /\ \A i \in 1 .. Len(cell.items) : cell.items[i] \in Items
  BY CellShape
<1>5. \A w : Mapped(Cuts, w) \in Timestamps <=> w \in Timestamps
  BY DEF Mapped, Cuts, Timestamps
<1>6. \A item \in Items :
        /\ MapItem(Cuts, item).key = item.key
        /\ DOMAIN MapItem(Cuts, item).words = DOMAIN item.words
        /\ \A k \in DOMAIN item.words : MapItem(Cuts, item).words[k] = Mapped(Cuts, item.words[k])
  <2> TAKE item \in Items
  <2> DEFINE ws == [k \in 1 .. Len(item.words) |-> Mapped(Cuts, item.words[k])]
  <2>1. MapItem(Cuts, item) = [quotes |-> item.quotes, words |-> ws, key |-> item.key]
    BY RewrittenIs
  <2>2. DOMAIN item.words = 1 .. Len(item.words)
    BY ItemShape
  <2>3. DOMAIN ws = DOMAIN item.words /\ \A k \in DOMAIN item.words : ws[k] = Mapped(Cuts, item.words[k])
    BY <2>2
  <2> HIDE DEF ws
  <2> QED
    BY <2>1, <2>3
<1>7. /\ DOMAIN its = 1 .. Len(cell.items)
      /\ \A i \in 1 .. Len(cell.items) :
           /\ its[i].key = cell.items[i].key
           /\ DOMAIN its[i].words = DOMAIN cell.items[i].words
           /\ \A k \in DOMAIN its[i].words :
                its[i].words[k] \in Timestamps <=> cell.items[i].words[k] \in Timestamps
  BY <1>4, <1>5, <1>6
<1> HIDE DEF its, new
<1> QED
  BY <1>2, <1>3, <1>4, <1>7 DEF HasColon

LEMMA TimestampTwice ==
  ASSUME NEW text \in PassingTexts
  PROVE  TimestampIsoToSeconds(TimestampIsoToSeconds(text)) = TimestampIsoToSeconds(text)
<1> DEFINE Cut(x) == [r \in DOMAIN x |-> [c \in DOMAIN x[r] |->
                        IF AfterColon(x, r, c) THEN MapWords(Cuts, x[r][c]) ELSE x[r][c]]]
           new == Cut(text)
           cells == Cut(new)
<1>1. \A x : TimestampIsoToSeconds(x) = Cut(x)
  BY Zenon DEF TimestampIsoToSeconds
<1>2. \A r \in DOMAIN text : \A c \in DOMAIN text[r] : text[r][c] \in Passing
  BY DEF PassingTexts
<1>3. /\ DOMAIN new = DOMAIN text
      /\ \A r \in DOMAIN new : DOMAIN new[r] = DOMAIN text[r]
      /\ \A r \in DOMAIN new : \A c \in DOMAIN new[r] :
           new[r][c] = IF AfterColon(text, r, c) THEN MapWords(Cuts, text[r][c]) ELSE text[r][c]
      /\ new = [r \in DOMAIN new |-> [c \in DOMAIN new[r] |-> new[r][c]]]
  OBVIOUS
<1>4. /\ DOMAIN cells = DOMAIN new
      /\ \A r \in DOMAIN new : \A c \in DOMAIN new[r] :
           cells[r][c] = IF AfterColon(new, r, c) THEN MapWords(Cuts, new[r][c]) ELSE new[r][c]
      /\ cells = [r \in DOMAIN new |-> [c \in DOMAIN new[r] |-> cells[r][c]]]
  <2> HIDE DEF new
  <2> QED
    OBVIOUS
<1> HIDE DEF new, cells
<1>5. \A r \in DOMAIN text : \A c \in DOMAIN text[r] : HasColon(new[r][c]) <=> HasColon(text[r][c])
  BY <1>2, <1>3, ColonStays
<1>6. DOMAIN text = 1 .. Len(text) /\ Len(text) \in Nat
  BY DEF PassingTexts
<1>7. \A r \in DOMAIN text : \A c \in DOMAIN text[r] : AfterColon(new, r, c) <=> AfterColon(text, r, c)
  <2> TAKE r \in DOMAIN text
  <2> TAKE c \in DOMAIN text[r]
  <2>1. \A q \in 1 .. r : q \in DOMAIN text
    BY <1>6
  <2> QED
    BY <1>3, <1>5, <2>1 DEF AfterColon
<1>8. \A cell \in Passing : MapWords(Cuts, MapWords(Cuts, cell)) = MapWords(Cuts, cell)
  <2>1. "timestamp_iso_to_seconds" \in DOMAIN Tables /\ Tables["timestamp_iso_to_seconds"] = Cuts
    BY DEF Tables
  <2> QED
    BY <2>1, MapWordsTwice
<1>9. \A r \in DOMAIN new : \A c \in DOMAIN new[r] : cells[r][c] = new[r][c]
  BY <1>2, <1>3, <1>4, <1>7, <1>8
<1>10. cells = new
  BY <1>3, <1>4, <1>9, CellsStay
<1> HIDE DEF Cut
<1>11. TimestampIsoToSeconds(text) = new /\ TimestampIsoToSeconds(new) = cells
  BY <1>1 DEF new, cells
<1> QED
  BY <1>10, <1>11

LEMMA StripTwice ==
  ASSUME NEW text \in PassingTexts
  PROVE  StripTrailingWs(StripTrailingWs(text)) = StripTrailingWs(text)
<1> DEFINE Strip(x) == [r \in DOMAIN x |-> [c \in DOMAIN x[r] |->
                          IF c = Len(x[r]) THEN MapScalar(Blanks, x[r][c]) ELSE x[r][c]]]
           new == Strip(text)
           cells == Strip(new)
<1>1. \A x : StripTrailingWs(x) = Strip(x)
  BY Zenon DEF StripTrailingWs
<1>2. \A r \in DOMAIN text : DOMAIN text[r] = 1 .. Len(text[r]) /\ Len(text[r]) \in Nat
  BY DEF PassingTexts
<1>3. /\ DOMAIN new = DOMAIN text
      /\ \A r \in DOMAIN new : DOMAIN new[r] = DOMAIN text[r]
      /\ \A r \in DOMAIN new : \A c \in DOMAIN new[r] :
           new[r][c] = IF c = Len(text[r]) THEN MapScalar(Blanks, text[r][c]) ELSE text[r][c]
      /\ new = [r \in DOMAIN new |-> [c \in DOMAIN new[r] |-> new[r][c]]]
  OBVIOUS
<1>4. /\ DOMAIN cells = DOMAIN new
      /\ \A r \in DOMAIN new : \A c \in DOMAIN new[r] :
           cells[r][c] = IF c = Len(new[r]) THEN MapScalar(Blanks, new[r][c]) ELSE new[r][c]
      /\ cells = [r \in DOMAIN new |-> [c \in DOMAIN new[r] |-> cells[r][c]]]
  <2> HIDE DEF new
  <2> QED
    OBVIOUS
<1>5. \A r \in DOMAIN new : Len(new[r]) = Len(text[r])
  <2> SUFFICES ASSUME NEW r \in DOMAIN text PROVE Len(new[r]) = Len(text[r])
    BY <1>3
  <2>1. new[r] = [c \in 1 .. Len(text[r]) |->
                    IF c = Len(text[r]) THEN MapScalar(Blanks, text[r][c]) ELSE text[r][c]]
    BY <1>2
  <2> HIDE DEF new
  <2> QED
    BY <1>2, <2>1
<1> HIDE DEF new, cells
<1>6. \A cell : MapScalar(Blanks, MapScalar(Blanks, cell)) = MapScalar(Blanks, cell)
  <2>1. "strip_trailing_ws" \in DOMAIN Tables /\ Tables["strip_trailing_ws"] = Blanks
    BY DEF Tables
  <2> QED
    BY <2>1, MapScalarTwice
<1>7. \A r \in DOMAIN new : \A c \in DOMAIN new[r] : cells[r][c] = new[r][c]
  BY <1>3, <1>4, <1>5, <1>6
<1>8. cells = new
  BY <1>3, <1>4, <1>7, CellsStay
<1> HIDE DEF Strip
<1>9. StripTrailingWs(text) = new /\ StripTrailingWs(new) = cells
  BY <1>1 DEF new, cells
<1> QED
  BY <1>8, <1>9

\* src/beyond_sqlite/normalize.rs says that each normalizer is idempotent.  So are all
\* but one, on every text a chain comes by.
THEOREM Idempotent ==
  ASSUME NEW text \in PassingTexts, NEW n \in Normalizer \ {"json_string_array_unquote"}
  PROVE  Apply(Apply(text, n), n) = Apply(text, n)
<1>1. CASE n = "timestamp_iso_to_seconds"
  <2>1. \A x : Apply(x, n) = TimestampIsoToSeconds(x)
    BY <1>1 DEF Apply
  <2> QED
    BY <2>1, TimestampTwice
<1>2. CASE n = "strip_trailing_ws"
  <2>1. \A x : Apply(x, n) = StripTrailingWs(x)
    BY <1>2 DEF Apply
  <2> QED
    BY <2>1, StripTwice
<1>3. CASE n = "error_first_line_only"
  <2>1. \A x : Apply(x, n) = ErrorFirstLineOnly(x)
    BY <1>3 DEF Apply
  <2>2. ErrorFirstLineOnly(ErrorFirstLineOnly(text)) = ErrorFirstLineOnly(text)
    BY DEF ErrorFirstLineOnly
  <2> QED
    BY <2>1, <2>2
<1>4. CASE n \notin {"timestamp_iso_to_seconds", "strip_trailing_ws", "error_first_line_only"}
  BY <1>4, CellwiseTwice
<1> QED
  BY <1>1, <1>2, <1>3, <1>4

\* The one that is not: json_string_array_unquote takes off one layer of quotes each
\* time, so of the cell ["\"t\""] nothing is left as it was.
THEOREM UnquotesAgain ==
  \E cell \in Cells :
    JsonStringArrayUnquote(JsonStringArrayUnquote(cell)) # JsonStringArrayUnquote(cell)
<1> DEFINE Quoted(q) == [quotes |-> q, words |-> <<"t">>, key |-> FALSE]
           Array(q) == [bracket |-> "[", items |-> <<Quoted(q)>>]
<1>1. "t" \in Words
  BY WordsAssumption
<1>2. \A q \in 0 .. 2 : Quoted(q) \in Items
  <2>1. <<"t">> \in Seq(Words) /\ Len(<<"t">>) = 1
    BY <1>1
  <2> DEFINE ws == <<"t">>
  <2>2. ws \in Seq(Words) /\ Len(ws) = 1
    BY <2>1
  <2> HIDE DEF ws
  <2>3. \A q \in 0 .. 2 : [quotes |-> q, words |-> ws, key |-> FALSE] \in Items
    BY <2>2, PlainMade DEF Plain
  <2> QED
    BY <2>3 DEF ws
<1>3. \A q : Quoted(q).quotes = q /\ Quoted(q).key = FALSE /\ Quoted(q).words = <<"t">>
  OBVIOUS
<1>4. \A q : Array(q).bracket = "[" /\ Array(q).items = <<Quoted(q)>>
  OBVIOUS
<1>5. Unquoted(Quoted(2)) = <<Quoted(1)>>
  <2> DEFINE x == Quoted(2)
  <2>1. x = [quotes |-> x.quotes, words |-> x.words, key |-> x.key]
    OBVIOUS
  <2> HIDE DEF x
  <2>2. [x EXCEPT !.quotes = 1] = [quotes |-> 1, words |-> x.words, key |-> x.key]
    BY <2>1
  <2>3. x.words = <<"t">> /\ x.key = FALSE /\ x.quotes = 2
    BY <1>3 DEF x
  <2>4. [x EXCEPT !.quotes = 1] = Quoted(1)
    BY Zenon, <2>2, <2>3
  <2> HIDE DEF Quoted
  <2>5. Unquoted(x) = <<[x EXCEPT !.quotes = 1]>>
    BY Zenon, <2>3 DEF Unquoted
  <2> QED
    BY Zenon, <2>4, <2>5 DEF x
<1>6. Unquoted(Quoted(1)) = <<Quoted(0)>>
  <2>1. Bare("t") = Quoted(0)
    BY DEF Bare
  <2> HIDE DEF Quoted
  <2>2. Unquoted(Quoted(1)) = [k \in DOMAIN <<"t">> |-> Bare(<<"t">>[k])]
    BY <1>3 DEF Unquoted
  <2>3. [k \in DOMAIN <<"t">> |-> Bare(<<"t">>[k])] = <<Bare("t")>>
    OBVIOUS
  <2> QED
    BY <2>1, <2>2, <2>3
<1>7. \A q, p : [Array(q) EXCEPT !.items = <<Quoted(p)>>] = Array(p)
  <2> SUFFICES ASSUME NEW q, NEW p PROVE [Array(q) EXCEPT !.items = <<Quoted(p)>>] = Array(p)
    OBVIOUS
  <2> DEFINE x == Array(q)
             its == <<Quoted(p)>>
  <2>1. x = [bracket |-> x.bracket, items |-> x.items] /\ x.bracket = "["
    OBVIOUS
  <2> HIDE DEF x, its
  <2>2. [x EXCEPT !.items = its] = [bracket |-> "[", items |-> its]
    BY <2>1
  <2> QED
    BY Zenon, <2>2 DEF x, its
<1>13. \A q : <<Quoted(q)>> # <<Bare("")>>
  <2> SUFFICES ASSUME NEW q, <<Quoted(q)>> = <<Bare("")>> PROVE FALSE
    OBVIOUS
  <2>1. Quoted(q) = Bare("")
    BY <<Quoted(q)>>[1] = <<Bare("")>>[1]
  <2>2. Quoted(q).words = Bare("").words
    BY <2>1
  <2>3. <<"t">> = <<"">>
    BY <2>2 DEF Bare
  <2> QED
    BY <2>3
<1> HIDE DEF Quoted, Array
<1>8. \A q \in 1 .. 2 : Unquoted(Quoted(q)) = <<Quoted(q - 1)>>
  BY <1>5, <1>6
<1>9. \A q \in 1 .. 2 : JsonStringArrayUnquote(Array(q)) = Array(q - 1)
  <2> TAKE q \in 1 .. 2
  <2>1. DOMAIN Array(q).items = {1} /\ Array(q).items[1] = Quoted(q)
    BY <1>4
  <2>2. IsArray(Array(q)) /\ \A i \in DOMAIN Array(q).items : Array(q).items[i].quotes > 0
    BY <1>3, <1>4, <2>1 DEF IsArray
  <2>3. [i \in DOMAIN Array(q).items |-> Unquoted(Array(q).items[i])] = <<<<Quoted(q - 1)>>>>
    BY <1>8, <2>1
  <2>4. <<Quoted(q - 1)>> \in Seq(Items)
    BY <1>2
  <2>5. FlattenSeq(<<<<Quoted(q - 1)>>>>) = <<Quoted(q - 1)>>
    BY <2>4, FlattenOne
  <2>6. JsonStringArrayUnquote(Array(q)) =
          [Array(q) EXCEPT !.items =
             Joined(FlattenSeq([i \in DOMAIN Array(q).items |-> Unquoted(Array(q).items[i])]))]
    BY Zenon, <2>2 DEF JsonStringArrayUnquote
  <2>8. Joined(<<Quoted(q - 1)>>) = <<Quoted(q - 1)>>
    BY <1>13 DEF Joined
  <2>7. JsonStringArrayUnquote(Array(q)) = [Array(q) EXCEPT !.items = <<Quoted(q - 1)>>]
    BY Zenon, <2>3, <2>5, <2>6, <2>8
  <2> QED
    BY <1>7, <2>7
<1>10. Array(2) \in Cells
  <2> DEFINE its == <<Quoted(2)>>
  <2>1. Array(2) = [bracket |-> "[", items |-> its]
    BY DEF Array
  <2>2. its \in Seq(Items) /\ DOMAIN its = {1} /\ its[1] = Quoted(2)
    BY <1>2
  <2>3. Array(2).bracket = "[" /\ Array(2).items = its
    BY <1>4
  <2> HIDE DEF its
  <2>4. Array(2) \in [bracket : {"", "[", "{"}, items : Seq(Items)]
    <3> DEFINE new == [bracket |-> "[", items |-> its]
    <3>1. new \in [bracket : {"", "[", "{"}, items : Seq(Items)]
      BY <2>2
    <3> HIDE DEF new
    <3> QED
      BY <2>1, <3>1 DEF new
  <2>5. ~IsScalar(Array(2))
    BY <2>3 DEF IsScalar
  <2>6. ~Keyed(Array(2))
    BY <1>3, <2>2, <2>3 DEF Keyed
  <2>7. Array(2).items # <<Bare("")>>
    BY <1>4, <1>13
  <2>8. \A i \in DOMAIN Array(2).items : " " \notin ToSet(Array(2).items[i].words)
    <3>1. ToSet(<<"t">>) = {"t"} /\ " " \notin {"t"}
      BY DEF ToSet
    <3>2. \A i \in DOMAIN Array(2).items : Array(2).items[i].words = <<"t">>
      BY <1>3, <2>2, <2>3
    <3> QED
      BY Zenon, <3>1, <3>2
  <2> QED
    BY <2>4, <2>5, <2>6, <2>7, <2>8 DEF Cells
<1>11. Array(1) # Array(0)
  <2>1. Array(1).items[1].quotes = 1 /\ Array(0).items[1].quotes = 0
    BY <1>3, <1>4
  <2> QED
    BY <2>1
<1>12. /\ JsonStringArrayUnquote(Array(2)) = Array(1)
       /\ JsonStringArrayUnquote(Array(1)) = Array(0)
  BY <1>9
<1> QED
  BY <1>10, <1>11, <1>12
=============================================================================
