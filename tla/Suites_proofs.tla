---------------------------- MODULE Suites_proofs ---------------------------
(***************************************************************************)
(* Proofs about the parity suites for every number of cases, skips,        *)
(* warmups and repetitions: what the raw file of a run holds, counted as   *)
(* the report does, and the invariant from which the refinement of RawFile *)
(* and the agreement of verdict, summary and report follow.                *)
(* At the end, the shell commands before the SQL of a case, for any input. *)
(***************************************************************************)
EXTENDS Suites, DotCommands, SequenceTheorems, FiniteSetTheorems, WellFoundedInduction, TLAPS

USE NAssumption, SamplesAssumption

-----------------------------------------------------------------------------
(* Numbers *)

\* The sample at a position of the file: a case and an index.
LEMMA Quotient ==
  ASSUME NEW d \in Nat \ {0}, NEW a \in Nat, NEW k \in 0 .. d - 1
  PROVE  (a * d + k) \div d = a /\ (a * d + k) % d = k
OBVIOUS

LEMMA Division ==
  ASSUME NEW d \in Nat \ {0}, NEW m \in Nat
  PROVE  m \div d \in Nat /\ m % d \in 0 .. d - 1 /\ m = (m \div d) * d + (m % d)
<1>1. m \div d \in Int /\ m % d \in 0 .. d - 1
  OBVIOUS
<1>2. m = d * (m \div d) + (m % d)
  OBVIOUS
<1>3. m \div d >= 0
  <2> SUFFICES ASSUME m \div d <= -1 PROVE FALSE
    BY <1>1
  <2>1. d * (m \div d) <= d * (-1)
    BY <1>1
  <2> QED
    BY <1>1, <1>2, <2>1
<1>4. d * (m \div d) = (m \div d) * d
  BY <1>1
<1> QED
  BY <1>1, <1>2, <1>3, <1>4

LEMMA FewerRows ==
  ASSUME NEW d \in Nat, NEW a \in Nat, NEW b \in Nat
  PROVE  a * d \in Nat /\ (a <= b => a * d <= b * d) /\ (a + 1) * d = a * d + d
OBVIOUS

LEMMA UpTo ==
  ASSUME NEW n \in Nat
  PROVE  IsFiniteSet(1 .. n) /\ Cardinality(1 .. n) = n
BY FS_Interval

\* A set of numbers has a least one.
LEMMA Least ==
  ASSUME NEW S \in SUBSET Nat, S # {}
  PROVE  \E m \in S : \A k \in S : m <= k
<1>1. PICK m \in S : \A k \in S : ~ (<<k, m>> \in OpToRel(<, Nat))
  BY NatLessThanWellFounded, WFMin
<1>2. \A k \in S : ~ (k < m)
  BY <1>1 DEF OpToRel
<1> QED
  BY <1>2

LEMMA SampleCount ==
  /\ T \in Nat \ {0} /\ Samples = 0 .. T - 1 /\ Warmup \in Nat /\ Warmup < T
  /\ N \in Nat /\ MaxSkip \in Nat /\ Repetitions \in Nat /\ T = Warmup + Repetitions
BY DEF T, Samples

-----------------------------------------------------------------------------
(* A set of cases in suite order *)

LEMMA CasesAreFinite ==
  ASSUME NEW S \in SUBSET Cases
  PROVE  IsFiniteSet(S) /\ Cardinality(S) \in Nat
<1>1. IsFiniteSet(Cases)
  BY FS_Interval DEF Cases
<1> QED
  BY <1>1, FS_Subset, FS_CardinalityType

\* The place of a case in the order is the number of those up to it.
Place(S, i) == Cardinality({j \in S : j <= i})

LEMMA PlacesDiffer ==
  ASSUME NEW S \in SUBSET Cases, NEW i \in S, NEW j \in S, i < j
  PROVE  Place(S, i) < Place(S, j)
<1> DEFINE A == {k \in S : k <= i}
           B == {k \in S : k <= j}
<1>0. S \subseteq Int
  BY DEF Cases
<1>1. A \in SUBSET B /\ j \in B /\ j \notin A /\ A \in SUBSET Cases /\ B \in SUBSET Cases
  <2>1. ASSUME NEW k \in A PROVE k \in B
    <3>1. k \in S /\ k <= i /\ k \in Int /\ i \in Int /\ j \in Int
      BY <1>0
    <3> QED
      BY <3>1
  <2>2. j \in B /\ j \notin A
    BY <1>0
  <2> QED
    BY <2>1, <2>2
<1>2. IsFiniteSet(B) /\ Cardinality(A) \in Nat /\ Cardinality(B) \in Nat
  BY <1>1, CasesAreFinite
<1>3. Cardinality(A) <= Cardinality(B) /\ (Cardinality(B) = Cardinality(A) => B = A)
  BY <1>1, <1>2, FS_Subset
<1>4. Cardinality(A) < Cardinality(B)
  BY <1>1, <1>2, <1>3
<1> QED
  BY <1>4 DEF Place

LEMMA PlaceInOrder ==
  ASSUME NEW S \in SUBSET Cases, NEW i \in S
  PROVE  /\ Place(S, i) \in 1 .. Cardinality(S)
         /\ InOrder(S)[Place(S, i)] = i
<1> DEFINE A == {j \in S : j <= i}
<1>1. A \in SUBSET S /\ i \in A
  BY DEF Cases
<1>2. Cardinality(A) \in Nat /\ Cardinality(S) \in Nat /\ IsFiniteSet(A) /\ IsFiniteSet(S)
  BY <1>1, CasesAreFinite
<1>3. Cardinality(A) <= Cardinality(S)
  BY <1>1, <1>2, FS_Subset
<1>4. Cardinality(A) # 0
  BY <1>1, <1>2, FS_EmptySet
<1>5. Place(S, i) \in 1 .. Cardinality(S)
  BY <1>2, <1>3, <1>4 DEF Place
<1>6. InOrder(S)[Place(S, i)] = CHOOSE k \in S : Place(S, k) = Place(S, i)
  BY <1>5 DEF InOrder, Place
<1>7. \A k \in S : Place(S, k) = Place(S, i) => k = i
  <2> TAKE k \in S
  <2>1. k < i \/ k = i \/ i < k
    BY DEF Cases
  <2>2. Place(S, k) \in Nat /\ Place(S, i) \in Nat
    <3>1. {j \in S : j <= k} \in SUBSET Cases /\ {j \in S : j <= i} \in SUBSET Cases
      OBVIOUS
    <3> QED
      BY <3>1, CasesAreFinite DEF Place
  <2> QED
    BY <2>1, <2>2, PlacesDiffer
<1>8. (CHOOSE k \in S : Place(S, k) = Place(S, i)) = i
  BY <1>7
<1> QED
  BY <1>5, <1>6, <1>8

\* Every place is taken, each by a case of its own.
LEMMA OrderIsBijection ==
  ASSUME NEW S \in SUBSET Cases
  PROVE  /\ InOrder(S) \in Seq(S) /\ Len(InOrder(S)) = Cardinality(S)
         /\ \A n \in 1 .. Cardinality(S) : InOrder(S)[n] \in S /\ Place(S, InOrder(S)[n]) = n
<1> DEFINE c == Cardinality(S)
           place == [i \in S |-> Place(S, i)]
<1>1. IsFiniteSet(S) /\ c \in Nat
  BY CasesAreFinite
<1>2. place \in [S -> 1 .. c]
  BY PlaceInOrder
<1>3. \A i, j \in S : place[i] = place[j] => i = j
  BY PlaceInOrder
<1>4. place \in Injection(S, 1 .. c)
  BY <1>2, <1>3 DEF Injection, IsInjective
<1>5. IsFiniteSet(1 .. c) /\ Cardinality(1 .. c) = c
  BY <1>1, FS_Interval
<1>6. place \in Surjection(S, 1 .. c)
  BY <1>1, <1>4, <1>5, FS_Injection
<1>7. \A n \in 1 .. c : \E i \in S : place[i] = n
  BY <1>6 DEF Surjection
<1>8. \A n \in 1 .. c : InOrder(S)[n] \in S /\ Place(S, InOrder(S)[n]) = n
  <2> TAKE n \in 1 .. c
  <2>1. PICK i \in S : Place(S, i) = n
    BY <1>7
  <2> QED
    BY <2>1, PlaceInOrder
<1>9. DOMAIN InOrder(S) = 1 .. c
  BY DEF InOrder
<1>10. InOrder(S) = [n \in 1 .. c |-> InOrder(S)[n]]
  BY DEF InOrder
<1>11. InOrder(S) \in [1 .. c -> S]
  BY <1>8, <1>10
<1> HIDE DEF c
<1> QED
  BY <1>1, <1>8, <1>11 DEF c

\* A sequence without repetitions has as many members as places.
LEMMA RangeOfDistinct ==
  ASSUME NEW S, NEW q \in Seq(S), \A n, m \in 1 .. Len(q) : q[n] = q[m] => n = m
  PROVE  LET range == {q[n] : n \in 1 .. Len(q)}
         IN  IsFiniteSet(range) /\ Cardinality(range) = Len(q)
<1> DEFINE range == {q[n] : n \in 1 .. Len(q)}
           f == [n \in 1 .. Len(q) |-> q[n]]
<1>1. Len(q) \in Nat
  OBVIOUS
<1>2. f \in Bijection(1 .. Len(q), range)
  <2>1. f \in [1 .. Len(q) -> range]
    OBVIOUS
  <2>2. f \in Injection(1 .. Len(q), range)
    BY <2>1 DEF Injection, IsInjective
  <2>3. f \in Surjection(1 .. Len(q), range)
    BY <2>1 DEF Surjection
  <2> QED
    BY <2>2, <2>3 DEF Bijection
<1>3. ExistsBijection(1 .. Len(q), range)
  BY <1>2 DEF ExistsBijection
<1>4. IsFiniteSet(1 .. Len(q)) /\ Cardinality(1 .. Len(q)) = Len(q)
  BY <1>1, UpTo
<1> QED
  BY <1>3, <1>4, FS_Bijection

-----------------------------------------------------------------------------
(* The file a run is meant to leave *)

Line == [case : Nat, role : {"skipped", "warmup", "measured"}, rep : Nat,
         status : {"passed", "failed", "skipped"}]

Seen == [Cases -> [Samples -> SampleOutcome]]

\* The line of sample k of the case that runs after a others.
Row(skips, a, k) == Len(skips) + a * T + k + 1

LEMMA RowsDiffer ==
  ASSUME NEW skips \in Seq(Nat), NEW a \in Nat, NEW b \in Nat,
         NEW k \in Samples, NEW j \in Samples, Row(skips, a, k) = Row(skips, b, j)
  PROVE  a = b /\ k = j
<1>1. T \in Nat \ {0} /\ k \in 0 .. T - 1 /\ j \in 0 .. T - 1
  BY SampleCount
<1>2. Len(skips) \in Nat /\ a * T \in Nat /\ b * T \in Nat
  BY <1>1, FewerRows
<1>3. a * T + k = b * T + j
  BY <1>1, <1>2 DEF Row
<1> QED
  BY <1>1, <1>3

LEMMA RowsFill ==
  ASSUME NEW skips \in Seq(Nat), NEW l \in Nat
  PROVE  /\ Len(skips) + l * T \in Nat
         /\ \A a \in 0 .. l - 1, k \in Samples : Row(skips, a, k) \in Len(skips) + 1 .. Len(skips) + l * T
         /\ \A n \in Len(skips) + 1 .. Len(skips) + l * T :
              \E a \in 0 .. l - 1, k \in Samples : n = Row(skips, a, k)
<1>1. Len(skips) \in Nat /\ l * T \in Nat
  BY SampleCount, FewerRows
<1>2. ASSUME NEW a \in 0 .. l - 1, NEW k \in Samples
      PROVE  Row(skips, a, k) \in Len(skips) + 1 .. Len(skips) + l * T
  <2>1. a * T \in Nat /\ (a + 1) * T = a * T + T /\ (a + 1) * T <= l * T
    BY SampleCount, FewerRows
  <2> QED
    BY <1>1, <2>1, SampleCount DEF Row
<1>3. ASSUME NEW n \in Len(skips) + 1 .. Len(skips) + l * T
      PROVE  \E a \in 0 .. l - 1, k \in Samples : n = Row(skips, a, k)
  <2> DEFINE m == n - Len(skips) - 1
  <2>1. m \in Nat /\ m < l * T /\ n = Len(skips) + m + 1
    BY <1>1
  <2> HIDE DEF m
  <2>2. PICK a \in Nat, k \in Samples : m = a * T + k
    <3>1. T \in Nat \ {0}
      BY SampleCount
    <3>2. m \div T \in Nat /\ m % T \in 0 .. T - 1 /\ m = (m \div T) * T + (m % T)
      BY <2>1, <3>1, Division
    <3>3. m % T \in Samples
      BY <3>2, SampleCount
    <3> QED
      BY <3>2, <3>3, SMTT(30)
  <2>3. a < l
    <3> SUFFICES ASSUME l <= a PROVE FALSE
      OBVIOUS
    <3>1. l * T <= a * T /\ a * T \in Nat
      BY SampleCount, FewerRows
    <3> QED
      BY <1>1, <2>1, <2>2, <3>1, SampleCount
  <2>4. n = Row(skips, a, k)
    <3>1. a * T \in Nat
      BY SampleCount, FewerRows
    <3> QED
      BY <1>1, <2>1, <2>2, <3>1, SampleCount DEF Row
  <2> QED
    BY <2>3, <2>4
<1> QED
  BY <1>1, <1>2, <1>3

LEMMA RecordsAreLines ==
  /\ \A i \in Nat : SkipRecord(i) \in Line
  /\ \A x : \A i \in Nat, k \in Samples : SampleRecord(i, k, x) \in Line
BY SampleCount DEF SkipRecord, SampleRecord, Line, NoRep

LEMMA LayoutIs ==
  ASSUME NEW skips \in Seq(Nat), NEW runs \in Seq(Cases), NEW s
  PROVE  LET file == Layout(skips, runs, s)
             size == Len(skips) + Len(runs) * T
         IN  /\ size \in Nat /\ file \in Seq(Line) /\ Len(file) = size
             /\ \A n \in 1 .. Len(skips) : file[n] = SkipRecord(skips[n])
             /\ \A a \in 0 .. Len(runs) - 1, k \in Samples :
                  file[Row(skips, a, k)] = SampleRecord(runs[a + 1], k, s[runs[a + 1]][k])
<1> DEFINE file == Layout(skips, runs, s)
           size == Len(skips) + Len(runs) * T
<1>1. Len(skips) \in Nat /\ Len(runs) \in Nat /\ size \in Nat /\ Len(skips) <= size
  <2>1. Len(runs) * T \in Nat
    BY SampleCount, FewerRows
  <2> QED
    BY <2>1
<1>2. DOMAIN file = 1 .. size
  BY DEF Layout
<1>3. ASSUME NEW n \in 1 .. Len(skips)
      PROVE  file[n] = SkipRecord(skips[n]) /\ file[n] \in Line
  <2>1. n \in 1 .. size /\ n <= Len(skips)
    <3> HIDE DEF size
    <3> QED
      BY <1>1
  <2>2. skips[n] \in Nat
    OBVIOUS
  <2> QED
    BY <2>1, <2>2, RecordsAreLines DEF Layout
<1>4. ASSUME NEW a \in 0 .. Len(runs) - 1, NEW k \in Samples
      PROVE  LET line == SampleRecord(runs[a + 1], k, s[runs[a + 1]][k])
             IN  file[Row(skips, a, k)] = line /\ line \in Line
  <2> DEFINE n == Row(skips, a, k)
             m == n - Len(skips) - 1
  <2>1. n \in Len(skips) + 1 .. size
    BY <1>1, RowsFill
  <2>2. T \in Nat \ {0} /\ k \in 0 .. T - 1
    BY SampleCount
  <2>3. m = a * T + k
    <3>1. a * T \in Nat
      BY <2>2, FewerRows
    <3> QED
      BY <1>1, <2>2, <3>1 DEF Row
  <2>4. file[n] = SampleRecord(runs[m \div T + 1], m % T, s[runs[m \div T + 1]][m % T])
    <3>1. n \in 1 .. size /\ ~ (n <= Len(skips))
      BY <1>1, <2>1
    <3> QED
      BY <3>1 DEF Layout
  <2> HIDE DEF m, n
  <2>5. m \div T = a /\ m % T = k
    BY <2>2, <2>3
  <2>6. runs[a + 1] \in Nat
    <3>1. a + 1 \in 1 .. Len(runs)
      BY <1>1
    <3>2. runs[a + 1] \in Cases
      BY <1>1, <3>1
    <3> QED
      BY <3>2 DEF Cases
  <2>7. file[n] = SampleRecord(runs[a + 1], k, s[runs[a + 1]][k])
    BY <2>4, <2>5
  <2> QED
    BY <2>6, <2>7, RecordsAreLines DEF n
<1>5. ASSUME NEW n \in 1 .. size
      PROVE  file[n] \in Line
  <2>1. CASE n <= Len(skips)
    BY <1>1, <1>3, <2>1
  <2>2. CASE ~ (n <= Len(skips))
    <3>1. n \in Len(skips) + 1 .. size
      BY <1>1, <2>2
    <3>2. PICK a \in 0 .. Len(runs) - 1, k \in Samples : n = Row(skips, a, k)
      <4>1. \A l \in Nat : \A o \in Len(skips) + 1 .. Len(skips) + l * T :
              \E a \in 0 .. l - 1, k \in Samples : o = Row(skips, a, k)
        BY RowsFill
      <4> QED
        BY <1>1, <3>1, <4>1, SMTT(30)
    <3> HIDE DEF file
    <3>3. file[Row(skips, a, k)] \in Line
      BY <1>4
    <3> QED
      BY <3>2, <3>3
  <2> QED
    BY <2>1, <2>2
<1>6. file = [n \in 1 .. size |-> file[n]]
  BY DEF Layout
<1>7. file \in [1 .. size -> Line]
  BY <1>5, <1>6
<1>8. file \in Seq(Line) /\ Len(file) = size
  <2> HIDE DEF file, size
  <2> QED
    BY <1>1, <1>7
<1> QED
  BY <1>1, <1>3, <1>4, <1>8

-----------------------------------------------------------------------------
(* What the report counts in the whole file *)

\* Cases each named once, none of them both skipped and run.
Apart(skips, runs) ==
  /\ skips \in Seq(Nat) /\ runs \in Seq(Cases)
  /\ \A n, m \in 1 .. Len(skips) : skips[n] = skips[m] => n = m
  /\ \A n, m \in 1 .. Len(runs) : runs[n] = runs[m] => n = m
  /\ \A n \in 1 .. Len(skips), m \in 1 .. Len(runs) : skips[n] # runs[m]

Named(q) == {q[n] : n \in 1 .. Len(q)}

LEMMA NamedCount ==
  ASSUME NEW skips, NEW runs, Apart(skips, runs)
  PROVE  /\ IsFiniteSet(Named(skips)) /\ Cardinality(Named(skips)) = Len(skips)
         /\ IsFiniteSet(Named(runs)) /\ Cardinality(Named(runs)) = Len(runs)
         /\ Cardinality(Named(skips) \cup Named(runs)) = Len(skips) + Len(runs)
<1>1. IsFiniteSet(Named(skips)) /\ Cardinality(Named(skips)) = Len(skips)
  BY RangeOfDistinct DEF Apart, Named
<1>2. IsFiniteSet(Named(runs)) /\ Cardinality(Named(runs)) = Len(runs)
  BY RangeOfDistinct DEF Apart, Named
<1>3. Named(skips) \cap Named(runs) = {}
  BY DEF Apart, Named
<1>4. Len(skips) \in Nat /\ Len(runs) \in Nat
  BY DEF Apart
<1>5. Cardinality(Named(skips) \cup Named(runs))
        = Cardinality(Named(skips)) + Cardinality(Named(runs)) - Cardinality({})
  BY <1>1, <1>2, <1>3, FS_Union
<1>6. Cardinality({}) = 0
  BY FS_EmptySet
<1> QED
  BY <1>1, <1>2, <1>4, <1>5, <1>6

\* The records are those of the skipped cases and of the samples of the others.
LEMMA RecordsOfLayout ==
  ASSUME NEW skips, NEW runs, NEW s, Apart(skips, runs), NEW r
  PROVE  r \in Records(Layout(skips, runs, s)) <=>
           \/ \E i \in Named(skips) : r = SkipRecord(i)
           \/ \E i \in Named(runs), k \in Samples : r = SampleRecord(i, k, s[i][k])
<1> DEFINE file == Layout(skips, runs, s)
           size == Len(skips) + Len(runs) * T
<1>0. skips \in Seq(Nat) /\ runs \in Seq(Cases) /\ Len(skips) \in Nat /\ Len(runs) \in Nat
  BY DEF Apart
<1>1. /\ size \in Nat /\ file \in Seq(Line) /\ Len(file) = size
      /\ \A n \in 1 .. Len(skips) : file[n] = SkipRecord(skips[n])
      /\ \A a \in 0 .. Len(runs) - 1, k \in Samples :
           file[Row(skips, a, k)] = SampleRecord(runs[a + 1], k, s[runs[a + 1]][k])
  BY <1>0, LayoutIs
<1>2. /\ \A a \in 0 .. Len(runs) - 1, k \in Samples : Row(skips, a, k) \in Len(skips) + 1 .. size
      /\ \A n \in Len(skips) + 1 .. size : \E a \in 0 .. Len(runs) - 1, k \in Samples : n = Row(skips, a, k)
  BY <1>0, RowsFill, ZenonT(30)
<1>3. Len(skips) <= size
  <2>1. Len(runs) * T \in Nat
    BY <1>0, SampleCount, FewerRows
  <2> QED
    BY <1>0, <2>1
<1> HIDE DEF file, size
<1>4. DOMAIN file = 1 .. size
  BY <1>1
<1>5. ASSUME r \in Records(file)
      PROVE  \/ \E i \in Named(skips) : r = SkipRecord(i)
             \/ \E i \in Named(runs), k \in Samples : r = SampleRecord(i, k, s[i][k])
  <2>1. PICK n \in 1 .. size : r = file[n]
    BY <1>4, <1>5 DEF Records
  <2>2. CASE n <= Len(skips)
    <3>1. n \in 1 .. Len(skips)
      BY <1>0, <1>1, <2>2
    <3> QED
      BY <3>1, <1>1, <2>1 DEF Named
  <2>3. CASE ~ (n <= Len(skips))
    <3>0. n \in Len(skips) + 1 .. size
      BY <1>0, <1>1, <2>3
    <3>1. PICK a \in 0 .. Len(runs) - 1, k \in Samples : n = Row(skips, a, k)
      BY <1>2, <3>0
    <3>2. r = SampleRecord(runs[a + 1], k, s[runs[a + 1]][k])
      BY <1>1, <2>1, <3>1
    <3>3. runs[a + 1] \in Named(runs)
      BY <1>0 DEF Named
    <3> QED
      BY <3>2, <3>3
  <2> QED
    BY <2>2, <2>3
<1>6. ASSUME NEW i \in Named(skips), r = SkipRecord(i)
      PROVE  r \in Records(file)
  <2>1. PICK n \in 1 .. Len(skips) : i = skips[n]
    BY DEF Named
  <2>2. n \in 1 .. size
    BY <1>0, <1>1, <1>3
  <2> QED
    BY <1>1, <1>4, <1>6, <2>1, <2>2 DEF Records
<1>7. ASSUME NEW i \in Named(runs), NEW k \in Samples, r = SampleRecord(i, k, s[i][k])
      PROVE  r \in Records(file)
  <2>1. PICK n \in 1 .. Len(runs) : i = runs[n]
    BY DEF Named
  <2>2. n - 1 \in 0 .. Len(runs) - 1 /\ (n - 1) + 1 = n
    BY <1>0
  <2>3. Row(skips, n - 1, k) \in 1 .. size
    BY <1>0, <1>1, <1>2, <2>2
  <2>4. file[Row(skips, n - 1, k)] = r
    BY <1>1, <1>7, <2>1, <2>2
  <2> QED
    BY <1>4, <2>3, <2>4 DEF Records
<1> QED
  BY <1>5, <1>6, <1>7 DEF file

\* The sets of cases the reader counts.
AllCases(file) == {r.case : r \in {l \in Records(file) : TRUE}}
MeasuredCases(file) == {r.case : r \in {l \in Records(file) : IsMeasured(l)}}
StatusCases(file, status) == {r.case : r \in {l \in Records(file) : l.status = status}}

\* The reader's counts: a case is counted failed if a sample of it is.
LEMMA CasesOfLayout ==
  ASSUME NEW skips, NEW runs, NEW s, Apart(skips, runs)
  PROVE  LET file == Layout(skips, runs, s)
         IN  /\ AllCases(file) = Named(skips) \cup Named(runs)
             /\ StatusCases(file, "skipped") = Named(skips)
             /\ StatusCases(file, "failed") =
                  {i \in Named(runs) : \E k \in Samples : s[i][k] # "match"}
             /\ MeasuredCases(file) =
                  {i \in Named(runs) : \E k \in Samples : k >= Warmup /\ s[i][k] = "match"}
<1> DEFINE file == Layout(skips, runs, s)
<1>1. \A r : r \in Records(file) <=>
           \/ \E i \in Named(skips) : r = SkipRecord(i)
           \/ \E i \in Named(runs), k \in Samples : r = SampleRecord(i, k, s[i][k])
  BY RecordsOfLayout
<1> HIDE DEF file
<1>2. \A i : SkipRecord(i).case = i /\ SkipRecord(i).status = "skipped" /\ ~ IsMeasured(SkipRecord(i))
  BY DEF SkipRecord, IsMeasured
<1>3. \A i, x : \A k \in Samples :
        LET r == SampleRecord(i, k, x)
        IN  /\ r.case = i /\ r.status # "skipped"
            /\ r.status = "failed" <=> x # "match"
            /\ IsMeasured(r) <=> k >= Warmup /\ x = "match"
  BY SampleCount DEF SampleRecord, IsMeasured, NoRep
<1>4. 0 \in Samples
  BY SampleCount
<1>5. AllCases(file) = Named(skips) \cup Named(runs)
  BY <1>1, <1>2, <1>3, <1>4 DEF AllCases
<1>6. StatusCases(file, "skipped") = Named(skips)
  BY <1>1, <1>2, <1>3 DEF StatusCases
<1>7. StatusCases(file, "failed") =
        {i \in Named(runs) : \E k \in Samples : s[i][k] # "match"}
  BY <1>1, <1>2, <1>3 DEF StatusCases
<1>8. MeasuredCases(file) =
        {i \in Named(runs) : \E k \in Samples : k >= Warmup /\ s[i][k] = "match"}
  BY <1>1, <1>2, <1>3 DEF MeasuredCases
<1> QED
  BY <1>5, <1>6, <1>7, <1>8 DEF file

LEMMA BelowCount ==
  ASSUME NEW n \in Nat
  PROVE  IsFiniteSet(0 .. n - 1) /\ Cardinality(0 .. n - 1) = n
BY FS_Interval

\* Every case that runs has its warmup lines.
LEMMA WarmupLines ==
  ASSUME NEW skips, NEW runs, NEW s, Apart(skips, runs)
  PROVE  LET file == Layout(skips, runs, s)
         IN  Cardinality({n \in DOMAIN file : file[n].role = "warmup"}) = Warmup * Len(runs)
<1> DEFINE file == Layout(skips, runs, s)
           size == Len(skips) + Len(runs) * T
           A == 0 .. Len(runs) - 1
           B == 0 .. Warmup - 1
           W == {n \in DOMAIN file : file[n].role = "warmup"}
           row == [p \in A \X B |-> Row(skips, p[1], p[2])]
<1>0. skips \in Seq(Nat) /\ runs \in Seq(Cases) /\ Len(skips) \in Nat /\ Len(runs) \in Nat
  BY DEF Apart
<1>1. /\ size \in Nat /\ file \in Seq(Line) /\ Len(file) = size
      /\ \A n \in 1 .. Len(skips) : file[n] = SkipRecord(skips[n])
      /\ \A a \in A, k \in Samples :
           file[Row(skips, a, k)] = SampleRecord(runs[a + 1], k, s[runs[a + 1]][k])
  BY <1>0, LayoutIs
<1>2. /\ \A a \in A, k \in Samples : Row(skips, a, k) \in Len(skips) + 1 .. size
      /\ \A n \in Len(skips) + 1 .. size : \E a \in A, k \in Samples : n = Row(skips, a, k)
  BY <1>0, RowsFill, ZenonT(30)
<1>3. \A a, b \in A, k, j \in Samples : Row(skips, a, k) = Row(skips, b, j) => a = b /\ k = j
  <2>1. A \subseteq Nat
    BY <1>0
  <2> QED
    BY <1>0, <2>1, RowsDiffer
<1>4. B \subseteq Samples /\ \A k \in Samples : k \in B <=> k < Warmup
  BY SampleCount
<1>5. DOMAIN file = 1 .. size
  <2> HIDE DEF file, size
  <2> QED
    BY <1>1
<1>6. \A i, x : SkipRecord(i).role # "warmup" /\ \A k \in Samples : SampleRecord(i, k, x).role = "warmup" <=> k \in B
  BY <1>4 DEF SkipRecord, SampleRecord
<1>7. IsFiniteSet(A \X B) /\ Cardinality(A \X B) = Len(runs) * Warmup
  <2>1. IsFiniteSet(A) /\ Cardinality(A) = Len(runs) /\ IsFiniteSet(B) /\ Cardinality(B) = Warmup
    BY <1>0, SampleCount, BelowCount
  <2> HIDE DEF A, B
  <2> QED
    BY <2>1, FS_Product
<1> HIDE DEF file, size, A, B
<1>8. \A a \in A, k \in B : Row(skips, a, k) \in W
  <2> SUFFICES ASSUME NEW a \in A, NEW k \in B PROVE Row(skips, a, k) \in W
    OBVIOUS
  <2>1. k \in Samples
    BY <1>4
  <2>2. Row(skips, a, k) \in 1 .. size
    BY <1>0, <1>1, <1>2, <2>1
  <2> QED
    BY <1>1, <1>5, <1>6, <2>1, <2>2
<1>9. \A n \in W : \E a \in A, k \in B : n = Row(skips, a, k)
  <2> SUFFICES ASSUME NEW n \in W PROVE \E a \in A, k \in B : n = Row(skips, a, k)
    OBVIOUS
  <2>1. n \in 1 .. size
    BY <1>5
  <2>2. ~ (n \in 1 .. Len(skips))
    BY <1>1, <1>6
  <2>3. n \in Len(skips) + 1 .. size
    BY <1>0, <1>1, <2>1, <2>2
  <2>4. PICK a \in A, k \in Samples : n = Row(skips, a, k)
    BY <1>2, <2>3
  <2>5. k \in B
    BY <1>1, <1>6, <2>4
  <2> QED
    BY <2>4, <2>5
<1>10. row \in Bijection(A \X B, W)
  <2> HIDE DEF W
  <2>1. row \in [A \X B -> W]
    BY <1>8
  <2>2. row \in Injection(A \X B, W)
    <3>1. ASSUME NEW p \in A \X B, NEW q \in A \X B, row[p] = row[q]
          PROVE  p = q
      <4>1. p[1] = q[1] /\ p[2] = q[2]
        BY <1>3, <1>4, <3>1
      <4> QED
        BY <4>1
    <3> QED
      BY <2>1, <3>1 DEF Injection, IsInjective
  <2>3. row \in Surjection(A \X B, W)
    <3>1. ASSUME NEW n \in W
          PROVE  \E p \in A \X B : row[p] = n
      <4>1. PICK a \in A, k \in B : n = Row(skips, a, k)
        BY <1>9
      <4>2. <<a, k>> \in A \X B /\ row[<<a, k>>] = n
        BY <4>1
      <4> QED
        BY <4>2
    <3> QED
      BY <2>1, <3>1 DEF Surjection
  <2> QED
    BY <2>2, <2>3 DEF Bijection
<1>11. ExistsBijection(A \X B, W)
  BY <1>10 DEF ExistsBijection
<1>12. Cardinality(W) = Len(runs) * Warmup
  BY <1>7, <1>11, FS_Bijection
<1>13. Len(runs) * Warmup = Warmup * Len(runs)
  BY <1>0, SampleCount
<1> QED
  BY <1>12, <1>13 DEF file

\* The repetitions found: all of them as soon as some case ran without a mismatch.
LEMMA RepetitionsFound ==
  ASSUME NEW skips, NEW runs, NEW s, Apart(skips, runs),
         \A i \in Named(runs), k \in Samples : s[i][k] = "match"
  PROVE  LET file == Layout(skips, runs, s)
         IN  Cardinality({r.rep : r \in {l \in Records(file) : IsMeasured(l)}}) =
               IF Len(runs) > 0 THEN Repetitions ELSE 0
<1> DEFINE file == Layout(skips, runs, s)
           R == {r.rep : r \in {l \in Records(file) : IsMeasured(l)}}
<1>1. \A r : r \in Records(file) <=>
           \/ \E i \in Named(skips) : r = SkipRecord(i)
           \/ \E i \in Named(runs), k \in Samples : r = SampleRecord(i, k, s[i][k])
  BY RecordsOfLayout
<1> HIDE DEF file
<1>2. \A i : ~ IsMeasured(SkipRecord(i))
  BY DEF SkipRecord, IsMeasured
<1>3. \A i : \A k \in Samples :
        LET r == SampleRecord(i, k, "match")
        IN  /\ IsMeasured(r) <=> k >= Warmup
            /\ IsMeasured(r) => r.rep = k - Warmup + 1
  BY SampleCount DEF SampleRecord, IsMeasured, NoRep
<1>4. \A x : x \in R <=> \E i \in Named(runs), k \in Samples : k >= Warmup /\ x = k - Warmup + 1
  BY <1>1, <1>2, <1>3
<1>5. Len(runs) \in Nat
  BY DEF Apart
<1>6. CASE Len(runs) > 0
  <2>1. runs[1] \in Named(runs)
    BY <1>5, <1>6 DEF Named
  <2>2. ASSUME NEW x \in 1 .. Repetitions
        PROVE  x \in R
    <3>1. Warmup + x - 1 \in Samples /\ Warmup + x - 1 >= Warmup /\ x = (Warmup + x - 1) - Warmup + 1
      BY SampleCount
    <3> QED
      BY <1>4, <2>1, <3>1
  <2>3. ASSUME NEW x \in R
        PROVE  x \in 1 .. Repetitions
    <3>1. PICK k \in Samples : k >= Warmup /\ x = k - Warmup + 1
      BY <1>4
    <3> QED
      BY <3>1, SampleCount
  <2>4. R = 1 .. Repetitions
    BY <2>2, <2>3
  <2>5. Cardinality(1 .. Repetitions) = Repetitions
    BY SampleCount, UpTo
  <2> QED
    BY <1>6, <2>4, <2>5 DEF file
<1>7. CASE ~ (Len(runs) > 0)
  <2>1. Named(runs) = {}
    BY <1>5, <1>7 DEF Named
  <2>2. R = {}
    BY <1>4, <2>1
  <2> QED
    BY <1>7, <2>2, FS_EmptySet DEF file
<1> QED
  BY <1>6, <1>7

\* What the report says of the file of a run without a mismatch.
LEMMA ReportOfGoodRun ==
  ASSUME NEW skips, NEW runs, NEW s, Apart(skips, runs),
         \A i \in Named(runs), k \in Samples : s[i][k] = "match"
  PROVE  LET file == Layout(skips, runs, s)
         IN  /\ ReportCounts(file) = [total |-> Len(skips) + Len(runs), passed |-> Len(runs),
                                      failed |-> 0, skipped |-> Len(skips)]
             /\ ReportAccepts(file) <=> Len(runs) > 0 /\ (Warmup = 0 \/ Len(skips) = 0)
<1> DEFINE file == Layout(skips, runs, s)
<1>0. skips \in Seq(Nat) /\ runs \in Seq(Cases) /\ Len(skips) \in Nat /\ Len(runs) \in Nat
  BY DEF Apart
<1>1. /\ AllCases(file) = Named(skips) \cup Named(runs)
      /\ StatusCases(file, "skipped") = Named(skips)
      /\ StatusCases(file, "failed") =
           {i \in Named(runs) : \E k \in Samples : s[i][k] # "match"}
      /\ MeasuredCases(file) =
           {i \in Named(runs) : \E k \in Samples : k >= Warmup /\ s[i][k] = "match"}
  BY CasesOfLayout
<1>2. StatusCases(file, "failed") = {}
  <2> HIDE DEF file
  <2>1. \A i : i \notin StatusCases(file, "failed")
    BY <1>1
  <2> QED
    BY <2>1
<1>3. MeasuredCases(file) = Named(runs)
  <2> HIDE DEF file
  <2>1. Warmup \in Samples /\ Warmup >= Warmup
    BY SampleCount
  <2>2. \A i : i \in MeasuredCases(file) <=> i \in Named(runs)
    BY <1>1, <2>1
  <2> QED
    BY <2>2
<1>4. /\ Cardinality(Named(skips) \cup Named(runs)) = Len(skips) + Len(runs)
      /\ Cardinality(Named(skips)) = Len(skips) /\ Cardinality(Named(runs)) = Len(runs)
      /\ Cardinality({}) = 0
  BY NamedCount, FS_EmptySet
<1>5. ReportCounts(file) = [total |-> Len(skips) + Len(runs), passed |-> Len(runs),
                            failed |-> 0, skipped |-> Len(skips)]
  <2> HIDE DEF file
  <2>1. /\ ReportCounts(file).total = Cardinality(AllCases(file))
        /\ ReportCounts(file).passed = Cardinality(MeasuredCases(file))
        /\ ReportCounts(file).failed = Cardinality(StatusCases(file, "failed"))
        /\ ReportCounts(file).skipped = Cardinality(StatusCases(file, "skipped"))
    BY DEF ReportCounts, CasesWith, AllCases, MeasuredCases, StatusCases
  <2>2. ReportCounts(file) = [total |-> ReportCounts(file).total, passed |-> ReportCounts(file).passed,
                              failed |-> ReportCounts(file).failed, skipped |-> ReportCounts(file).skipped]
    BY DEF ReportCounts
  <2>3. ReportCounts(file).total = Len(skips) + Len(runs) /\ ReportCounts(file).skipped = Len(skips)
    BY <1>1, <1>4, <2>1
  <2>4. ReportCounts(file).passed = Len(runs)
    BY <1>3, <1>4, <2>1
  <2>5. ReportCounts(file).failed = 0
    BY <1>2, <2>1, FS_EmptySet
  <2> QED
    BY <2>2, <2>3, <2>4, <2>5
<1>6. Cardinality({r.rep : r \in {l \in Records(file) : IsMeasured(l)}}) =
        IF Len(runs) > 0 THEN Repetitions ELSE 0
  BY RepetitionsFound
<1>7. Cardinality({n \in DOMAIN file : file[n].role = "warmup"}) = Warmup * Len(runs)
  BY WarmupLines
<1>8. Warmup * Len(runs) = Warmup * (Len(skips) + Len(runs)) <=> Warmup = 0 \/ Len(skips) = 0
  <2>1. Warmup * (Len(skips) + Len(runs)) = Warmup * Len(skips) + Warmup * Len(runs)
    BY <1>0, SampleCount
  <2>2. Warmup * Len(runs) \in Nat /\ Warmup * Len(skips) \in Nat
    BY <1>0, SampleCount
  <2>3. Warmup * Len(skips) = 0 <=> Warmup = 0 \/ Len(skips) = 0
    BY <1>0, SampleCount
  <2> QED
    BY <2>1, <2>2, <2>3
<1>9. Len(runs) > 0 => file # << >>
  <2>1. Len(file) = Len(skips) + Len(runs) * T /\ file \in Seq(Line)
    BY <1>0, LayoutIs
  <2>2. Len(runs) > 0 => Len(runs) * T > 0
    BY <1>0, SampleCount
  <2>3. Len(runs) * T \in Nat
    BY <1>0, SampleCount, FewerRows
  <2> HIDE DEF file
  <2>4. Len(runs) > 0 => Len(file) > 0
    BY <1>0, <2>1, <2>2, <2>3
  <2> QED
    BY <2>4
<1>10. ReportAccepts(file) <=> Len(runs) > 0 /\ (Warmup = 0 \/ Len(skips) = 0)
  <2> HIDE DEF file
  <2>1. (IF Len(runs) > 0 THEN Repetitions ELSE 0) = Repetitions <=> Len(runs) > 0
    BY SampleCount
  <2>2. Cardinality(AllCases(file)) = Len(skips) + Len(runs)
    BY <1>1, <1>4
  <2> QED
    BY <1>6, <1>7, <1>8, <1>9, <2>1, <2>2 DEF ReportAccepts, CasesWith, AllCases
<1> QED
  BY <1>5, <1>10 DEF file

-----------------------------------------------------------------------------
(* Verdicts and tallies *)

\* Every sample of case i ran to its end; a sample of it disagreed.
Completes(s, i) == \A k \in Samples : s[i][k] \in {"match", "mismatch"}
Mismatched(s, i) == \E k \in Samples : s[i][k] = "mismatch"

\* A case has a verdict exactly when its samples complete, and the verdict is
\* "failed" exactly when one of them, a warmup included, disagreed.
LEMMA CaseVerdict ==
  ASSUME NEW s \in Seen, NEW i \in Cases
  PROVE  /\ CaseOutcome(s[i]) \in Run <=> Completes(s, i)
         /\ CaseOutcome(s[i]) = "failed" <=> Completes(s, i) /\ Mismatched(s, i)
<1> DEFINE o == s[i]
           Bad == {k \in Samples : o[k] \in {"err", "panic"}}
           Stops(k) == o[k] \in {"err", "panic"} /\ \A j \in Samples : j < k => o[j] \in {"match", "mismatch"}
<1>1. \A k \in Samples : o[k] \in {"match", "mismatch", "err", "panic"}
  BY DEF Seen, SampleOutcome
<1>2. Samples \subseteq Nat
  BY SampleCount
<1>3. CASE Completes(s, i)
  <2>1. ~ \E k \in Samples : Stops(k)
    BY <1>3 DEF Completes
  <2>2. CaseOutcome(o) = IF \E k \in Samples : o[k] = "mismatch" THEN "failed" ELSE "passed"
    BY <2>1 DEF CaseOutcome
  <2> QED
    BY <1>3, <2>2 DEF Run, Mismatched
<1>4. CASE ~ Completes(s, i)
  <2>1. Bad # {} /\ Bad \in SUBSET Nat
    BY <1>1, <1>2, <1>4 DEF Completes
  <2>2. PICK m \in Bad : \A k \in Bad : m <= k
    BY <2>1, Least, ZenonT(30)
  <2>3. Stops(m)
    <3> SUFFICES ASSUME NEW j \in Samples, j < m, o[j] \in {"err", "panic"} PROVE FALSE
      BY <1>1
    <3>1. m <= j /\ m \in Nat /\ j \in Nat
      BY <1>2, <2>2
    <3> QED
      BY <3>1
  <2>4. m \in Samples
    OBVIOUS
  <2>5. CaseOutcome(o) = o[CHOOSE k \in Samples : Stops(k)]
    BY <2>3, <2>4 DEF CaseOutcome
  <2>6. Stops(CHOOSE k \in Samples : Stops(k))
    BY <2>3, <2>4
  <2>7. CaseOutcome(o) \in {"err", "panic"}
    BY <2>5, <2>6
  <2> QED
    BY <1>4, <2>7 DEF Run
<1> QED
  BY <1>3, <1>4

\* The summary after skipped skips and the first ran cases of runs.
Failures(runs, s, ran) == Cardinality({n \in 1 .. ran : Mismatched(s, runs[n])})
Tallied(runs, s, skipped, ran) ==
  [total |-> skipped + ran, passed |-> ran - Failures(runs, s, ran),
   failed |-> Failures(runs, s, ran), skipped |-> skipped]

LEMMA FailuresSoFar ==
  ASSUME NEW runs, NEW s, NEW ran \in Nat
  PROVE  /\ Failures(runs, s, ran) \in 0 .. ran
         /\ Failures(runs, s, ran) > 0 <=> \E n \in 1 .. ran : Mismatched(s, runs[n])
<1> DEFINE F == {n \in 1 .. ran : Mismatched(s, runs[n])}
<1>1. IsFiniteSet(1 .. ran) /\ Cardinality(1 .. ran) = ran /\ F \in SUBSET (1 .. ran)
  BY UpTo
<1>2. IsFiniteSet(F) /\ Cardinality(F) <= ran
  BY <1>1, FS_Subset
<1>3. Cardinality(F) \in Nat /\ (Cardinality(F) = 0 <=> F = {})
  <2> HIDE DEF F
  <2>1. Cardinality(F) \in Nat
    BY <1>2, FS_CardinalityType
  <2>2. Cardinality(F) = 0 <=> F = {}
    BY <1>2, FS_EmptySet
  <2> QED
    BY <2>1, <2>2
<1> QED
  BY <1>2, <1>3 DEF Failures

LEMMA NextFailure ==
  ASSUME NEW runs, NEW s, NEW ran \in Nat
  PROVE  Failures(runs, s, ran + 1) =
           IF Mismatched(s, runs[ran + 1]) THEN Failures(runs, s, ran) + 1 ELSE Failures(runs, s, ran)
<1> DEFINE F(l) == {n \in 1 .. l : Mismatched(s, runs[n])}
<1>1. ran + 1 \notin F(ran)
  OBVIOUS
<1>2. F(ran + 1) = IF Mismatched(s, runs[ran + 1]) THEN F(ran) \cup {ran + 1} ELSE F(ran)
  OBVIOUS
<1>3. IsFiniteSet(F(ran))
  <2>1. IsFiniteSet(1 .. ran) /\ F(ran) \in SUBSET (1 .. ran)
    BY UpTo
  <2> QED
    BY <2>1, FS_Subset
<1>4. Cardinality(F(ran) \cup {ran + 1}) = Cardinality(F(ran)) + 1
  <2> HIDE DEF F
  <2> QED
    BY <1>1, <1>3, FS_AddElement
<1> QED
  BY <1>2, <1>4 DEF Failures

\* One more case skipped, failed or passed.
PlusSkipped(sum) == [sum EXCEPT !.total = @ + 1, !.skipped = @ + 1]
PlusFailed(sum) == [sum EXCEPT !.total = @ + 1, !.failed = @ + 1]
PlusPassed(sum) == [sum EXCEPT !.total = @ + 1, !.passed = @ + 1]

LEMMA Tallying ==
  ASSUME NEW runs, NEW s, NEW skipped \in Nat, NEW ran \in Nat
  PROVE  /\ Tallied(runs, s, skipped, ran) \in [total : Nat, passed : Nat, failed : Nat, skipped : Nat]
         /\ Tallied(runs, s, skipped, 0) =
              [total |-> skipped, passed |-> 0, failed |-> 0, skipped |-> skipped]
<1>1. Failures(runs, s, ran) \in 0 .. ran /\ Failures(runs, s, 0) \in 0 .. 0
  BY FailuresSoFar
<1> QED
  BY <1>1 DEF Tallied

LEMMA NextTally ==
  \A runs, s : \A skipped, ran \in Nat :
    /\ PlusSkipped(Tallied(runs, s, skipped, ran)) = Tallied(runs, s, skipped + 1, ran)
    /\ Mismatched(s, runs[ran + 1]) =>
         PlusFailed(Tallied(runs, s, skipped, ran)) = Tallied(runs, s, skipped, ran + 1)
    /\ ~ Mismatched(s, runs[ran + 1]) =>
         PlusPassed(Tallied(runs, s, skipped, ran)) = Tallied(runs, s, skipped, ran + 1)
<1> TAKE runs, s
<1> TAKE skipped, ran \in Nat
<1>1. Failures(runs, s, ran) \in 0 .. ran
  BY FailuresSoFar
<1>2. Failures(runs, s, ran + 1) =
        IF Mismatched(s, runs[ran + 1]) THEN Failures(runs, s, ran) + 1 ELSE Failures(runs, s, ran)
  BY NextFailure
<1> DEFINE f == Failures(runs, s, ran)
           g == Failures(runs, s, ran + 1)
           sum == Tallied(runs, s, skipped, ran)
<1>3. /\ sum = [total |-> skipped + ran, passed |-> ran - f, failed |-> f, skipped |-> skipped]
      /\ Tallied(runs, s, skipped, ran + 1) =
           [total |-> skipped + (ran + 1), passed |-> (ran + 1) - g, failed |-> g, skipped |-> skipped]
      /\ Tallied(runs, s, skipped + 1, ran) =
           [total |-> (skipped + 1) + ran, passed |-> ran - f, failed |-> f, skipped |-> skipped + 1]
  BY DEF Tallied
<1>5. f \in 0 .. ran
  BY <1>1
<1>6. g = IF Mismatched(s, runs[ran + 1]) THEN f + 1 ELSE f
  BY <1>2
<1> HIDE DEF f, g, sum
<1>7. /\ skipped + (ran + 1) = (skipped + ran) + 1 /\ (skipped + 1) + ran = (skipped + ran) + 1
      /\ (ran + 1) - (f + 1) = ran - f /\ (ran + 1) - f = (ran - f) + 1
      /\ skipped + ran \in Nat /\ ran - f \in Nat /\ f \in Nat
  BY <1>5
<1>9. /\ [sum EXCEPT !.total = @ + 1, !.skipped = @ + 1]
           = [total |-> (skipped + ran) + 1, passed |-> ran - f, failed |-> f, skipped |-> skipped + 1]
      /\ [sum EXCEPT !.total = @ + 1, !.failed = @ + 1]
           = [total |-> (skipped + ran) + 1, passed |-> ran - f, failed |-> f + 1, skipped |-> skipped]
      /\ [sum EXCEPT !.total = @ + 1, !.passed = @ + 1]
           = [total |-> (skipped + ran) + 1, passed |-> (ran - f) + 1, failed |-> f, skipped |-> skipped]
  <2> DEFINE t == skipped + ran
             p == ran - f
  <2>1. sum = [total |-> t, passed |-> p, failed |-> f, skipped |-> skipped]
    BY <1>3
  <2> HIDE DEF t, p
  <2>2. /\ [sum EXCEPT !.total = @ + 1, !.skipped = @ + 1]
             = [total |-> t + 1, passed |-> p, failed |-> f, skipped |-> skipped + 1]
        /\ [sum EXCEPT !.total = @ + 1, !.failed = @ + 1]
             = [total |-> t + 1, passed |-> p, failed |-> f + 1, skipped |-> skipped]
        /\ [sum EXCEPT !.total = @ + 1, !.passed = @ + 1]
             = [total |-> t + 1, passed |-> p + 1, failed |-> f, skipped |-> skipped]
    <3> DEFINE u == [sum EXCEPT !.total = @ + 1, !.skipped = @ + 1]
               v == [sum EXCEPT !.total = @ + 1, !.failed = @ + 1]
               w == [sum EXCEPT !.total = @ + 1, !.passed = @ + 1]
    <3>1. u \in [total : {t + 1}, passed : {p}, failed : {f}, skipped : {skipped + 1}]
      BY <2>1
    <3>2. v \in [total : {t + 1}, passed : {p}, failed : {f + 1}, skipped : {skipped}]
      BY <2>1
    <3>3. w \in [total : {t + 1}, passed : {p + 1}, failed : {f}, skipped : {skipped}]
      BY <2>1
    <3> HIDE DEF u, v, w
    <3>4. u = [total |-> t + 1, passed |-> p, failed |-> f, skipped |-> skipped + 1]
      BY <3>1
    <3>5. v = [total |-> t + 1, passed |-> p, failed |-> f + 1, skipped |-> skipped]
      BY <3>2
    <3>6. w = [total |-> t + 1, passed |-> p + 1, failed |-> f, skipped |-> skipped]
      BY <3>3
    <3> QED
      BY <3>4, <3>5, <3>6 DEF u, v, w
  <2> QED
    BY <2>2 DEF t, p
<1>10. [sum EXCEPT !.total = @ + 1, !.skipped = @ + 1] = Tallied(runs, s, skipped + 1, ran)
  BY <1>3, <1>7, <1>9
<1>11. ASSUME Mismatched(s, runs[ran + 1])
       PROVE  [sum EXCEPT !.total = @ + 1, !.failed = @ + 1] = Tallied(runs, s, skipped, ran + 1)
  <2>1. g = f + 1
    BY <1>6, <1>11
  <2> QED
    BY <1>3, <1>7, <1>9, <2>1
<1>12. ASSUME ~ Mismatched(s, runs[ran + 1])
       PROVE  [sum EXCEPT !.total = @ + 1, !.passed = @ + 1] = Tallied(runs, s, skipped, ran + 1)
  <2>1. g = f
    BY <1>6, <1>12
  <2> QED
    BY <1>3, <1>7, <1>9, <2>1
<1> QED
  BY <1>10, <1>11, <1>12 DEF sum, PlusSkipped, PlusFailed, PlusPassed

\* How many cases of a set come before a place of the suite.
Before(S, a) == Cardinality({j \in S : j < a})

LEMMA BeforeEnds ==
  \A S \in SUBSET Cases : Before(S, 0) = 0 /\ Before(S, N) = Cardinality(S)
<1> TAKE S \in SUBSET Cases
<1>1. \A j \in S : ~ (j < 0) /\ j < N
  BY DEF Cases
<1>2. {j \in S : j < 0} = {} /\ {j \in S : j < N} = S
  BY <1>1
<1> QED
  BY <1>2, FS_EmptySet DEF Before

LEMMA BeforeNext ==
  \A S \in SUBSET Cases, a \in Cases :
    /\ Before(S, a) \in Nat
    /\ a \in S => Before(S, a + 1) = Before(S, a) + 1 /\ Before(S, a + 1) = Place(S, a)
    /\ a \notin S => Before(S, a + 1) = Before(S, a)
<1> TAKE S \in SUBSET Cases, a \in Cases
<1> DEFINE B(x) == {j \in S : j < x}
<1>1. S \subseteq Int /\ a \in Int /\ \A j \in S : j >= 0 /\ j < N
  BY DEF Cases
<1>3. IsFiniteSet(B(a)) /\ Cardinality(B(a)) \in Nat
  BY CasesAreFinite
<1>4. a \in S => B(a + 1) = B(a) \cup {a} /\ B(a + 1) = {j \in S : j <= a}
  <2> SUFFICES ASSUME a \in S
               PROVE  B(a + 1) = B(a) \cup {a} /\ B(a + 1) = {j \in S : j <= a}
    OBVIOUS
  <2>1. \A j \in S : (j < a + 1 <=> j < a \/ j = a) /\ (j < a + 1 <=> j <= a)
    BY <1>1
  <2> QED
    BY <2>1
<1>5. a \notin S => B(a + 1) = B(a)
  <2> SUFFICES ASSUME a \notin S, NEW j \in S PROVE j < a + 1 <=> j < a
    OBVIOUS
  <2>1. j # a /\ j \in Int
    BY <1>1
  <2> QED
    BY <1>1, <2>1
<1>6. a \notin B(a)
  BY <1>1
<1>7. a \in S => Cardinality(B(a + 1)) = Cardinality(B(a)) + 1
  <2> HIDE DEF B
  <2> QED
    BY <1>3, <1>4, <1>6, FS_AddElement
<1>8. a \in S => Before(S, a + 1) = Place(S, a)
  BY <1>4 DEF Before, Place
<1> QED
  BY <1>3, <1>5, <1>7, <1>8 DEF Before

-----------------------------------------------------------------------------
(* The invariant of a run *)

\* The cases recorded as skipped, then those whose samples are recorded.
Skips ==
  IF suite = "sqlite_parity" THEN [n \in 1 .. nskip |-> N + n - 1]
  ELSE [n \in 1 .. nskip |-> N + n - 1] \o InOrder(Cases \ rewritable)
Runs == IF suite = "sqlite_parity" THEN [n \in 1 .. N |-> n - 1] ELSE InOrder(rewritable)

\* How many of them have been recorded whole.
Done == IF suite = "sqlite_parity" THEN at ELSE at - 1

Starts(file, whole) == Len(file) <= Len(whole) /\ \A n \in 1 .. Len(file) : file[n] = whole[n]

Types ==
  /\ suite \in {"sqlite_parity", "rql_phase1"}
  /\ nskip \in 0 .. MaxSkip /\ rewritable \in SUBSET Cases /\ seen \in Seen
  /\ raw \in Seq(Line) /\ torn \in BOOLEAN /\ at \in Nat /\ sample \in 0 .. T
  /\ runnable \in Seq(Cases) /\ failed \in BOOLEAN
  /\ summary \in [total : Nat, passed : Nat, failed : Nat, skipped : Nat]
  /\ exit \in {"none", "ok", "failed", "error", "crashed"}
  /\ phase \in {"skips", "over"} \cup IF suite = "sqlite_parity" THEN {"append"} ELSE {"rewrite", "run"}
  /\ phase = "over" <=> exit # "none"

Skipping ==
  phase = "skips" =>
    /\ at \in N .. N + nskip /\ Len(raw) = at - N
    /\ sample = 0 /\ runnable = << >> /\ failed = FALSE
    /\ summary = Tallied(Runs, seen, at - N, 0)

Rewriting ==
  phase = "rewrite" =>
    /\ at \in 0 .. N /\ sample = 0 /\ failed = FALSE
    /\ Len(raw) = nskip + Before(Cases \ rewritable, at)
    /\ summary = Tallied(Runs, seen, Len(raw), 0)
    /\ Len(runnable) = Before(rewritable, at)
    /\ \A n \in 1 .. Len(runnable) : runnable[n] = Runs[n]

\* Of the case at hand, the first `sample` samples.
SoFar ==
  /\ \A k \in 0 .. sample - 1 : seen[Runs[Done + 1]][k] \in {"match", "mismatch"}
  /\ failed <=> \E k \in 0 .. sample - 1 : seen[Runs[Done + 1]][k] = "mismatch"

Recording ==
  phase \in {"append", "run"} =>
    /\ Done \in 0 .. Len(Runs) /\ (Done = Len(Runs) => sample = 0)
    /\ Len(raw) + 1 = Row(Skips, Done, sample)
    /\ summary = Tallied(Runs, seen, Len(Skips), Done)
    /\ IF suite = "sqlite_parity" THEN \A i \in Cases : Completes(seen, i)
       ELSE runnable = Runs /\ SoFar /\ \A n \in 1 .. Done : Completes(seen, Runs[n])

\* A line of compare_cases beyond the skips means that every case has a verdict.
Decided ==
  suite = "sqlite_parity" /\ Len(raw) > nskip => \A i \in Cases : Completes(seen, i)

Ended ==
  exit \in {"ok", "failed"} =>
    /\ raw = Complete
    /\ summary = Tallied(Runs, seen, Len(Skips), Len(Runs))
    /\ \A n \in 1 .. Len(Runs) : Completes(seen, Runs[n])
    /\ exit = "failed" <=> summary.failed > 0

IInv ==
  /\ Types /\ Starts(raw, Complete)
  /\ Skipping /\ Rewriting /\ Recording /\ Decided /\ Ended

\* The suites and their union share the vocabulary of SuiteRecords.
LEMMA SameWords ==
  /\ Parity!Cases = Cases /\ Rql!Cases = Cases
  /\ Parity!Samples = Samples /\ Rql!Samples = Samples
  /\ Parity!T = T /\ Rql!T = T
  /\ Parity!SampleOutcome = SampleOutcome /\ Rql!SampleOutcome = SampleOutcome
  /\ \A i : Parity!SkipRecord(i) = SkipRecord(i) /\ Rql!SkipRecord(i) = SkipRecord(i)
  /\ \A i, k, s : /\ Parity!SampleRecord(i, k, s) = SampleRecord(i, k, s)
                  /\ Rql!SampleRecord(i, k, s) = SampleRecord(i, k, s)
  /\ \A s : Parity!CaseOutcome(s) = CaseOutcome(s)
  /\ \A n : Parity!SkippedCases(n) = SkippedCases(n) /\ Rql!SkippedCases(n) = SkippedCases(n)
<1>1. Parity!Cases = Cases /\ Rql!Cases = Cases
  BY DEF Parity!Cases, Rql!Cases, Cases
<1>2. Parity!T = T /\ Rql!T = T /\ Parity!Samples = Samples /\ Rql!Samples = Samples
  BY DEF Parity!Samples, Rql!Samples, Samples, Parity!T, Rql!T, T
<1>3. Parity!SampleOutcome = SampleOutcome /\ Rql!SampleOutcome = SampleOutcome
  BY DEF Parity!SampleOutcome, Rql!SampleOutcome, SampleOutcome
<1>4. \A i : Parity!SkipRecord(i) = SkipRecord(i) /\ Rql!SkipRecord(i) = SkipRecord(i)
  BY DEF Parity!SkipRecord, Rql!SkipRecord, SkipRecord, Parity!NoRep, Rql!NoRep, NoRep
<1>5. \A i, k, s : /\ Parity!SampleRecord(i, k, s) = SampleRecord(i, k, s)
                   /\ Rql!SampleRecord(i, k, s) = SampleRecord(i, k, s)
  BY DEF Parity!SampleRecord, Rql!SampleRecord, SampleRecord, Parity!NoRep, Rql!NoRep, NoRep
<1>6. \A s : Parity!CaseOutcome(s) = CaseOutcome(s)
  BY <1>2 DEF Parity!CaseOutcome, CaseOutcome
<1>7. \A n : Parity!SkippedCases(n) = SkippedCases(n) /\ Rql!SkippedCases(n) = SkippedCases(n)
  BY DEF Parity!SkippedCases, Rql!SkippedCases, SkippedCases
<1> QED
  BY <1>1, <1>2, <1>3, <1>4, <1>5, <1>6, <1>7

LEMMA CompleteIs == Complete = Layout(Skips, Runs, seen)
<1>1. \A skips, runs, s : /\ Parity!Layout(skips, runs, s) = Layout(skips, runs, s)
                          /\ Rql!Layout(skips, runs, s) = Layout(skips, runs, s)
  BY SameWords DEF Parity!Layout, Rql!Layout, Layout
<1>2. \A S : Rql!InOrder(S) = InOrder(S)
  BY DEF Rql!InOrder, InOrder, Rql!Cardinality, Cardinality
<1>3. Parity!Complete = Layout([n \in 1 .. nskip |-> N + n - 1], [n \in 1 .. N |-> n - 1], seen)
  BY <1>1 DEF Parity!Complete
<1>4. Rql!Complete =
        Layout([n \in 1 .. nskip |-> N + n - 1] \o InOrder(Cases \ rewritable), InOrder(rewritable), seen)
  BY <1>1, <1>2, SameWords DEF Rql!Complete
<1> QED
  BY <1>3, <1>4 DEF Complete, Skips, Runs

\* Which cases are skipped and which run does not change during a run.
LEMMA PlanStands ==
  ASSUME UNCHANGED <<suite, nskip, rewritable, seen>>
  PROVE  Skips' = Skips /\ Runs' = Runs /\ Complete' = Complete
<1>1. Skips' = Skips /\ Runs' = Runs
  BY DEF Skips, Runs
<1>2. Complete' = Layout(Skips, Runs, seen)
  <2>1. (Complete = Layout(Skips, Runs, seen))'
    BY CompleteIs, PTL
  <2> QED
    BY <1>1, <2>1
<1> QED
  BY <1>1, <1>2, CompleteIs

Plans == suite \in {"sqlite_parity", "rql_phase1"} /\ nskip \in 0 .. MaxSkip /\ rewritable \in SUBSET Cases

\* What compare_cases skips and runs.
LEMMA ParityPlan ==
  ASSUME Plans, suite = "sqlite_parity"
  PROVE  /\ Apart(Skips, Runs)
         /\ Len(Skips) = nskip /\ \A n \in 1 .. nskip : Skips[n] = N + n - 1
         /\ Len(Runs) = N /\ \A n \in 1 .. N : Runs[n] = n - 1
<1>1. Skips = [n \in 1 .. nskip |-> N + n - 1] /\ Runs = [n \in 1 .. N |-> n - 1]
  BY DEF Skips, Runs
<1>2. nskip \in Nat /\ N \in Nat
  BY DEF Plans
<1>3. Skips \in Seq(Nat) /\ Len(Skips) = nskip
  <2>1. Skips \in [1 .. nskip -> Nat]
    BY <1>1, <1>2
  <2> QED
    BY <1>2, <2>1
<1>4. Runs \in Seq(Cases) /\ Len(Runs) = N
  <2>1. Runs \in [1 .. N -> Cases]
    BY <1>1, <1>2 DEF Cases
  <2> QED
    BY <1>2, <2>1
<1> QED
  BY <1>1, <1>2, <1>3, <1>4 DEF Apart

\* What rql_phase1 skips and runs.
LEMMA RqlPlan ==
  ASSUME Plans, suite # "sqlite_parity"
  PROVE  LET unsupported == Cases \ rewritable
         IN  /\ Apart(Skips, Runs)
             /\ Len(Skips) = nskip + Cardinality(unsupported)
             /\ \A n \in 1 .. nskip : Skips[n] = N + n - 1
             /\ \A i \in unsupported : Skips[nskip + Place(unsupported, i)] = i
             /\ Runs = InOrder(rewritable) /\ Len(Runs) = Cardinality(rewritable)
<1> DEFINE U == Cases \ rewritable
           first == [n \in 1 .. nskip |-> N + n - 1]
           rest == InOrder(U)
<1>1. nskip \in Nat /\ N \in Nat /\ rewritable \in SUBSET Cases /\ U \in SUBSET Cases
  BY DEF Plans
<1>2. Skips = first \o rest /\ Runs = InOrder(rewritable)
  BY DEF Skips, Runs
<1>3. first \in Seq(Nat) /\ Len(first) = nskip /\ \A n \in 1 .. nskip : first[n] = N + n - 1
  <2>1. first \in [1 .. nskip -> Nat]
    BY <1>1
  <2> QED
    BY <1>1, <2>1
<1>4. /\ rest \in Seq(U) /\ Len(rest) = Cardinality(U)
      /\ \A n \in 1 .. Cardinality(U) : rest[n] \in U /\ Place(U, rest[n]) = n
  BY <1>1, OrderIsBijection
<1>5. /\ Runs \in Seq(rewritable) /\ Len(Runs) = Cardinality(rewritable)
      /\ \A n \in 1 .. Cardinality(rewritable) : Runs[n] \in rewritable /\ Place(rewritable, Runs[n]) = n
  BY <1>1, <1>2, OrderIsBijection
<1>6. Cardinality(U) \in Nat /\ Cardinality(rewritable) \in Nat
  BY <1>1, CasesAreFinite
<1>7. \A i \in U : Place(U, i) \in 1 .. Cardinality(U) /\ rest[Place(U, i)] = i
  BY <1>1, PlaceInOrder
<1>8. \A i \in Cases : i \in Nat /\ i < N
  BY DEF Cases
<1> HIDE DEF first, rest
<1>9. rest \in Seq(Nat)
  BY <1>1, <1>4, <1>8
<1>10. /\ Skips \in Seq(Nat) /\ Len(Skips) = nskip + Cardinality(U)
       /\ \A n \in 1 .. nskip : Skips[n] = N + n - 1
       /\ \A n \in 1 .. Cardinality(U) : Skips[nskip + n] = rest[n]
  <2> DEFINE c == Cardinality(U)
  <2>1. c \in Nat /\ Len(rest) = c
    BY <1>4, <1>6
  <2> HIDE DEF c
  <2>0. /\ first \o rest \in Seq(Nat) /\ Len(first \o rest) = Len(first) + Len(rest)
        /\ \A n \in 1 .. Len(first) + Len(rest) :
             (first \o rest)[n] = IF n <= Len(first) THEN first[n] ELSE rest[n - Len(first)]
    <3>1. first \in Seq(Nat) /\ rest \in Seq(Nat)
      BY <1>3, <1>9
    <3> QED
      BY <3>1, ConcatProperties
  <2>2. /\ Skips \in Seq(Nat) /\ Len(Skips) = nskip + c
        /\ \A n \in 1 .. nskip + c : Skips[n] = IF n <= nskip THEN first[n] ELSE rest[n - nskip]
    <3>1. Len(first) = nskip /\ Len(rest) = c /\ Skips = first \o rest
      BY <1>2, <1>3, <2>1
    <3> QED
      BY <2>0, <3>1, ZenonT(30)
  <2>3. \A n \in 1 .. nskip : n \in 1 .. nskip + c /\ n <= nskip
    BY <1>1, <2>1
  <2>4. \A n \in 1 .. c : nskip + n \in 1 .. nskip + c /\ ~ (nskip + n <= nskip) /\ (nskip + n) - nskip = n
    BY <1>1, <2>1
  <2>5. \A n \in 1 .. nskip : Skips[n] = N + n - 1
    BY <1>3, <2>2, <2>3
  <2>6. \A n \in 1 .. c : Skips[nskip + n] = rest[n]
    BY <2>2, <2>4
  <2> QED
    BY <2>2, <2>5, <2>6 DEF c
<1>11. \A n \in 1 .. Len(Skips) :
         n <= nskip \/ \E m \in 1 .. Cardinality(U) : n = nskip + m
  <2> TAKE n \in 1 .. Len(Skips)
  <2>1. n > nskip => n - nskip \in 1 .. Cardinality(U) /\ n = nskip + (n - nskip)
    BY <1>1, <1>6, <1>10
  <2> QED
    BY <1>1, <2>1
<1>12. \A n \in 1 .. Len(Skips) :
         \/ n <= nskip /\ Skips[n] = N + n - 1
         \/ n > nskip /\ Skips[n] \in U /\ Place(U, Skips[n]) = n - nskip
  <2> TAKE n \in 1 .. Len(Skips)
  <2>1. CASE n <= nskip
    <3>1. n \in 1 .. nskip
      BY <1>1, <2>1
    <3> QED
      BY <1>10, <2>1, <3>1
  <2>2. CASE \E m \in 1 .. Cardinality(U) : n = nskip + m
    <3>1. PICK m \in 1 .. Cardinality(U) : n = nskip + m
      BY <2>2
    <3>2. Skips[n] = rest[m]
      BY <1>10, <3>1
    <3>3. m = n - nskip /\ n > nskip
      BY <1>1, <3>1
    <3> QED
      BY <1>4, <3>2, <3>3
  <2> QED
    BY <1>11, <2>1, <2>2
<1>13. ASSUME NEW n \in 1 .. Len(Skips), NEW m \in 1 .. Len(Skips), Skips[n] = Skips[m]
       PROVE  n = m
  <2>0. n \in Nat /\ m \in Nat
    OBVIOUS
  <2>1. CASE n <= nskip /\ m <= nskip
    <3>1. N + n - 1 = N + m - 1
      BY <1>1, <1>12, <1>13, <2>1, <2>0
    <3> QED
      BY <1>1, <2>0, <3>1
  <2>2. CASE n > nskip /\ m > nskip
    <3>1. n - nskip = m - nskip
      BY <1>1, <1>12, <1>13, <2>2, <2>0
    <3> QED
      BY <1>1, <2>0, <3>1
  <2>3. CASE n <= nskip /\ m > nskip
    <3>1. Skips[n] >= N /\ Skips[m] < N /\ Skips[n] \in Nat
      BY <1>1, <1>8, <1>12, <2>3, <2>0
    <3> QED
      BY <1>1, <1>13, <3>1
  <2>4. CASE n > nskip /\ m <= nskip
    <3>1. Skips[m] >= N /\ Skips[n] < N /\ Skips[n] \in Nat
      BY <1>1, <1>8, <1>12, <2>4, <2>0
    <3> QED
      BY <1>1, <1>13, <3>1
  <2> QED
    BY <1>1, <2>0, <2>1, <2>2, <2>3, <2>4
<1>14. \A n, m \in 1 .. Len(Runs) : Runs[n] = Runs[m] => n = m
  BY <1>5
<1>15. ASSUME NEW n \in 1 .. Len(Skips), NEW m \in 1 .. Len(Runs), Skips[n] = Runs[m]
       PROVE  FALSE
  <2>1. Runs[m] \in rewritable /\ Runs[m] < N /\ Runs[m] \in Nat
    BY <1>1, <1>5, <1>8
  <2>2. n \in Nat
    OBVIOUS
  <2> QED
    BY <1>1, <1>12, <1>15, <2>1, <2>2, SMTT(30)
<1>16. Apart(Skips, Runs)
  <2>1. Runs \in Seq(Cases)
    BY <1>1, <1>5
  <2> QED
    BY <1>10, <1>13, <1>14, <1>15, <2>1 DEF Apart
<1>17. \A i \in U : Skips[nskip + Place(U, i)] = i
  BY <1>7, <1>10
<1> QED
  BY <1>2, <1>5, <1>10, <1>16, <1>17

\* The whole file, whichever suite writes it.
LEMMA WholeFile ==
  ASSUME Plans
  PROVE  /\ Apart(Skips, Runs) /\ Skips \in Seq(Nat) /\ Runs \in Seq(Cases)
         /\ Len(Skips) \in Nat /\ Len(Runs) \in Nat /\ nskip \in 0 .. Len(Skips)
         /\ \A n \in 1 .. Len(Runs) : Runs[n] \in Cases
         /\ Complete \in Seq(Line) /\ Len(Complete) \in Nat
         /\ Len(Skips) <= Len(Complete)
         /\ \A n \in 1 .. nskip : Complete[n] = SkipRecord(N + n - 1)
         /\ \A n \in 1 .. Len(Skips) : Complete[n] = SkipRecord(Skips[n])
         /\ \A a \in 0 .. Len(Runs) - 1, k \in Samples :
              /\ Row(Skips, a, k) \in 1 .. Len(Complete)
              /\ Complete[Row(Skips, a, k)] = SampleRecord(Runs[a + 1], k, seen[Runs[a + 1]][k])
         /\ Row(Skips, 0, 0) = Len(Skips) + 1
         /\ Row(Skips, Len(Runs), 0) = Len(Complete) + 1
         /\ \A a \in 0 .. Len(Runs) : \A k \in 0 .. T :
              /\ Row(Skips, a, k) > Len(Skips) /\ Row(Skips, a, k) \in Nat
              /\ Row(Skips, a, k + 1) = Row(Skips, a, k) + 1
              /\ Row(Skips, a, T) = Row(Skips, a + 1, 0)
<1>1. nskip \in Nat
  BY DEF Plans
<1>2. /\ Apart(Skips, Runs) /\ Len(Skips) \in Nat /\ nskip \in 0 .. Len(Skips)
      /\ \A n \in 1 .. nskip : Skips[n] = N + n - 1
  <2>1. CASE suite = "sqlite_parity"
    <3>1. Apart(Skips, Runs) /\ Len(Skips) = nskip /\ \A n \in 1 .. nskip : Skips[n] = N + n - 1
      BY <2>1, ParityPlan
    <3> QED
      BY <1>1, <3>1
  <2>2. CASE suite # "sqlite_parity"
    <3>1. /\ Apart(Skips, Runs) /\ Len(Skips) = nskip + Cardinality(Cases \ rewritable)
          /\ \A n \in 1 .. nskip : Skips[n] = N + n - 1
      BY <2>2, RqlPlan
    <3>2. Cardinality(Cases \ rewritable) \in Nat
      BY CasesAreFinite
    <3> DEFINE c == Cardinality(Cases \ rewritable)
    <3>3. c \in Nat /\ Len(Skips) = nskip + c
      BY <3>1, <3>2
    <3> HIDE DEF c
    <3>4. Len(Skips) \in Nat /\ nskip \in 0 .. Len(Skips)
      BY <1>1, <3>3
    <3> QED
      BY <3>1, <3>4
  <2> QED
    BY <2>1, <2>2
<1>3. /\ Skips \in Seq(Nat) /\ Runs \in Seq(Cases) /\ Len(Runs) \in Nat
      /\ \A n \in 1 .. Len(Runs) : Runs[n] \in Cases
  BY <1>2 DEF Apart
<1>4. /\ Len(Skips) + Len(Runs) * T \in Nat /\ Complete \in Seq(Line)
      /\ Len(Complete) = Len(Skips) + Len(Runs) * T
      /\ \A n \in 1 .. Len(Skips) : Complete[n] = SkipRecord(Skips[n])
      /\ \A a \in 0 .. Len(Runs) - 1, k \in Samples :
           Complete[Row(Skips, a, k)] = SampleRecord(Runs[a + 1], k, seen[Runs[a + 1]][k])
  BY <1>3, LayoutIs, CompleteIs
<1>5. Len(Runs) * T \in Nat /\ T \in Nat /\ 0 * T = 0
  BY <1>3, SampleCount, FewerRows
<1>6. \A n \in 1 .. nskip : Complete[n] = SkipRecord(N + n - 1)
  <2> TAKE n \in 1 .. nskip
  <2>1. n \in 1 .. Len(Skips)
    BY <1>1, <1>2
  <2> QED
    BY <1>2, <1>4, <2>1
<1>7. ASSUME NEW a \in 0 .. Len(Runs) - 1, NEW k \in Samples
      PROVE  Row(Skips, a, k) \in 1 .. Len(Complete)
  <2>1. Row(Skips, a, k) \in Len(Skips) + 1 .. Len(Skips) + Len(Runs) * T
    BY <1>3, RowsFill
  <2> QED
    BY <1>2, <1>4, <1>5, <2>1
<1>8. ASSUME NEW a \in 0 .. Len(Runs), NEW k \in 0 .. T
      PROVE  /\ Row(Skips, a, k) > Len(Skips) /\ Row(Skips, a, k) \in Nat
             /\ Row(Skips, a, k + 1) = Row(Skips, a, k) + 1
             /\ Row(Skips, a, T) = Row(Skips, a + 1, 0)
  <2>1. a * T \in Nat /\ (a + 1) * T = a * T + T
    BY <1>3, <1>5, FewerRows
  <2> QED
    BY <1>2, <1>5, <2>1 DEF Row
<1>9. Row(Skips, 0, 0) = Len(Skips) + 1 /\ Row(Skips, Len(Runs), 0) = Len(Complete) + 1
  BY <1>2, <1>4, <1>5 DEF Row
<1>10. Len(Skips) <= Len(Complete) /\ Len(Complete) \in Nat
  BY <1>2, <1>4, <1>5
<1> QED
  BY <1>2, <1>3, <1>4, <1>6, <1>7, <1>8, <1>9, <1>10

LEMMA LineAppended ==
  ASSUME NEW whole \in Seq(Line), NEW file \in Seq(Line), Starts(file, whole), Len(file) < Len(whole)
  PROVE  LET more == Append(file, whole[Len(file) + 1])
         IN  more \in Seq(Line) /\ Len(more) = Len(file) + 1 /\ Starts(more, whole)
<1> DEFINE r == whole[Len(file) + 1]
<1>1. Len(file) \in Nat /\ Len(whole) \in Nat /\ r \in Line
  BY ElementOfSeq
<1>2. /\ Append(file, r) \in Seq(Line) /\ Len(Append(file, r)) = Len(file) + 1
      /\ \A n \in 1 .. Len(file) : Append(file, r)[n] = file[n]
      /\ Append(file, r)[Len(file) + 1] = r
  BY <1>1, AppendProperties
<1>3. \A n \in 1 .. Len(file) + 1 : n \in 1 .. Len(file) \/ n = Len(file) + 1
  BY <1>1
<1>4. Starts(Append(file, r), whole)
  <2> HIDE DEF r
  <2>1. Len(file) + 1 <= Len(whole)
    BY <1>1
  <2> QED
    BY <1>2, <1>3, <2>1 DEF Starts, r
<1> QED
  BY <1>2, <1>4

LEMMA StartsToTheEnd ==
  ASSUME NEW whole \in Seq(Line), NEW file \in Seq(Line), Starts(file, whole), Len(file) = Len(whole)
  PROVE  file = whole
BY SeqEqual DEF Starts

-----------------------------------------------------------------------------
(* The invariant step by step *)

\* What a step does to the file, as RawFile has it.
Abstractly == File!Next \/ UNCHANGED <<Complete, raw, torn, exit>>

LEMMA Planned == Types => Plans
BY DEF Types, Plans

\* A step that ends the suite with an error or a crash records nothing.
LEMMA Stopped ==
  ASSUME IInv, Types', exit = "none", exit' \in {"error", "crashed"}, UNCHANGED <<suite, nskip, rewritable, seen, raw>>
  PROVE  IInv' /\ Abstractly
<1>1. Skips' = Skips /\ Runs' = Runs /\ Complete' = Complete
  BY PlanStands
<1>2. phase' = "over"
  BY DEF Types
<1>3. Starts(raw, Complete)'
  BY <1>1 DEF IInv, Starts
<1>4. Skipping' /\ Rewriting' /\ Recording' /\ Ended'
  BY <1>2 DEF Skipping, Rewriting, Recording, Ended
<1>5. Decided'
  BY DEF IInv, Decided
<1>6. torn' \in BOOLEAN
  BY DEF Types
<1>7. File!Abort
  BY <1>1, <1>6 DEF File!Abort
<1> QED
  BY <1>3, <1>4, <1>5, <1>7 DEF IInv, Abstractly, File!Next

\* A case the partition skipped is recorded.
LEMMA SkipRecorded ==
  ASSUME IInv, phase = "skips", at \in N .. N + nskip - 1,
         raw' = Append(raw, SkipRecord(at)), at' = at + 1,
         summary' = PlusSkipped(summary),
         UNCHANGED <<suite, nskip, rewritable, seen, torn, phase, exit, sample, runnable, failed>>
  PROVE  IInv' /\ Abstractly
<1> USE DEF IInv
<1>1. Skips' = Skips /\ Runs' = Runs /\ Complete' = Complete
  BY PlanStands
<1>2. Plans /\ nskip \in Nat /\ N \in Nat
  BY Planned DEF Plans
<1>3. /\ Len(raw) = at - N /\ sample = 0 /\ runnable = << >> /\ failed = FALSE
      /\ summary = Tallied(Runs, seen, at - N, 0)
  BY DEF Skipping
<1>4. at - N \in Nat /\ at - N + 1 \in 1 .. nskip
  BY <1>2
<1>5. /\ Complete \in Seq(Line) /\ Len(Complete) \in Nat /\ Len(Skips) <= Len(Complete)
      /\ nskip \in 0 .. Len(Skips) /\ Len(Skips) \in Nat
      /\ \A n \in 1 .. nskip : Complete[n] = SkipRecord(N + n - 1)
  BY <1>2, WholeFile
<1>6. Len(raw) < Len(Complete) /\ Complete[Len(raw) + 1] = SkipRecord(at)
  <2>1. N + (at - N + 1) - 1 = at
    BY <1>2
  <2>2. Complete[at - N + 1] = SkipRecord(at)
    BY <1>4, <1>5, <2>1
  <2> QED
    BY <1>3, <1>4, <1>5, <2>2
<1>7. raw \in Seq(Line) /\ Starts(raw, Complete)
  BY DEF Types
<1>8. raw' \in Seq(Line) /\ Len(raw') = Len(raw) + 1 /\ Starts(raw', Complete)
  BY <1>5, <1>6, <1>7, LineAppended
<1>9. /\ summary' = Tallied(Runs, seen, (at - N) + 1, 0)
      /\ summary' \in [total : Nat, passed : Nat, failed : Nat, skipped : Nat]
  <2> DEFINE c == at - N
             sum == Tallied(Runs, seen, c, 0)
  <2>1. c \in Nat /\ summary = sum
    BY <1>3, <1>4
  <2> HIDE DEF c
  <2>2. PlusSkipped(sum) = Tallied(Runs, seen, c + 1, 0)
    BY <2>1, NextTally
  <2>3. Tallied(Runs, seen, c + 1, 0) \in [total : Nat, passed : Nat, failed : Nat, skipped : Nat]
    <3>1. c + 1 \in Nat
      BY <2>1
    <3> QED
      BY <3>1, Tallying
  <2> QED
    BY <2>1, <2>2, <2>3 DEF c
<1>10. Types'
  <2>1. at' \in Nat
    BY <1>2
  <2> QED
    BY <1>8, <1>9, <2>1 DEF Types
<1>11. Skipping'
  <2>1. at' \in N .. N + nskip /\ Len(raw') = at' - N /\ at' - N = (at - N) + 1
    BY <1>2, <1>3, <1>8
  <2> QED
    BY <1>1, <1>3, <1>9, <2>1 DEF Skipping
<1>12. Rewriting' /\ Recording' /\ Ended'
  BY DEF Rewriting, Recording, Ended, Types
<1>13. Decided'
  <2>1. Len(raw') <= nskip
    BY <1>3, <1>4, <1>8
  <2> QED
    BY <1>2, <1>8, <2>1 DEF Decided
<1>14. exit = "none"
  BY DEF Types
<1>15. File!AppendNext
  BY <1>1, <1>6, <1>14 DEF File!AppendNext
<1> QED
  BY <1>1, <1>8, <1>10, <1>11, <1>12, <1>13, <1>15 DEF Abstractly, File!Next

\* A sample of the case at hand is recorded.
LEMMA SampleRecorded ==
  ASSUME IInv, phase \in {"append", "run"}, Done < Len(Runs), sample \in Samples,
         NEW result, result = seen[Runs[Done + 1]][sample],
         raw' = Append(raw, SampleRecord(Runs[Done + 1], sample, result)), sample' = sample + 1,
         \/ suite = "sqlite_parity" /\ UNCHANGED failed
         \/ result \in {"match", "mismatch"} /\ failed' = (failed \/ result = "mismatch"),
         UNCHANGED <<suite, nskip, rewritable, seen, torn, phase, exit, at, runnable, summary>>
  PROVE  IInv' /\ Abstractly
<1> USE DEF IInv
<1>1. Skips' = Skips /\ Runs' = Runs /\ Complete' = Complete /\ Done' = Done
  BY PlanStands DEF Done
<1>2. Plans
  BY Planned
<1>3. Done \in 0 .. Len(Runs) - 1 /\ sample \in 0 .. T - 1 /\ sample \in 0 .. T /\ T \in Nat /\ Len(Runs) \in Nat
  <2>1. Done \in 0 .. Len(Runs) /\ Len(Runs) \in Nat
    BY <1>2, WholeFile DEF Recording
  <2> QED
    BY <2>1, SampleCount
<1>4. Len(raw) + 1 = Row(Skips, Done, sample)
  BY DEF Recording
<1>5. /\ Complete \in Seq(Line) /\ Len(Complete) \in Nat /\ Len(Skips) \in Nat /\ nskip \in 0 .. Len(Skips)
      /\ Row(Skips, Done, sample) \in 1 .. Len(Complete)
      /\ Complete[Row(Skips, Done, sample)] = SampleRecord(Runs[Done + 1], sample, result)
      /\ Row(Skips, Done, sample + 1) = Row(Skips, Done, sample) + 1
      /\ Row(Skips, Done, sample) > Len(Skips)
  <2>1. Done \in 0 .. Len(Runs)
    BY <1>3
  <2> QED
    BY <1>2, <1>3, <2>1, WholeFile
<1>6. raw \in Seq(Line) /\ Starts(raw, Complete) /\ Len(raw) \in Nat
  BY DEF Types
<1>7. Len(raw) < Len(Complete)
  BY <1>4, <1>5, <1>6
<1>8. raw' \in Seq(Line) /\ Len(raw') = Len(raw) + 1 /\ Starts(raw', Complete)
  BY <1>4, <1>5, <1>6, <1>7, LineAppended
<1>9. sample' \in 0 .. T /\ failed' \in BOOLEAN
  <2>1. failed' \in BOOLEAN
    BY DEF Types
  <2> QED
    BY <1>3, <2>1
<1>10. Types'
  BY <1>8, <1>9 DEF Types
<1>11. Skipping' /\ Rewriting' /\ Ended'
  BY DEF Skipping, Rewriting, Ended, Types
<1>12. SoFar' \/ suite = "sqlite_parity"
  <2> SUFFICES ASSUME suite # "sqlite_parity" PROVE SoFar'
    OBVIOUS
  <2>1. SoFar
    BY DEF Recording
  <2>2. \A k \in 0 .. (sample + 1) - 1 : k \in 0 .. sample - 1 \/ k = sample
    BY <1>3
  <2>3. 0 .. sample - 1 \subseteq 0 .. (sample + 1) - 1 /\ sample \in 0 .. (sample + 1) - 1
    BY <1>3
  <2>4. \A k \in 0 .. sample' - 1 : seen'[Runs'[Done' + 1]][k] \in {"match", "mismatch"}
    BY <1>1, <2>1, <2>2 DEF SoFar
  <2>5. failed' <=> \E k \in 0 .. sample' - 1 : seen'[Runs'[Done' + 1]][k] = "mismatch"
    BY <1>1, <2>1, <2>2, <2>3, ZenonT(30) DEF SoFar
  <2> QED
    BY <2>4, <2>5 DEF SoFar
<1>13. Recording'
  <2>1. Len(raw') + 1 = Row(Skips, Done, sample')
    BY <1>4, <1>5, <1>6, <1>8
  <2>2. Done' \in 0 .. Len(Runs') /\ Done' # Len(Runs')
    BY <1>1, <1>3
  <2>3. summary' = Tallied(Runs', seen', Len(Skips'), Done')
    BY <1>1 DEF Recording
  <2>4. IF suite = "sqlite_parity" THEN \A i \in Cases : Completes(seen', i)
        ELSE runnable' = Runs' /\ SoFar' /\ \A n \in 1 .. Done' : Completes(seen', Runs'[n])
    BY <1>1, <1>12 DEF Recording
  <2> QED
    BY <1>1, <2>1, <2>2, <2>3, <2>4 DEF Recording
<1>14. Decided'
  BY DEF Decided, Recording
<1>15. exit = "none"
  BY DEF Types
<1>16. File!AppendNext
  BY <1>1, <1>4, <1>5, <1>7, <1>15 DEF File!AppendNext
<1> QED
  BY <1>1, <1>8, <1>10, <1>11, <1>13, <1>14, <1>16 DEF Abstractly, File!Next

\* The case at hand is counted, as failed if a sample of it was a mismatch.
LEMMA CaseCounted ==
  ASSUME IInv, phase \in {"append", "run"}, Done < Len(Runs), sample = T,
         Mismatched(seen, Runs[Done + 1]) => summary' = PlusFailed(summary),
         ~ Mismatched(seen, Runs[Done + 1]) => summary' = PlusPassed(summary),
         at' = at + 1, sample' = 0, failed' = FALSE \/ (suite = "sqlite_parity" /\ UNCHANGED failed),
         UNCHANGED <<suite, nskip, rewritable, seen, raw, torn, phase, exit, runnable>>
  PROVE  IInv' /\ Abstractly
<1> USE DEF IInv
<1>1. Skips' = Skips /\ Runs' = Runs /\ Complete' = Complete
  BY PlanStands
<1>2. Plans
  BY Planned
<1>3. Done \in 0 .. Len(Runs) - 1 /\ T \in Nat /\ T > 0 /\ Len(Runs) \in Nat
  <2>1. Done \in 0 .. Len(Runs) /\ Len(Runs) \in Nat
    BY <1>2, WholeFile DEF Recording
  <2> QED
    BY <2>1, SampleCount
<1>4. Done' = Done + 1
  <2>1. CASE suite = "sqlite_parity"
    BY <2>1 DEF Done
  <2>2. CASE suite # "sqlite_parity"
    <3>1. Done = at - 1 /\ Done' = (at + 1) - 1
      BY <2>2 DEF Done
    <3>2. at \in Nat
      BY DEF Types
    <3> QED
      BY <3>1, <3>2
  <2> QED
    BY <2>1, <2>2
<1>5. Len(raw) + 1 = Row(Skips, Done + 1, 0)
  <2>1. Len(raw) + 1 = Row(Skips, Done, T)
    BY DEF Recording
  <2>2. Done \in 0 .. Len(Runs) /\ T \in 0 .. T
    BY <1>3
  <2> QED
    BY <1>2, <2>1, <2>2, WholeFile
<1>6. /\ summary' = Tallied(Runs, seen, Len(Skips), Done + 1)
      /\ summary' \in [total : Nat, passed : Nat, failed : Nat, skipped : Nat]
  <2> DEFINE k == Len(Skips)
             sum == Tallied(Runs, seen, k, Done)
  <2>1. k \in Nat /\ Done \in Nat /\ Done + 1 \in Nat
    BY <1>2, <1>3, WholeFile
  <2>2. summary = sum
    BY DEF Recording
  <2> HIDE DEF k
  <2>3. /\ Mismatched(seen, Runs[Done + 1]) => PlusFailed(sum) = Tallied(Runs, seen, k, Done + 1)
        /\ ~ Mismatched(seen, Runs[Done + 1]) => PlusPassed(sum) = Tallied(Runs, seen, k, Done + 1)
    BY <2>1, NextTally
  <2>5. Tallied(Runs, seen, k, Done + 1) \in [total : Nat, passed : Nat, failed : Nat, skipped : Nat]
    BY <2>1, Tallying
  <2>4. summary' = Tallied(Runs, seen, k, Done + 1)
    BY <2>2, <2>3
  <2> QED
    BY <2>4, <2>5 DEF k
<1>7. Types'
  <2>1. sample' \in 0 .. T
    BY <1>3
  <2>2. failed' \in BOOLEAN
    BY DEF Types
  <2>3. at' \in Nat
    BY DEF Types
  <2> QED
    BY <1>6, <2>1, <2>2, <2>3 DEF Types
<1>8. Skipping' /\ Rewriting' /\ Ended'
  BY DEF Skipping, Rewriting, Ended, Types
<1>9. suite # "sqlite_parity" => SoFar' /\ \A n \in 1 .. Done + 1 : Completes(seen, Runs[n])
  <2> SUFFICES ASSUME suite # "sqlite_parity"
               PROVE  SoFar' /\ \A n \in 1 .. Done + 1 : Completes(seen, Runs[n])
    OBVIOUS
  <2>1. SoFar'
    BY DEF SoFar
  <2>2. Completes(seen, Runs[Done + 1])
    BY SampleCount DEF Recording, SoFar, Completes
  <2>3. \A n \in 1 .. Done : Completes(seen, Runs[n])
    BY DEF Recording
  <2>4. \A n \in 1 .. Done + 1 : n \in 1 .. Done \/ n = Done + 1
    BY <1>3
  <2> QED
    BY <2>1, <2>2, <2>3, <2>4
<1>10. Recording'
  <2>1. Done' \in 0 .. Len(Runs')
    BY <1>1, <1>3, <1>4
  <2>2. IF suite = "sqlite_parity" THEN \A i \in Cases : Completes(seen', i)
        ELSE runnable' = Runs' /\ SoFar' /\ \A n \in 1 .. Done' : Completes(seen', Runs'[n])
    BY <1>1, <1>4, <1>9 DEF Recording
  <2> QED
    BY <1>1, <1>4, <1>5, <1>6, <2>1, <2>2 DEF Recording
<1>11. Decided' /\ Starts(raw, Complete)'
  BY <1>1 DEF Decided, Starts
<1>12. Abstractly
  BY <1>1 DEF Abstractly
<1> QED
  BY <1>7, <1>8, <1>10, <1>11, <1>12

\* A record of the whole file failed exactly when the summary counts a failed case.
LEMMA FailedRecord ==
  ASSUME Plans, \A n \in 1 .. Len(Runs) : Completes(seen, Runs[n])
  PROVE  (\E n \in DOMAIN Complete : Complete[n].status = "failed") <=> Failures(Runs, seen, Len(Runs)) > 0
<1>1. Apart(Skips, Runs) /\ Len(Runs) \in Nat
  BY WholeFile
<1>2. \A r : r \in Records(Complete) <=>
           \/ \E i \in Named(Skips) : r = SkipRecord(i)
           \/ \E i \in Named(Runs), k \in Samples : r = SampleRecord(i, k, seen[i][k])
  BY <1>1, RecordsOfLayout, CompleteIs
<1>3. \A i : SkipRecord(i).status # "failed"
  BY DEF SkipRecord
<1>4. \A i, k, x : SampleRecord(i, k, x).status = "failed" <=> x # "match"
  BY DEF SampleRecord
<1>5. (\E n \in DOMAIN Complete : Complete[n].status = "failed")
        <=> \E r \in Records(Complete) : r.status = "failed"
  BY DEF Records
<1>6. (\E r \in Records(Complete) : r.status = "failed")
        <=> \E i \in Named(Runs), k \in Samples : seen[i][k] # "match"
  BY <1>2, <1>3, <1>4
<1>7. \A i \in Named(Runs), k \in Samples : seen[i][k] # "match" <=> seen[i][k] = "mismatch"
  BY DEF Completes, Named
<1>8. (\E i \in Named(Runs), k \in Samples : seen[i][k] # "match")
        <=> \E n \in 1 .. Len(Runs) : Mismatched(seen, Runs[n])
  BY <1>7 DEF Mismatched, Named
<1>9. Failures(Runs, seen, Len(Runs)) > 0 <=> \E n \in 1 .. Len(Runs) : Mismatched(seen, Runs[n])
  BY <1>1, FailuresSoFar
<1> QED
  BY <1>5, <1>6, <1>8, <1>9

\* The suite ends with a verdict once every case is counted.
LEMMA Verdicts ==
  ASSUME IInv, phase \in {"append", "run"}, Done = Len(Runs),
         phase' = "over", exit' = IF summary.failed > 0 THEN "failed" ELSE "ok",
         UNCHANGED <<suite, nskip, rewritable, seen, raw, torn, at, sample, summary, runnable, failed>>
  PROVE  IInv' /\ Abstractly
<1> USE DEF IInv
<1>1. Skips' = Skips /\ Runs' = Runs /\ Complete' = Complete
  BY PlanStands
<1>2. Plans
  BY Planned
<1>3. raw = Complete
  <2>1. Len(raw) + 1 = Row(Skips, Len(Runs), 0)
    BY DEF Recording
  <2>2. Complete \in Seq(Line) /\ Len(Complete) \in Nat /\ Row(Skips, Len(Runs), 0) = Len(Complete) + 1
    BY <1>2, WholeFile
  <2>3. raw \in Seq(Line) /\ Len(raw) \in Nat /\ Starts(raw, Complete)
    BY DEF Types
  <2>4. Len(raw) = Len(Complete)
    BY <2>1, <2>2, <2>3
  <2> QED
    BY <2>2, <2>3, <2>4, StartsToTheEnd
<1>4. \A n \in 1 .. Len(Runs) : Completes(seen, Runs[n])
  <2>1. \A n \in 1 .. Len(Runs) : Runs[n] \in Cases
    BY <1>2, WholeFile
  <2> QED
    BY <2>1 DEF Recording
<1>5. Types'
  BY DEF Types
<1>6. Ended'
  BY <1>1, <1>3, <1>4 DEF Ended, Recording
<1>7. Skipping' /\ Rewriting' /\ Recording'
  BY DEF Skipping, Rewriting, Recording
<1>8. Decided' /\ Starts(raw, Complete)'
  BY <1>1 DEF Decided, Starts
<1>9. File!Finish
  <2>1. exit = "none"
    BY DEF Types
  <2>2. summary.failed = Failures(Runs, seen, Len(Runs))
    BY DEF Recording, Tallied
  <2>3. (\E n \in DOMAIN Complete : Complete[n].status = "failed") <=> summary.failed > 0
    BY <1>2, <1>4, <2>2, FailedRecord
  <2>4. exit' = File!Verdict
    BY <1>3, <2>3 DEF File!Verdict
  <2> QED
    BY <1>1, <1>3, <2>1, <2>4 DEF File!Finish
<1> QED
  BY <1>5, <1>6, <1>7, <1>8, <1>9 DEF Abstractly, File!Next

\* compare_cases goes on to record only if every case has a verdict.
LEMMA RecordingBegins ==
  ASSUME IInv, suite = "sqlite_parity", phase = "skips", at = N + nskip, phase' = "append", at' = 0,
         \A i \in Cases : Completes(seen, i),
         UNCHANGED <<suite, nskip, rewritable, seen, raw, torn, exit, sample, runnable, failed, summary>>
  PROVE  IInv' /\ Abstractly
<1> USE DEF IInv
<1>1. Skips' = Skips /\ Runs' = Runs /\ Complete' = Complete
  BY PlanStands
<1>2. Plans /\ nskip \in Nat
  BY Planned DEF Plans
<1>3. /\ at - N = nskip /\ Len(raw) = nskip /\ sample = 0 /\ failed = FALSE
      /\ summary = Tallied(Runs, seen, nskip, 0)
  <2>1. at - N = nskip
    BY <1>2
  <2> QED
    BY <2>1 DEF Skipping
<1>4. Len(Skips) = nskip
  BY <1>2, ParityPlan
<1>5. Row(Skips, 0, 0) = Len(Skips) + 1 /\ Len(Runs) \in Nat
  BY <1>2, WholeFile
<1>6. Types'
  BY DEF Types
<1>7. Recording'
  BY <1>1, <1>3, <1>4, <1>5 DEF Recording, Done
<1>8. Skipping' /\ Rewriting' /\ Ended'
  BY DEF Skipping, Rewriting, Ended, Types
<1>9. Decided' /\ Starts(raw, Complete)'
  BY <1>1 DEF Decided, Starts
<1>10. Abstractly
  BY <1>1 DEF Abstractly
<1> QED
  BY <1>6, <1>7, <1>8, <1>9, <1>10

\* rql_phase1 has recorded the partition's skips and goes on to the rewriter.
LEMMA RewritingBegins ==
  ASSUME IInv, suite # "sqlite_parity", phase = "skips", at = N + nskip, phase' = "rewrite", at' = 0,
         UNCHANGED <<suite, nskip, rewritable, seen, raw, torn, exit, sample, runnable, failed, summary>>
  PROVE  IInv' /\ Abstractly
<1> USE DEF IInv
<1>1. Skips' = Skips /\ Runs' = Runs /\ Complete' = Complete
  BY PlanStands
<1>2. Plans /\ nskip \in Nat
  BY Planned DEF Plans
<1>3. /\ Len(raw) = nskip /\ sample = 0 /\ failed = FALSE /\ runnable = << >>
      /\ summary = Tallied(Runs, seen, nskip, 0)
  <2>1. at - N = nskip
    BY <1>2
  <2> QED
    BY <2>1 DEF Skipping
<1>4. Before(rewritable, 0) = 0 /\ Before(Cases \ rewritable, 0) = 0
  BY <1>2, BeforeEnds DEF Plans
<1>5. Types'
  BY DEF Types
<1>6. Rewriting'
  BY <1>1, <1>2, <1>3, <1>4 DEF Rewriting
<1>7. Skipping' /\ Recording' /\ Ended'
  BY DEF Skipping, Recording, Ended, Types
<1>8. Decided' /\ Starts(raw, Complete)'
  BY <1>1 DEF Decided, Starts
<1>9. Abstractly
  BY <1>1 DEF Abstractly
<1> QED
  BY <1>5, <1>6, <1>7, <1>8, <1>9

\* A case that can be rewritten joins the runnable ones.
LEMMA CaseRewritten ==
  ASSUME IInv, phase = "rewrite", at \in rewritable, at' = at + 1, runnable' = Append(runnable, at),
         UNCHANGED <<suite, nskip, rewritable, seen, raw, torn, phase, exit, sample, failed, summary>>
  PROVE  IInv' /\ Abstractly
<1> USE DEF IInv
<1>1. Skips' = Skips /\ Runs' = Runs /\ Complete' = Complete
  BY PlanStands
<1>2. Plans /\ suite # "sqlite_parity" /\ at \in Cases /\ at \in 0 .. N - 1
  BY Planned DEF Plans, Types, Cases
<1>3. Runs = InOrder(rewritable)
  BY <1>2, RqlPlan
<1>4. /\ Before(rewritable, at + 1) = Before(rewritable, at) + 1
      /\ Before(rewritable, at + 1) = Place(rewritable, at) /\ Before(rewritable, at) \in Nat
  BY <1>2, BeforeNext DEF Plans
<1>5. Before(Cases \ rewritable, at + 1) = Before(Cases \ rewritable, at)
  <2>1. Cases \ rewritable \in SUBSET Cases /\ at \notin Cases \ rewritable
    OBVIOUS
  <2> QED
    BY <1>2, <2>1, BeforeNext
<1>6. InOrder(rewritable)[Place(rewritable, at)] = at
  BY <1>2, PlaceInOrder DEF Plans
<1>7. /\ Len(runnable) = Before(rewritable, at) /\ \A n \in 1 .. Len(runnable) : runnable[n] = Runs[n]
      /\ runnable \in Seq(Cases)
  BY DEF Rewriting, Types
<1>8. /\ runnable' \in Seq(Cases) /\ Len(runnable') = Len(runnable) + 1
      /\ \A n \in 1 .. Len(runnable) : runnable'[n] = runnable[n]
      /\ runnable'[Len(runnable) + 1] = at
  BY <1>2, <1>7, AppendProperties
<1>9. \A n \in 1 .. Len(runnable') : runnable'[n] = Runs[n]
  <2> TAKE n \in 1 .. Len(runnable')
  <2>1. n \in 1 .. Len(runnable) \/ n = Len(runnable) + 1
    BY <1>4, <1>7, <1>8
  <2>2. CASE n \in 1 .. Len(runnable)
    BY <1>7, <1>8, <2>2
  <2>3. CASE n = Len(runnable) + 1
    BY <1>3, <1>4, <1>6, <1>7, <1>8, <2>3
  <2> QED
    BY <2>1, <2>2, <2>3
<1>10. at' \in 0 .. N /\ at' \in Nat
  BY <1>2
<1>11. Types'
  BY <1>8, <1>10 DEF Types
<1>12. Rewriting'
  BY <1>1, <1>4, <1>5, <1>7, <1>8, <1>9, <1>10 DEF Rewriting
<1>13. Skipping' /\ Recording' /\ Ended'
  BY DEF Skipping, Recording, Ended, Types
<1>14. Decided' /\ Starts(raw, Complete)'
  BY <1>1 DEF Decided, Starts
<1>15. Abstractly
  BY <1>1 DEF Abstractly
<1> QED
  BY <1>11, <1>12, <1>13, <1>14, <1>15

\* A case that cannot be rewritten is recorded as skipped.
LEMMA CaseUnsupported ==
  ASSUME IInv, phase = "rewrite", at \in Cases \ rewritable, at' = at + 1,
         raw' = Append(raw, SkipRecord(at)), summary' = PlusSkipped(summary),
         UNCHANGED <<suite, nskip, rewritable, seen, torn, phase, exit, sample, runnable, failed>>
  PROVE  IInv' /\ Abstractly
<1> USE DEF IInv
<1> DEFINE U == Cases \ rewritable
<1>1. Skips' = Skips /\ Runs' = Runs /\ Complete' = Complete
  BY PlanStands
<1>2. Plans /\ suite # "sqlite_parity" /\ at \in Cases /\ at \in 0 .. N - 1 /\ U \in SUBSET Cases /\ at \in U
  BY Planned DEF Plans, Types, Cases
<1>3. Before(rewritable, at + 1) = Before(rewritable, at)
  BY <1>2, BeforeNext DEF Plans
<1>4. Before(U, at + 1) = Before(U, at) + 1 /\ Before(U, at + 1) = Place(U, at) /\ Before(U, at) \in Nat
  BY <1>2, BeforeNext
<1>5. Place(U, at) \in 1 .. Cardinality(U) /\ Cardinality(U) \in Nat
  BY <1>2, PlaceInOrder, CasesAreFinite
<1>6. Len(Skips) = nskip + Cardinality(U) /\ Skips[nskip + Place(U, at)] = at
  BY <1>2, RqlPlan
<1>7. /\ Complete \in Seq(Line) /\ Len(Complete) \in Nat /\ Len(Skips) <= Len(Complete)
      /\ nskip \in Nat /\ \A n \in 1 .. Len(Skips) : Complete[n] = SkipRecord(Skips[n])
  BY <1>2, WholeFile DEF Plans
<1>8. Len(raw) = nskip + Before(U, at) /\ summary = Tallied(Runs, seen, Len(raw), 0)
  BY DEF Rewriting
<1> HIDE DEF U
<1>9. Len(raw) + 1 = nskip + Place(U, at) /\ Len(raw) + 1 \in 1 .. Len(Skips) /\ Len(raw) \in Nat
  BY <1>4, <1>5, <1>6, <1>7, <1>8
<1>10. Len(raw) < Len(Complete) /\ Complete[Len(raw) + 1] = SkipRecord(at)
  <2>1. Len(raw) < Len(Complete)
    BY <1>7, <1>9, <1>6, <1>5
  <2> QED
    BY <1>6, <1>7, <1>9, <2>1
<1>11. raw \in Seq(Line) /\ Starts(raw, Complete)
  BY DEF Types
<1>12. raw' \in Seq(Line) /\ Len(raw') = Len(raw) + 1 /\ Starts(raw', Complete)
  BY <1>7, <1>10, <1>11, LineAppended
<1>13. /\ summary' = Tallied(Runs, seen, Len(raw'), 0)
       /\ summary' \in [total : Nat, passed : Nat, failed : Nat, skipped : Nat]
  <2> DEFINE c == Len(raw)
  <2>1. c \in Nat /\ summary = Tallied(Runs, seen, c, 0) /\ Len(raw') = c + 1
    BY <1>8, <1>9, <1>12
  <2> HIDE DEF c
  <2>2. PlusSkipped(Tallied(Runs, seen, c, 0)) = Tallied(Runs, seen, c + 1, 0)
    BY <2>1, NextTally
  <2>3. Tallied(Runs, seen, c + 1, 0) \in [total : Nat, passed : Nat, failed : Nat, skipped : Nat]
    <3>1. c + 1 \in Nat
      BY <2>1
    <3> QED
      BY <3>1, Tallying
  <2> QED
    BY <2>1, <2>2, <2>3
<1>14. at' \in 0 .. N /\ at' \in Nat
  BY <1>2
<1>15. Types'
  BY <1>12, <1>13, <1>14 DEF Types
<1>16. Rewriting'
  <2>1. Len(raw') = nskip + Before(U, at + 1)
    BY <1>4, <1>7, <1>8, <1>12
  <2>2. Len(runnable) = Before(rewritable, at + 1) /\ \A n \in 1 .. Len(runnable) : runnable[n] = Runs[n]
    BY <1>3 DEF Rewriting
  <2>3. sample = 0 /\ failed = FALSE
    BY DEF Rewriting
  <2> QED
    BY <1>1, <1>13, <1>14, <2>1, <2>2, <2>3 DEF Rewriting, U
<1>17. Skipping' /\ Recording' /\ Ended'
  BY DEF Skipping, Recording, Ended, Types
<1>18. Decided'
  BY <1>2 DEF Decided
<1>19. exit = "none"
  BY DEF Types
<1>20. File!AppendNext
  BY <1>1, <1>10, <1>19 DEF File!AppendNext
<1> QED
  BY <1>1, <1>10, <1>12, <1>15, <1>16, <1>17, <1>18, <1>20 DEF Abstractly, File!Next

\* The rewriter is done: what is runnable is what the suite is meant to run.
LEMMA RunningBegins ==
  ASSUME IInv, suite # "sqlite_parity", phase = "rewrite", at = N, phase' = "run", at' = 1,
         UNCHANGED <<suite, nskip, rewritable, seen, raw, torn, exit, sample, runnable, failed, summary>>
  PROVE  IInv' /\ Abstractly
<1> USE DEF IInv
<1> DEFINE U == Cases \ rewritable
<1>1. Skips' = Skips /\ Runs' = Runs /\ Complete' = Complete
  BY PlanStands
<1>2. Plans /\ nskip \in Nat /\ rewritable \in SUBSET Cases /\ U \in SUBSET Cases
  BY Planned DEF Plans
<1>3. Before(rewritable, N) = Cardinality(rewritable) /\ Before(U, N) = Cardinality(U)
  BY <1>2, BeforeEnds
<1>4. Len(Skips) = nskip + Cardinality(U) /\ Runs = InOrder(rewritable) /\ Len(Runs) = Cardinality(rewritable)
  BY <1>2, RqlPlan
<1>5. Row(Skips, 0, 0) = Len(Skips) + 1 /\ Runs \in Seq(Cases) /\ Len(Runs) \in Nat
  BY <1>2, WholeFile
<1>6. /\ sample = 0 /\ failed = FALSE /\ Len(raw) = nskip + Before(U, N)
      /\ summary = Tallied(Runs, seen, Len(raw), 0)
      /\ Len(runnable) = Before(rewritable, N) /\ \A n \in 1 .. Len(runnable) : runnable[n] = Runs[n]
  BY DEF Rewriting
<1>7. Len(raw) = Len(Skips)
  BY <1>2, <1>3, <1>4, <1>6
<1>8. runnable = Runs
  <2>1. runnable \in Seq(Cases) /\ Len(runnable) = Len(Runs)
    BY <1>2, <1>3, <1>4, <1>6 DEF Types
  <2> QED
    BY <1>5, <1>6, <2>1, SeqEqual
<1>9. Types'
  BY DEF Types
<1>10. Recording'
  <2>1. Done' = 0 /\ sample' = 0 /\ failed' = FALSE
    BY <1>6 DEF Done
  <2>2. SoFar'
    BY <2>1 DEF SoFar
  <2> QED
    BY <1>1, <1>5, <1>6, <1>7, <1>8, <2>1, <2>2 DEF Recording
<1>11. Skipping' /\ Rewriting' /\ Ended'
  BY DEF Skipping, Rewriting, Ended, Types
<1>12. Decided' /\ Starts(raw, Complete)'
  BY <1>1 DEF Decided, Starts
<1>13. Abstractly
  BY <1>1 DEF Abstractly
<1> QED
  BY <1>9, <1>10, <1>11, <1>12, <1>13

LEMMA Initially == Init => IInv /\ File!Init
<1> SUFFICES ASSUME Init PROVE IInv /\ File!Init
  OBVIOUS
<1>1. /\ suite \in {"sqlite_parity", "rql_phase1"} /\ nskip \in 0 .. MaxSkip /\ rewritable \in SUBSET Cases
      /\ seen \in Seen /\ raw = << >> /\ torn = FALSE /\ phase = "skips" /\ at = N /\ sample = 0
      /\ runnable = << >> /\ failed = FALSE /\ exit = "none"
      /\ summary = [total |-> 0, passed |-> 0, failed |-> 0, skipped |-> 0]
  BY SameWords DEF Init, Parity!Init, Rql!Init, Seen
<1>2. Plans /\ nskip \in Nat
  BY <1>1 DEF Plans
<1>3. summary = Tallied(Runs, seen, 0, 0) /\ summary \in [total : Nat, passed : Nat, failed : Nat, skipped : Nat]
  BY <1>1, Tallying
<1>4. Types
  <2>1. << >> \in Seq(Line) /\ << >> \in Seq(Cases) /\ 0 \in 0 .. T /\ N \in Nat
    BY SampleCount
  <2>2. torn \in BOOLEAN /\ failed \in BOOLEAN
    BY <1>1
  <2>3. raw \in Seq(Line) /\ runnable \in Seq(Cases) /\ sample \in 0 .. T /\ at \in Nat
    BY <1>1, <2>1
  <2>4. phase \in {"skips", "over"} /\ (phase = "over" <=> exit # "none")
    BY <1>1
  <2>5. exit \in {"none", "ok", "failed", "error", "crashed"}
    BY <1>1
  <2> QED
    BY <1>1, <1>3, <2>2, <2>3, <2>4, <2>5 DEF Types
<1>5. Starts(raw, Complete)
  <2>1. Len(Complete) \in Nat
    BY <1>2, WholeFile
  <2> QED
    BY <1>1, <2>1 DEF Starts
<1>6. Skipping
  <2>1. at - N = 0 /\ at \in N .. N + nskip /\ Len(raw) = 0
    BY <1>1, <1>2
  <2> QED
    BY <1>1, <1>3, <2>1 DEF Skipping
<1>7. Rewriting /\ Recording /\ Ended /\ Decided
  BY <1>1, <1>2 DEF Rewriting, Recording, Ended, Decided
<1> QED
  BY <1>1, <1>4, <1>5, <1>6, <1>7 DEF IInv, File!Init

\* A summary in which a case more is counted is still one.
LEMMA SummaryType ==
  \A sum \in [total : Nat, passed : Nat, failed : Nat, skipped : Nat] :
    PlusSkipped(sum) \in [total : Nat, passed : Nat, failed : Nat, skipped : Nat]
<1> TAKE sum \in [total : Nat, passed : Nat, failed : Nat, skipped : Nat]
<1> DEFINE t == sum.total
           p == sum.passed
           f == sum.failed
           k == sum.skipped
<1>1. t \in Nat /\ p \in Nat /\ f \in Nat /\ k \in Nat
  OBVIOUS
<1>2. sum = [total |-> t, passed |-> p, failed |-> f, skipped |-> k]
  OBVIOUS
<1> HIDE DEF t, p, f, k
<1>3. PlusSkipped(sum) \in [total : {t + 1}, passed : {p}, failed : {f}, skipped : {k + 1}]
  BY <1>2 DEF PlusSkipped
<1>4. t + 1 \in Nat /\ k + 1 \in Nat
  BY <1>1
<1> QED
  BY <1>1, <1>3, <1>4

\* A step of compare_cases.
LEMMA ParityStep ==
  ASSUME IInv, suite = "sqlite_parity", Parity!Next, UNCHANGED <<suite, rewritable, runnable, failed>>
  PROVE  IInv' /\ Abstractly
<1>0. Types /\ Plans /\ nskip \in Nat /\ N \in Nat
  BY Planned DEF IInv, Plans
<1>1. phase # "over" => exit = "none"
  BY <1>0 DEF Types
<1>2. CASE Parity!AppendSkip
  <2>1. /\ phase = "skips" /\ at \in N .. N + nskip - 1 /\ at' = at + 1 /\ summary' = PlusSkipped(summary)
        /\ UNCHANGED <<nskip, seen, sample>>
    BY <1>2, SameWords DEF Parity!AppendSkip, PlusSkipped, SkippedCases
  <2>2. CASE Parity!Append_jsonl(SkipRecord(at))
    <3>1. raw' = Append(raw, SkipRecord(at)) /\ UNCHANGED <<torn, phase, exit>>
      BY <2>2 DEF Parity!Append_jsonl
    <3> QED
      BY <2>1, <3>1, SkipRecorded
  <2>3. CASE Parity!AppendFails
    <3>1. torn' \in BOOLEAN /\ phase' = "over" /\ exit' = "error" /\ UNCHANGED raw
      BY <2>3 DEF Parity!AppendFails, Parity!End
    <3>2. at' \in Nat /\ summary' \in [total : Nat, passed : Nat, failed : Nat, skipped : Nat]
      BY <1>0, <2>1, SummaryType DEF Types
    <3>3. Types'
      BY <1>0, <2>1, <3>1, <3>2 DEF Types
    <3> QED
      BY <1>1, <2>1, <3>1, <3>3, Stopped
  <2> QED
    BY <1>2, <2>2, <2>3, SameWords DEF Parity!AppendSkip
<1>3. CASE Parity!RunCaseSet
  <2>1. /\ phase = "skips" /\ at = N + nskip
        /\ UNCHANGED <<nskip, seen, raw, torn, sample, summary>>
    BY <1>3 DEF Parity!RunCaseSet
  <2>2. PICK a : /\ Parity!Decides([i \in Parity!Cases |-> Parity!Sample(i)], a)
                 /\ IF a.kind = "ok"
                      THEN phase' = "append" /\ at' = 0 /\ UNCHANGED exit
                      ELSE Parity!End("error") /\ UNCHANGED at
    BY <1>3 DEF Parity!RunCaseSet
  <2>3. CASE a.kind = "ok"
    <3>1. \A i \in Cases : Parity!Sample(i) \in Run
      BY <2>2, <2>3, SameWords
      DEF Parity!Decides, Parity!AllRun, Parity!ErrAt, Parity!Panicked, Parity!Unwound, Parity!Run, Run
    <3>2. \A i \in Cases : Completes(seen, i)
      BY <1>0, <3>1, CaseVerdict, SameWords DEF Parity!Sample, Types
    <3> QED
      BY <2>1, <2>2, <2>3, <3>2, RecordingBegins
  <2>4. CASE a.kind # "ok"
    <3>1. phase' = "over" /\ exit' = "error" /\ UNCHANGED at
      BY <2>2, <2>4 DEF Parity!End
    <3>2. Types'
      BY <1>0, <2>1, <3>1 DEF Types
    <3> QED
      BY <1>1, <2>1, <3>1, <3>2, Stopped
  <2> QED
    BY <2>3, <2>4
<1>4. ASSUME phase = "append", at \in Cases
      PROVE  Done = at /\ Done < Len(Runs) /\ Runs[Done + 1] = at
  <2>1. Done = at /\ Len(Runs) = N /\ \A n \in 1 .. N : Runs[n] = n - 1
    BY <1>0, ParityPlan DEF Done
  <2>2. at \in 0 .. N - 1 /\ at + 1 \in 1 .. N /\ (at + 1) - 1 = at
    BY <1>0, <1>4 DEF Cases
  <2> QED
    BY <1>0, <2>1, <2>2
<1>5. CASE Parity!AppendSample
  <2>1. /\ phase = "append" /\ at \in Cases /\ sample \in Samples /\ sample' = sample + 1
        /\ UNCHANGED <<nskip, seen, at, summary>>
    BY <1>5, SameWords DEF Parity!AppendSample
  <2>2. CASE Parity!Append_jsonl(SampleRecord(at, sample, seen[at][sample]))
    <3>1. /\ raw' = Append(raw, SampleRecord(at, sample, seen[at][sample]))
          /\ UNCHANGED <<torn, phase, exit>>
      BY <2>2 DEF Parity!Append_jsonl
    <3> QED
      BY <1>4, <2>1, <3>1, SampleRecorded
  <2>3. CASE Parity!AppendFails
    <3>1. torn' \in BOOLEAN /\ phase' = "over" /\ exit' = "error" /\ UNCHANGED raw
      BY <2>3 DEF Parity!AppendFails, Parity!End
    <3>2. sample' \in 0 .. T
      BY <2>1, SampleCount
    <3>3. Types'
      BY <1>0, <2>1, <3>1, <3>2 DEF Types
    <3> QED
      BY <1>1, <2>1, <3>1, <3>3, Stopped
  <2> QED
    BY <1>5, <2>2, <2>3, SameWords DEF Parity!AppendSample
<1>6. CASE Parity!FinishCase
  <2>1. /\ phase = "append" /\ at \in Cases /\ sample = T /\ at' = at + 1 /\ sample' = 0
        /\ summary' = Parity!Tally(at) /\ UNCHANGED <<nskip, seen, raw, torn, phase, exit>>
    BY <1>6, SameWords DEF Parity!FinishCase
  <2>2. Parity!Sample(at) = "failed" <=> Mismatched(seen, at)
    <3>1. Completes(seen, at)
      BY <2>1 DEF IInv, Recording
    <3> QED
      BY <1>0, <2>1, <3>1, CaseVerdict, SameWords DEF Parity!Sample, Types
  <2>3. /\ Mismatched(seen, at) => summary' = PlusFailed(summary)
        /\ ~ Mismatched(seen, at) => summary' = PlusPassed(summary)
    BY <2>1, <2>2 DEF Parity!Tally, PlusFailed, PlusPassed
  <2> QED
    BY <1>4, <2>1, <2>3, CaseCounted
<1>7. CASE Parity!FinishSummary
  <2>1. /\ phase = "append" /\ at = N /\ phase' = "over"
        /\ exit' = IF summary.failed > 0 THEN "failed" ELSE "ok"
        /\ UNCHANGED <<nskip, seen, raw, torn, at, sample, summary>>
    BY <1>7 DEF Parity!FinishSummary, Parity!End
  <2>2. Done = Len(Runs)
    BY <1>0, <2>1, ParityPlan DEF Done
  <2> QED
    BY <2>1, <2>2, Verdicts
<1>8. CASE Parity!Crash
  <2>1. /\ phase # "over" /\ torn' \in BOOLEAN /\ phase' = "over" /\ exit' = "crashed"
        /\ UNCHANGED <<nskip, seen, raw, at, sample, summary>>
    BY <1>8 DEF Parity!Crash, Parity!End
  <2>2. Types'
    BY <1>0, <2>1 DEF Types
  <2> QED
    BY <1>1, <2>1, <2>2, Stopped
<1> QED
  BY <1>2, <1>3, <1>5, <1>6, <1>7, <1>8 DEF Parity!Next

\* A step of rql_phase1.
LEMMA RqlStep ==
  ASSUME IInv, suite = "rql_phase1", Rql!Next, UNCHANGED suite
  PROVE  IInv' /\ Abstractly
<1>0. Types /\ Plans /\ nskip \in Nat /\ N \in Nat /\ suite # "sqlite_parity" /\ at \in Nat
  BY Planned DEF IInv, Plans, Types
<1>1. phase # "over" => exit = "none"
  BY <1>0 DEF Types
<1>2. ASSUME NEW i \in Nat, Rql!Append_skip(i)
      PROVE  /\ summary' = PlusSkipped(summary)
             /\ \/ raw' = Append(raw, SkipRecord(i)) /\ UNCHANGED <<torn, phase, exit>>
                \/ torn' \in BOOLEAN /\ phase' = "over" /\ exit' = "error" /\ UNCHANGED raw
  BY <1>2, SameWords DEF Rql!Append_skip, Rql!Append_jsonl, Rql!AppendFails, Rql!End, PlusSkipped
<1>3. ASSUME phase # "over", torn' \in BOOLEAN, phase' = "over", exit' = "error", UNCHANGED raw,
             summary' = PlusSkipped(summary), at' = at + 1,
             UNCHANGED <<nskip, rewritable, seen, sample, runnable, failed>>
      PROVE  IInv' /\ Abstractly
  <2>1. at' \in Nat /\ summary' \in [total : Nat, passed : Nat, failed : Nat, skipped : Nat]
    BY <1>0, <1>3, SummaryType DEF Types
  <2>2. Types'
    BY <1>0, <1>3, <2>1 DEF Types
  <2> QED
    BY <1>1, <1>3, <2>2, Stopped
<1>4. CASE Rql!SkipCase
  <2>1. /\ phase = "skips" /\ at \in N .. N + nskip - 1 /\ at' = at + 1 /\ Rql!Append_skip(at)
        /\ UNCHANGED <<nskip, rewritable, seen, sample, runnable, failed>>
    BY <1>4, SameWords DEF Rql!SkipCase, SkippedCases
  <2> QED
    BY <1>0, <1>2, <1>3, <2>1, SkipRecorded
<1>5. CASE Rql!SkipsEnd
  BY <1>0, <1>5, RewritingBegins DEF Rql!SkipsEnd
<1>6. CASE Rql!Rewrite
  <2>1. /\ phase = "rewrite" /\ at \in Cases /\ at' = at + 1
        /\ UNCHANGED <<nskip, rewritable, seen, sample, failed>>
    BY <1>6, SameWords DEF Rql!Rewrite
  <2>2. CASE at \in rewritable
    <3>1. runnable' = Append(runnable, at) /\ UNCHANGED <<raw, torn, phase, summary, exit>>
      BY <1>6, <2>2 DEF Rql!Rewrite
    <3> QED
      BY <2>1, <2>2, <3>1, CaseRewritten
  <2>3. CASE at \notin rewritable
    <3>1. Rql!Append_skip(at) /\ UNCHANGED runnable
      BY <1>6, <2>3 DEF Rql!Rewrite
    <3> QED
      BY <1>0, <1>2, <1>3, <2>1, <2>3, <3>1, CaseUnsupported
  <2> QED
    BY <2>2, <2>3
<1>7. CASE Rql!RewriteEnd
  BY <1>0, <1>7, RunningBegins DEF Rql!RewriteEnd
<1>8. ASSUME Rql!Running
      PROVE  phase = "run" /\ Done < Len(Runs) /\ Runs[Done + 1] = runnable[at] /\ Done = at - 1
  <2>1. phase = "run" /\ at \in DOMAIN runnable
    BY <1>8 DEF Rql!Running
  <2>2. runnable = Runs /\ Done \in 0 .. Len(Runs) /\ Done = at - 1
    BY <1>0, <2>1 DEF IInv, Recording, Done
  <2>3. Len(Runs) \in Nat /\ Runs \in Seq(Cases)
    BY <1>0, WholeFile
  <2>4. at \in 1 .. Len(Runs)
    BY <2>1, <2>2, <2>3
  <2>5. Done < Len(Runs) /\ Done + 1 = at
    BY <2>2, <2>3, <2>4
  <2> QED
    BY <2>1, <2>2, <2>5
<1>9. CASE Rql!RunSample
  <2> DEFINE i == runnable[at]
             result == seen[i][sample]
  <2>1. /\ Rql!Running /\ sample \in Samples
        /\ UNCHANGED <<nskip, rewritable, seen, at, runnable, summary>>
        /\ \/ /\ result \in {"err", "panic"}
              /\ Rql!End(IF result = "err" THEN "error" ELSE "crashed")
              /\ UNCHANGED <<raw, torn, sample, failed>>
           \/ /\ result \in {"match", "mismatch"}
              /\ sample' = sample + 1
              /\ failed' = (failed \/ result = "mismatch")
              /\ Rql!Append_jsonl(SampleRecord(i, sample, result)) \/ Rql!AppendFails
    BY <1>9, SameWords DEF Rql!RunSample
  <2>2. phase = "run" /\ Done < Len(Runs) /\ Runs[Done + 1] = i
    BY <1>8, <2>1
  <2>3. CASE result \in {"err", "panic"}
    <3>1. phase' = "over" /\ exit' \in {"error", "crashed"} /\ UNCHANGED <<raw, torn, sample, failed>>
      BY <2>1, <2>3 DEF Rql!End
    <3>2. Types'
      BY <1>0, <2>1, <3>1 DEF Types
    <3> QED
      BY <1>1, <2>1, <2>2, <3>1, <3>2, Stopped
  <2>4. CASE result \in {"match", "mismatch"}
    <3>1. sample' = sample + 1 /\ failed' = (failed \/ result = "mismatch")
      BY <2>1, <2>4
    <3>2. CASE Rql!Append_jsonl(SampleRecord(i, sample, result))
      <4>1. raw' = Append(raw, SampleRecord(i, sample, result)) /\ UNCHANGED <<torn, phase, exit>>
        BY <3>2 DEF Rql!Append_jsonl
      <4> QED
        BY <2>1, <2>2, <2>4, <3>1, <4>1, SampleRecorded
    <3>3. CASE Rql!AppendFails
      <4>1. torn' \in BOOLEAN /\ phase' = "over" /\ exit' = "error" /\ UNCHANGED raw
        BY <3>3 DEF Rql!AppendFails, Rql!End
      <4>2. sample' \in 0 .. T
        BY <2>1, <3>1, SampleCount
      <4>3. failed' \in BOOLEAN
        BY <3>1
      <4>4. Types'
        BY <1>0, <2>1, <4>1, <4>2, <4>3 DEF Types
      <4> QED
        BY <1>1, <2>1, <2>2, <4>1, <4>4, Stopped
    <3> QED
      BY <2>1, <2>4, <3>2, <3>3
  <2> QED
    BY <2>1, <2>3, <2>4
<1>10. CASE Rql!FinishCase
  <2>1. /\ Rql!Running /\ sample = T /\ at' = at + 1 /\ sample' = 0 /\ failed' = FALSE
        /\ failed => summary' = PlusFailed(summary)
        /\ ~ failed => summary' = PlusPassed(summary)
        /\ UNCHANGED <<nskip, rewritable, seen, raw, torn, phase, runnable, exit>>
    BY <1>10, SameWords DEF Rql!FinishCase, PlusFailed, PlusPassed
  <2>2. phase = "run" /\ Done < Len(Runs)
    BY <1>8, <2>1
  <2>3. failed <=> Mismatched(seen, Runs[Done + 1])
    <3>1. SoFar
      BY <1>0, <2>2 DEF IInv, Recording
    <3> QED
      BY <2>1, <3>1, SampleCount DEF SoFar, Mismatched
  <2>4. /\ Mismatched(seen, Runs[Done + 1]) => summary' = PlusFailed(summary)
        /\ ~ Mismatched(seen, Runs[Done + 1]) => summary' = PlusPassed(summary)
    BY <2>1, <2>3
  <2>5. failed' = FALSE /\ sample = T /\ at' = at + 1 /\ sample' = 0
        /\ UNCHANGED <<suite, nskip, rewritable, seen, raw, torn, phase, exit, runnable>>
    BY <2>1
  <2>6. failed' = FALSE \/ (suite = "sqlite_parity" /\ UNCHANGED failed)
    BY <2>5
  <2>7. phase \in {"append", "run"}
    BY <2>2
  <2> QED
    BY <1>0, <2>2, <2>4, <2>5, <2>6, <2>7, CaseCounted
<1>11. CASE Rql!FinishSummary
  <2>1. /\ phase = "run" /\ at = Len(runnable) + 1 /\ phase' = "over"
        /\ exit' = IF summary.failed > 0 THEN "failed" ELSE "ok"
        /\ UNCHANGED <<nskip, rewritable, seen, raw, torn, at, sample, runnable, failed, summary>>
    BY <1>11 DEF Rql!FinishSummary, Rql!End
  <2>2. Done = Len(Runs)
    <3>1. runnable = Runs /\ Len(Runs) \in Nat
      BY <1>0, <2>1, WholeFile DEF IInv, Recording
    <3> QED
      BY <1>0, <2>1, <3>1 DEF Done
  <2> QED
    BY <2>1, <2>2, Verdicts
<1>12. CASE Rql!Crash
  <2>1. /\ phase # "over" /\ torn' \in BOOLEAN /\ phase' = "over" /\ exit' = "crashed"
        /\ UNCHANGED <<nskip, rewritable, seen, raw, at, sample, runnable, failed, summary>>
    BY <1>12 DEF Rql!Crash, Rql!End
  <2>2. Types'
    BY <1>0, <2>1 DEF Types
  <2> QED
    BY <1>1, <2>1, <2>2, Stopped
<1> QED
  BY <1>4, <1>5, <1>6, <1>7, <1>9, <1>10, <1>11, <1>12 DEF Rql!Next

LEMMA Stuttering ==
  ASSUME IInv, UNCHANGED vars
  PROVE  IInv' /\ Abstractly
<1>1. Skips' = Skips /\ Runs' = Runs /\ Complete' = Complete /\ Done' = Done
  BY PlanStands DEF vars, Done
<1>2. Types' /\ Starts(raw, Complete)'
  BY <1>1 DEF IInv, vars, Types, Starts
<1>3. Skipping' /\ Rewriting'
  BY <1>1 DEF IInv, vars, Skipping, Rewriting
<1>4. Recording' /\ Decided' /\ Ended'
  <2>1. SoFar' <=> SoFar
    BY <1>1 DEF vars, SoFar
  <2> QED
    BY <1>1, <2>1 DEF IInv, vars, Recording, Decided, Ended
<1> QED
  BY <1>1, <1>2, <1>3, <1>4 DEF IInv, Abstractly, vars

LEMMA EveryStep == IInv /\ [Next]_vars => IInv' /\ Abstractly
BY ParityStep, RqlStep, Stuttering DEF Next

\* At every point of a run of either suite the file is the beginning of what is meant,
\* and the summary counts the cases it holds so far.
THEOREM Invariance == Spec => []IInv
<1>1. Init => IInv
  BY Initially
<1>2. IInv /\ [Next]_vars => IInv'
  BY EveryStep
<1> QED
  BY <1>1, <1>2, PTL DEF Spec

-----------------------------------------------------------------------------
(* What follows *)

\* Both suites only ever hold states of their types.
THEOREM TypeCorrect == Spec => []TypeOK
<1>1. IInv => TypeOK
  <2> SUFFICES ASSUME IInv PROVE TypeOK
    OBVIOUS
  <2>1. Types /\ Plans /\ N \in Nat /\ nskip \in Nat
    BY Planned DEF IInv, Plans
  <2>2. phase = "skips" => at \in N .. N + nskip
    BY DEF IInv, Skipping
  <2>3. Len(Runs) \in Nat /\ Runs \in Seq(Cases)
    BY <2>1, WholeFile
  <2>4. CASE suite = "sqlite_parity"
    <3>1. phase = "append" => at \in 0 .. N
      BY <2>1, <2>4, ParityPlan DEF IInv, Recording, Done
    <3> QED
      BY <2>1, <2>2, <2>4, <3>1, SameWords DEF TypeOK, Parity!TypeOK, Types, Line, Seen
  <2>5. CASE suite # "sqlite_parity"
    <3>1. phase = "rewrite" => at \in 0 .. N
      BY DEF IInv, Rewriting
    <3>2. phase = "run" => at \in 1 .. Len(runnable) + 1
      <4> SUFFICES ASSUME phase = "run" PROVE at \in 1 .. Len(runnable) + 1
        OBVIOUS
      <4>1. runnable = Runs /\ at - 1 \in 0 .. Len(Runs) /\ at \in Nat
        BY <2>1, <2>5 DEF IInv, Recording, Done, Types
      <4> QED
        BY <2>3, <4>1
    <3> QED
      BY <2>1, <2>2, <2>5, <3>1, <3>2, SameWords DEF TypeOK, Rql!TypeOK, Types, Line, Seen
  <2> QED
    BY <2>4, <2>5
<1> QED
  BY <1>1, Invariance, PTL

\* compare_cases records no sample, of any case, unless every case has a verdict.
THEOREM RecordsAllOrNothing == Spec => []AllOrNothing
<1>1. IInv => AllOrNothing
  <2> SUFFICES ASSUME IInv, suite = "sqlite_parity", NEW i \in Cases, Parity!Sample(i) \notin Run,
                      NEW r \in Records(raw)
               PROVE  r.case \in SkippedCases(nskip)
    BY SameWords DEF AllOrNothing, Parity!AllOrNothing, Parity!Records, Records, Parity!Run, Run
  <2>1. Types /\ Plans /\ N \in Nat /\ nskip \in Nat
    BY Planned DEF IInv, Plans
  <2>2. ~ Completes(seen, i)
    BY <2>1, CaseVerdict, SameWords DEF Parity!Sample, Types
  <2>3. raw \in Seq(Line) /\ Len(raw) \in Nat /\ Len(raw) <= nskip
    BY <2>1, <2>2 DEF IInv, Decided, Types
  <2>4. PICK n \in 1 .. Len(raw) : r = raw[n]
    BY <2>3 DEF Records
  <2>5. n \in 1 .. nskip /\ N + n - 1 \in N .. N + nskip - 1
    BY <2>1, <2>3
  <2>6. r = SkipRecord(N + n - 1)
    BY <2>1, <2>4, <2>5, WholeFile DEF IInv, Starts
  <2> QED
    BY <2>5, <2>6 DEF SkipRecord, SkippedCases
<1> QED
  BY <1>1, Invariance, PTL

\* A run that ended with a verdict: its file is whole and its summary that of all cases.
LEMMA AfterTheEnd ==
  ASSUME IInv, exit \in {"ok", "failed"}
  PROVE  /\ Plans /\ Apart(Skips, Runs) /\ Len(Runs) \in Nat /\ Len(Skips) \in Nat
         /\ raw = Layout(Skips, Runs, seen)
         /\ summary.failed = Failures(Runs, seen, Len(Runs))
         /\ summary = Tallied(Runs, seen, Len(Skips), Len(Runs))
         /\ \A i \in Named(Runs), k \in Samples : seen[i][k] \in {"match", "mismatch"}
         /\ exit = "ok" => summary.failed = 0
<1>1. Plans
  BY Planned DEF IInv
<1>2. /\ raw = Complete /\ summary = Tallied(Runs, seen, Len(Skips), Len(Runs))
      /\ \A n \in 1 .. Len(Runs) : Completes(seen, Runs[n])
      /\ exit = "failed" <=> summary.failed > 0
  BY DEF IInv, Ended
<1>3. Apart(Skips, Runs) /\ Len(Runs) \in Nat /\ Len(Skips) \in Nat
  BY <1>1, WholeFile
<1>4. summary.failed = Failures(Runs, seen, Len(Runs)) /\ Failures(Runs, seen, Len(Runs)) \in 0 .. Len(Runs)
  BY <1>2, <1>3, FailuresSoFar DEF Tallied
<1>5. exit = "ok" => summary.failed = 0
  BY <1>2, <1>3, <1>4
<1>6. \A i \in Named(Runs), k \in Samples : seen[i][k] \in {"match", "mismatch"}
  BY <1>2 DEF Completes, Named
<1> QED
  BY <1>1, <1>2, <1>3, <1>4, <1>5, <1>6, CompleteIs

\* After "ok" every sample of every case that ran agreed.
LEMMA AfterOk ==
  ASSUME IInv, exit = "ok"
  PROVE  /\ \A i \in Named(Runs), k \in Samples : seen[i][k] = "match"
         /\ summary = [total |-> Len(Skips) + Len(Runs), passed |-> Len(Runs), failed |-> 0, skipped |-> Len(Skips)]
<1>1. /\ Len(Runs) \in Nat /\ Len(Skips) \in Nat
      /\ Failures(Runs, seen, Len(Runs)) = 0
      /\ summary = Tallied(Runs, seen, Len(Skips), Len(Runs))
      /\ \A i \in Named(Runs), k \in Samples : seen[i][k] \in {"match", "mismatch"}
  BY AfterTheEnd
<1>2. \A n \in 1 .. Len(Runs) : ~ Mismatched(seen, Runs[n])
  BY <1>1, FailuresSoFar
<1>3. \A i \in Named(Runs), k \in Samples : seen[i][k] = "match"
  BY <1>1, <1>2 DEF Named, Mismatched
<1>4. Len(Runs) - 0 = Len(Runs)
  BY <1>1
<1> QED
  BY <1>1, <1>3, <1>4 DEF Tallied

\* The summary of a successful run is what the report counts in its raw file.
THEOREM SummaryIsReported == Spec => []SummaryMatchesReport
<1>1. IInv => SummaryMatchesReport
  <2> SUFFICES ASSUME IInv, exit = "ok" PROVE summary = ReportCounts(raw)
    BY DEF SummaryMatchesReport
  <2> QED
    BY AfterTheEnd, AfterOk, ReportOfGoodRun
<1> QED
  BY <1>1, Invariance, PTL

\* The report accepts the file of a successful run exactly when some case ran
\* and warmups and skips do not meet.
THEOREM ReportAcceptsWhen == Spec => []ReportContract
<1>1. IInv => ReportContract
  <2> SUFFICES ASSUME IInv, exit = "ok"
               PROVE  ReportAccepts(raw) <=> summary.passed > 0 /\ (Warmup = 0 \/ summary.skipped = 0)
    BY DEF ReportContract
  <2>1. summary.passed = Len(Runs) /\ summary.skipped = Len(Skips)
    BY AfterOk
  <2>2. ReportAccepts(raw) <=> Len(Runs) > 0 /\ (Warmup = 0 \/ Len(Skips) = 0)
    BY AfterTheEnd, AfterOk, ReportOfGoodRun
  <2> QED
    BY <2>1, <2>2
<1> QED
  BY <1>1, Invariance, PTL

\* The verdict counts the cases a record of which failed.
THEOREM VerdictCountsCases == Spec => []VerdictPerCase
<1>1. IInv => VerdictPerCase
  <2> SUFFICES ASSUME IInv, exit = "failed"
               PROVE  summary.failed = Cardinality(StatusCases(raw, "failed"))
    BY DEF VerdictPerCase, CasesWith, StatusCases
  <2> DEFINE F == {n \in 1 .. Len(Runs) : Mismatched(seen, Runs[n])}
             C == StatusCases(raw, "failed")
             case == [n \in F |-> Runs[n]]
  <2>1. /\ Apart(Skips, Runs) /\ Len(Runs) \in Nat /\ raw = Layout(Skips, Runs, seen)
        /\ summary.failed = Failures(Runs, seen, Len(Runs))
        /\ \A i \in Named(Runs), k \in Samples : seen[i][k] \in {"match", "mismatch"}
    BY AfterTheEnd
  <2>2. C = {i \in Named(Runs) : \E k \in Samples : seen[i][k] # "match"}
    BY <2>1, CasesOfLayout
  <2>3. \A i : i \in C <=> i \in Named(Runs) /\ Mismatched(seen, i)
    BY <2>1, <2>2 DEF Mismatched
  <2> HIDE DEF C
  <2>4. case \in [F -> C]
    BY <2>3 DEF Named
  <2>5. case \in Bijection(F, C)
    <3>1. case \in Injection(F, C)
      BY <2>1, <2>4 DEF Apart, Injection, IsInjective
    <3>2. case \in Surjection(F, C)
      BY <2>3, <2>4 DEF Surjection, Named
    <3> QED
      BY <3>1, <3>2 DEF Bijection
  <2>6. IsFiniteSet(F)
    <3>1. IsFiniteSet(1 .. Len(Runs)) /\ F \in SUBSET (1 .. Len(Runs))
      BY <2>1, UpTo
    <3> QED
      BY <3>1, FS_Subset
  <2>7. ExistsBijection(F, C)
    BY <2>5 DEF ExistsBijection
  <2>8. Cardinality(C) = Cardinality(F)
    BY <2>6, <2>7, FS_Bijection
  <2> QED
    BY <2>1, <2>8 DEF Failures, C
<1> QED
  BY <1>1, Invariance, PTL

\* Both suites implement RawFile: whatever they do, and wherever an append fails
\* or the process dies, the file is the start of the one sequence, and a verdict
\* comes with all of it and says whether a record of it failed.
THEOREM Refinement == Spec => ImplementsRawFile
<1>1. Init => File!Init
  BY Initially
<1>2. IInv /\ [Next]_vars => [File!Next]_(File!filevars)
  BY EveryStep DEF Abstractly, File!filevars
<1> QED
  BY <1>1, <1>2, Invariance, PTL DEF Spec, ImplementsRawFile, File!Spec

-----------------------------------------------------------------------------
(* The shell commands before the SQL *)

\* What the loop keeps: SQL was seen exactly if a line of it was read.
DotInv ==
  /\ lines \in Seq(Input)
  /\ stripped.ok \in BOOLEAN
  /\ stripped.saw_sql \in BOOLEAN
  /\ DOMAIN stripped.shell = Settings \cup {"mode"}
  /\ stripped.saw_sql <=> \E i \in DOMAIN lines : lines[i].command = "sql"
  /\ BailsForALine
  /\ SettingsStand

\* An input grows by its last line.
LEMMA OneLineMore ==
  ASSUME NEW line \in Input, lines \in Seq(Input), lines' = Append(lines, line)
  PROVE  /\ lines' \in Seq(Input)
         /\ Len(lines) \in Nat
         /\ DOMAIN lines = 1 .. Len(lines)
         /\ DOMAIN lines' = 1 .. Len(lines) + 1
         /\ \A i \in 1 .. Len(lines) : lines'[i] = lines[i]
         /\ lines'[Len(lines) + 1] = line
OBVIOUS

\* A command sets what it says, .mode everything, and no other line anything.
LEMMA CommandSays ==
  ASSUME NEW line, NEW shell, NEW setting \in DOMAIN shell,
         DOMAIN shell = Settings \cup {"mode"}
  PROVE  /\ DOMAIN ApplyDotCommand(shell, line) = DOMAIN shell
         /\ line.command \in {setting, "mode"} =>
              ApplyDotCommand(shell, line)[setting] = Says(line, setting)
         /\ line.command \notin {setting, "mode"} =>
              ApplyDotCommand(shell, line)[setting] = shell[setting]
<1>1. CASE line.command = "mode"
  <2>1. ApplyDotCommand(shell, line) = Reset(Argument(line, DefaultOf.mode))
    BY <1>1, Zenon DEF ApplyDotCommand, SetMode, Settings
  <2>2. DOMAIN Reset(Argument(line, DefaultOf.mode)) = Settings \cup {"mode"}
    BY DEF Reset, Settings
  <2>3. CASE setting = "mode"
    <3>1. Reset(Argument(line, DefaultOf.mode)).mode = Argument(line, DefaultOf.mode)
      BY DEF Reset
    <3> QED
      BY <1>1, <2>1, <2>2, <2>3, <3>1 DEF Says
  <2>4. CASE setting \in Settings
    <3>1. Reset(Argument(line, DefaultOf.mode))[setting] = Off
      BY <2>4 DEF Reset, Settings
    <3>2. setting # "mode"
      BY <2>4 DEF Settings
    <3> QED
      BY <1>1, <2>1, <2>2, <3>1, <3>2 DEF Says
  <2> QED
    BY <2>3, <2>4
<1>2. CASE line.command \in Settings
  <2>1. line.command # "mode"
    BY <1>2 DEF Settings
  <2>2. ApplyDotCommand(shell, line) =
          [shell EXCEPT ![line.command] = Argument(line, DefaultOf[line.command])]
    BY <1>2, <2>1 DEF ApplyDotCommand
  <2> QED
    BY <2>1, <2>2 DEF Says
<1>3. CASE line.command \notin Settings \cup {"mode"}
  <2>1. ApplyDotCommand(shell, line) = shell
    BY <1>3 DEF ApplyDotCommand
  <2> QED
    BY <1>3, <2>1
<1> QED
  BY <1>1, <1>2, <1>3

\* The three parts of the invariant after one more line.
LEMMA ReadsOn == DotInv /\ ReadLine => DotInv'
<1> SUFFICES ASSUME DotInv, ReadLine PROVE DotInv'
  OBVIOUS
<1>1. PICK line \in Input :
        /\ lines' = Append(lines, line)
        /\ stripped' =
             [ok |-> stripped.ok /\ ~Bails(line),
              saw_sql |-> stripped.saw_sql \/ line.command = "sql",
              shell |-> IF stripped.ok /\ IsCommand(line) /\ ~Bails(line)
                          THEN ApplyDotCommand(stripped.shell, line)
                          ELSE stripped.shell]
  BY DEF ReadLine
<1>2. PICK n \in Nat :
        /\ lines' \in Seq(Input)
        /\ DOMAIN lines = 1 .. n
        /\ DOMAIN lines' = 1 .. n + 1
        /\ \A i \in 1 .. n : lines'[i] = lines[i]
        /\ lines'[n + 1] = line
  BY <1>1, OneLineMore DEF DotInv
<1>3. /\ stripped'.ok \in BOOLEAN
      /\ stripped'.saw_sql \in BOOLEAN
      /\ stripped'.ok <=> stripped.ok /\ ~Bails(line)
      /\ stripped'.saw_sql <=> stripped.saw_sql \/ line.command = "sql"
  BY <1>1 DEF DotInv
<1>4. stripped'.shell = IF stripped.ok /\ IsCommand(line) /\ ~Bails(line)
                          THEN ApplyDotCommand(stripped.shell, line)
                          ELSE stripped.shell
  BY <1>1
<1>5. DOMAIN stripped'.shell = Settings \cup {"mode"}
  <2>1. DOMAIN stripped.shell = Settings \cup {"mode"} /\ "mode" \in DOMAIN stripped.shell
    BY DEF DotInv
  <2>2. DOMAIN ApplyDotCommand(stripped.shell, line) = DOMAIN stripped.shell
    BY <2>1, CommandSays
  <2> QED
    BY <1>4, <2>1, <2>2
<1>6. stripped'.saw_sql <=> \E i \in DOMAIN lines' : lines'[i].command = "sql"
  <2>1. stripped.saw_sql <=> \E i \in 1 .. n : lines[i].command = "sql"
    BY <1>2 DEF DotInv
  <2>2. \A i : i \in 1 .. n + 1 <=> i \in 1 .. n \/ i = n + 1
    BY <1>2
  <2> QED
    BY <1>2, <1>3, <2>1, <2>2
<1>7. BailsForALine'
  <2>1. \A j \in 1 .. n : Offends(j)' <=> Offends(j)
    <3> SUFFICES ASSUME NEW j \in 1 .. n PROVE Offends(j)' <=> Offends(j)
      OBVIOUS
    <3>1. \A i \in 1 .. j : i \in 1 .. n
      BY <1>2
    <3>2. \A i \in 1 .. j : lines'[i] = lines[i]
      BY <1>2, <3>1
    <3>3. lines'[j] = lines[j]
      BY <1>2
    <3> QED
      BY <3>2, <3>3 DEF Offends
  <2>2. Offends(n + 1)' <=> Bails(line)
    <3>1. Offends(n + 1)' <=>
            /\ IsCommand(line)
            /\ ~Known(line) \/ \E i \in 1 .. n + 1 : lines'[i].command = "sql"
      BY <1>2, Zenon DEF Offends
    <3>2. IsCommand(line) =>
            ((\E i \in 1 .. n + 1 : lines'[i].command = "sql") <=> stripped.saw_sql)
      BY <1>2, <1>3, <1>6 DEF IsCommand
    <3>3. Bails(line) <=> IsCommand(line) /\ (stripped.saw_sql \/ ~Known(line))
      BY DEF Bails
    <3> QED
      BY <3>1, <3>2, <3>3, Zenon
  <2>3. stripped.ok <=> \A j \in 1 .. n : ~Offends(j)
    BY <1>2 DEF DotInv, BailsForALine
  <2>4. (\A j \in 1 .. n + 1 : ~Offends(j)')
          <=> (\A j \in 1 .. n : ~Offends(j)') /\ ~Offends(n + 1)'
    <3>1. \A j : j \in 1 .. n + 1 <=> j \in 1 .. n \/ j = n + 1
      BY <1>2
    <3> QED
      BY <3>1, Zenon
  <2> QED
    BY <1>2, <1>3, <2>1, <2>2, <2>3, <2>4 DEF BailsForALine
<1>8. SettingsStand'
  <2> SUFFICES ASSUME stripped'.ok, NEW setting \in Settings \cup {"mode"}
               PROVE  \/ /\ Told(setting)' = {}
                         /\ stripped'.shell[setting] = Defaults[setting]
                      \/ \E last \in Told(setting)' :
                           /\ \A j \in Told(setting)' : j <= last
                           /\ stripped'.shell[setting] = Says(lines'[last], setting)
    BY DEF SettingsStand
  <2>1. stripped.ok /\ ~Bails(line)
    BY <1>3
  <2>2. \/ /\ Told(setting) = {}
           /\ stripped.shell[setting] = Defaults[setting]
        \/ \E last \in Told(setting) :
             /\ \A j \in Told(setting) : j <= last
             /\ stripped.shell[setting] = Says(lines[last], setting)
    BY <2>1 DEF DotInv, SettingsStand
  <2>3. Told(setting) \subseteq 1 .. n
    BY <1>2 DEF Told
  <2>6. /\ line.command \in {setting, "mode"} /\ IsCommand(line) =>
             stripped'.shell[setting] = Says(line, setting)
        /\ line.command \notin {setting, "mode"} =>
             ApplyDotCommand(stripped.shell, line)[setting] = stripped.shell[setting]
    <3>1. DOMAIN stripped.shell = Settings \cup {"mode"} /\ setting \in DOMAIN stripped.shell
      BY DEF DotInv
    <3>2. /\ line.command \in {setting, "mode"} =>
               ApplyDotCommand(stripped.shell, line)[setting] = Says(line, setting)
          /\ line.command \notin {setting, "mode"} =>
               ApplyDotCommand(stripped.shell, line)[setting] = stripped.shell[setting]
      BY <3>1, CommandSays
    <3> QED
      BY <1>4, <2>1, <3>2
  <2>4. CASE line.command \in {setting, "mode"}
    <3>1. IsCommand(line)
      BY <2>4 DEF IsCommand, Settings
    <3>2. stripped'.shell[setting] = Says(line, setting)
      BY <2>1, <2>4, <2>6, <3>1
    <3>3. n + 1 \in Told(setting)'
      BY <1>2, <2>4 DEF Told
    <3>4. \A j \in Told(setting)' : j <= n + 1
      BY <1>2 DEF Told
    <3> QED
      BY <1>2, <3>2, <3>3, <3>4
  <2>5. CASE line.command \notin {setting, "mode"}
    <3>1. stripped'.shell[setting] = stripped.shell[setting]
      BY <1>4, <2>5, <2>6
    <3>2. Told(setting)' = Told(setting)
      <4>1. \A i : i \in 1 .. n + 1 <=> i \in 1 .. n \/ i = n + 1
        BY <1>2
      <4> QED
        BY <1>2, <2>5, <4>1 DEF Told
    <3>3. \A i \in Told(setting) : lines'[i] = lines[i]
      BY <1>2, <2>3
    <3> QED
      BY <2>2, <3>1, <3>2, <3>3
  <2> QED
    BY <2>4, <2>5
<1> QED
  BY <1>2, <1>3, <1>5, <1>6, <1>7, <1>8 DEF DotInv

LEMMA Reading == DotSpec => []DotInv
<1>1. DotInit => DotInv
  <2> SUFFICES ASSUME DotInit PROVE DotInv
    OBVIOUS
  <2>1. lines \in Seq(Input) /\ DOMAIN lines = {}
    BY DEF DotInit
  <2>2. stripped.ok = TRUE /\ stripped.saw_sql = FALSE /\ stripped.shell = Defaults
    BY DEF DotInit
  <2>3. DOMAIN Defaults = Settings \cup {"mode"}
    BY DEF Defaults, Settings
  <2>4. BailsForALine
    BY <2>1, <2>2 DEF BailsForALine
  <2>5. SettingsStand
    BY <2>1, <2>2 DEF SettingsStand, Told
  <2> QED
    BY <2>1, <2>2, <2>3, <2>4, <2>5 DEF DotInv
<1>2. DotInv /\ UNCHANGED dotvars => DotInv'
  BY DEF DotInv, dotvars, BailsForALine, Offends, SettingsStand, Told
<1> QED
  BY <1>1, <1>2, ReadsOn, PTL DEF DotSpec

\* The flags are what the commands come to, for every input: the last command
\* for a setting stands, and .mode undoes the ones before it.
THEOREM FlagsStand == DotSpec => []SettingsStand
<1>1. DotInv => SettingsStand
  BY DEF DotInv
<1> QED
  BY <1>1, Reading, PTL

\* An input is refused for a line of its own and for no other reason.
THEOREM InputRefused == DotSpec => []BailsForALine
<1>1. DotInv => BailsForALine
  BY DEF DotInv
<1> QED
  BY <1>1, Reading, PTL
=============================================================================
