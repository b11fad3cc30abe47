-------------------------- MODULE ChildIO_proofs ---------------------------
(***************************************************************************)
(* Proofs about the runner and its child for every program of the child,   *)
(* every size of a pipe and every length of stdin: the inductive invariant *)
(* IInv, and what it says of the answers.                                  *)
(***************************************************************************)
EXTENDS ChildIO, FiniteSetTheorems, TLAPS

\* What the child has written is in the pipes or with the runner.
OutputBalance == \A s \in Streams : got[s] + held[s] = Count(s, ip - 1)

\* What the runner has written is in the pipe or was read.
InputBalance == open => written = stdin + Count("read", ip - 1)

Control ==
  /\ pc \in {"spawn", "write"} => open
  /\ pc = "spawn" => child = "none"
  /\ pc \in {"write", "drain", "look", "poll", "clock", "kill"} => child \in {"running", "zombie"}
  /\ pc \in {"look_again", "collect"} => child = "reaped"
  /\ pc = "drain" => mode = "pipe"
  /\ pc \in {"look", "look_again"} => mode = "file"
  /\ pc \in {"clock", "kill"} => mode = "timed"
  /\ pc \in {"poll", "collect"} => mode # "pipe"
  /\ pc # "returned" <=> result = "none"

ChildState ==
  /\ \A j \in 1 .. ip - 1 : program[j] # "hang"
  /\ child \in {"zombie", "reaped"} /\ result # "timeout" => how = "exit" /\ ip = Len(program) + 1
  /\ reused => mode = "file" /\ child = "reaped"

\* Only wait_with_output of mode "pipe" takes output before the end.
Taken ==
  /\ pc \in {"spawn", "write"} \/ (mode # "pipe" /\ pc # "returned") => \A s \in Streams : got[s] = 0
  /\ result = "ok" /\ mode = "timed" => \A s \in Streams : got[s] <= Cap

Returned ==
  /\ result = "ok" => child = "reaped" /\ \A s \in Streams : held[s] = 0
  /\ result = "unreadable" => child = "reaped"
  /\ result = "timeout" => child = "reaped" /\ mode = "timed"
  /\ result = "spawn_failed" => child = "none"
  /\ result = "broken_pipe" => child = "zombie" /\ Count("read", Len(program)) < InLen

Peak ==
  mode = "file" =>
    /\ lived \/ (pc = "poll" /\ child = "running") => peak > 0
    /\ peak > Len(program) + 1 => reused

Stuck == Wedges => pc \in {"spawn", "write"} \/ result = "spawn_failed"

IInv ==
  TypeOK /\ OutputBalance /\ InputBalance /\ Control /\ ChildState /\ Taken /\ Returned /\ Peak /\ Stuck

USE ChildAssumption DEF Streams

-----------------------------------------------------------------------------
(* Programs and what is counted of them *)

LEMMA ProgramIsSeq ==
  ASSUME program \in Programs
  PROVE  program \in Seq(Ops) /\ Len(program) \in 0 .. MaxOps /\ DOMAIN program = 1 .. Len(program)
<1>1. PICK n \in 0 .. MaxOps : program \in [1 .. n -> Ops]
  BY DEF Programs
<1> QED
  BY <1>1

LEMMA CountIsNat ==
  ASSUME NEW op, NEW k \in Nat
  PROVE  Count(op, k) \in Nat
<1>1. IsFiniteSet(1 .. k)
  BY FS_Interval
<1>2. IsFiniteSet({j \in 1 .. k : program[j] = op})
  BY <1>1, FS_Subset
<1> QED
  BY <1>2, FS_CardinalityType DEF Count

LEMMA CountNone ==
  ASSUME NEW op
  PROVE  Count(op, 0) = 0
<1>1. {j \in 1 .. 0 : program[j] = op} = {}
  OBVIOUS
<1> QED
  BY <1>1, FS_EmptySet DEF Count

LEMMA CountNext ==
  ASSUME NEW op, NEW k \in Nat \ {0}
  PROVE  Count(op, k) = Count(op, k - 1) + (IF program[k] = op THEN 1 ELSE 0)
<1> DEFINE before == {j \in 1 .. k - 1 : program[j] = op}
           upto == {j \in 1 .. k : program[j] = op}
<1>1. IsFiniteSet(before)
  <2>1. IsFiniteSet(1 .. k - 1)
    BY FS_Interval
  <2> QED
    BY <2>1, FS_Subset
<1>2. Cardinality(before) \in Nat /\ k \notin before
  BY <1>1, FS_CardinalityType
<1>3. CASE program[k] = op
  <2>1. upto = before \cup {k}
    BY <1>3
  <2>2. Cardinality(upto) = Cardinality(before) + 1
    BY <1>1, <1>2, <2>1, FS_AddElement
  <2> QED
    BY <1>3, <2>2 DEF Count
<1>4. CASE program[k] # op
  <2>1. upto = before
    BY <1>4
  <2>2. Count(op, k) = Cardinality(upto) /\ Count(op, k - 1) = Cardinality(before)
    BY DEF Count
  <2> HIDE DEF upto, before
  <2> QED
    BY <1>2, <1>4, <2>1, <2>2
<1> QED
  BY <1>3, <1>4

LEMMA CountGrows ==
  ASSUME NEW op, NEW j \in Nat, NEW k \in Nat, j <= k
  PROVE  Count(op, j) <= Count(op, k)
<1>1. {i \in 1 .. j : program[i] = op} \subseteq {i \in 1 .. k : program[i] = op}
  OBVIOUS
<1>2. IsFiniteSet({i \in 1 .. k : program[i] = op})
  <2>1. IsFiniteSet(1 .. k)
    BY FS_Interval
  <2> QED
    BY <2>1, FS_Subset
<1> QED
  BY <1>1, <1>2, FS_Subset DEF Count

\* While nothing is drained the child has not passed an operation that blocks.
LEMMA NotPastBlocking ==
  ASSUME TypeOK, OutputBalance, ChildState, \A s \in Streams : got[s] = 0,
         NEW k \in DOMAIN program, Blocks(k)
  PROVE  ip <= k
<1> SUFFICES ASSUME k < ip PROVE FALSE
  BY ProgramIsSeq DEF TypeOK
<1>1. k \in 1 .. ip - 1 /\ ip - 1 \in Nat /\ k \in Nat
  BY ProgramIsSeq DEF TypeOK
<1>2. program[k] # "hang"
  BY <1>1 DEF ChildState
<1>3. program[k] \in Streams /\ mode # "file" /\ Count(program[k], k) > Cap
  BY <1>2 DEF Blocks
<1>4. held[program[k]] = Count(program[k], ip - 1) /\ held[program[k]] <= Cap
  BY <1>3 DEF TypeOK, OutputBalance
<1>5. Count(program[k], k) <= Count(program[k], ip - 1)
  BY <1>1, CountGrows
<1> QED
  BY <1>1, <1>3, <1>4, <1>5, CountIsNat

\* A child that has ended has done all its operations.
LEMMA EndedInFull ==
  ASSUME IInv, child \in {"zombie", "reaped"}, result # "timeout"
  PROVE  how = "exit" /\ ip - 1 = Len(program) /\ Len(program) \in Nat
BY ProgramIsSeq DEF IInv, TypeOK, ChildState

-----------------------------------------------------------------------------
(* Every step keeps the invariant *)

LEMMA InitInvariant == Init => IInv
<1> SUFFICES ASSUME Init PROVE IInv
  OBVIOUS
<1>1. TypeOK
  <2>1. ip \in 1 .. Len(program) + 1
    BY ProgramIsSeq DEF Init
  <2>2. peak \in 0 .. Foreign /\ stdin \in 0 .. Cap /\ written \in 0 .. InLen
    BY DEF Init, Foreign
  <2>3. held \in [Streams -> IF mode = "file" THEN Nat ELSE 0 .. Cap] /\ got \in [Streams -> Nat]
    BY DEF Init
  <2> QED
    BY <2>1, <2>2, <2>3 DEF Init, TypeOK
<1>2. OutputBalance /\ InputBalance
  BY CountNone DEF Init, OutputBalance, InputBalance
<1>3. Control /\ ChildState /\ Taken /\ Returned
  BY DEF Init, Control, ChildState, Taken, Returned
<1>4. Peak /\ Stuck
  BY ProgramIsSeq DEF Init, Peak, Stuck
<1> QED
  BY <1>1, <1>2, <1>3, <1>4 DEF IInv

\* Neither does a step change the program, nor what is counted of it.
LEMMA SameProgram ==
  ASSUME UNCHANGED <<mode, program>>
  PROVE  Wedges' = Wedges /\ \A op, k : Count(op, k)' = Count(op, k)
BY DEF Wedges, Blocks, Count

LEMMA ReadStep ==
  ASSUME IInv, Read
  PROVE  IInv'
<1> USE DEF Read, memory
<1> Wedges' = Wedges /\ \A op, k : Count(op, k)' = Count(op, k)
  BY SameProgram
<1>1. ip \in 1 .. Len(program) /\ Len(program) \in Nat /\ program[ip] = "read"
  BY ProgramIsSeq DEF IInv, TypeOK, Op
<1>2. /\ Count("read", ip) = Count("read", ip - 1) + 1
      /\ \A s \in Streams : Count(s, ip) = Count(s, ip - 1) + 0
  BY <1>1, CountNext
<1>3. TypeOK'
  BY <1>1 DEF IInv, TypeOK
<1>4. OutputBalance'
  BY <1>1, <1>2, CountIsNat DEF IInv, TypeOK, OutputBalance
<1>5. InputBalance'
  BY <1>1, <1>2, CountIsNat, SMTT(30) DEF IInv, TypeOK, InputBalance
<1>6. Control' /\ Taken' /\ Returned' /\ Peak' /\ Stuck'
  BY DEF IInv, Control, Taken, Returned, Peak, Stuck
<1>7. ChildState'
  BY <1>1 DEF IInv, ChildState
<1> QED
  BY <1>3, <1>4, <1>5, <1>6, <1>7 DEF IInv

LEMMA EmitStep ==
  ASSUME IInv, Emit
  PROVE  IInv'
<1> USE DEF Emit, memory
<1> Wedges' = Wedges /\ \A op, k : Count(op, k)' = Count(op, k)
  BY SameProgram
<1>1. ip \in 1 .. Len(program) /\ Len(program) \in Nat /\ program[ip] = Op /\ Op \in Streams
  BY ProgramIsSeq DEF IInv, TypeOK, Op
<1>2. /\ Count("read", ip) = Count("read", ip - 1) + 0
      /\ \A s \in Streams : Count(s, ip) = Count(s, ip - 1) + (IF s = Op THEN 1 ELSE 0)
  BY <1>1, CountNext
<1>3. TypeOK'
  BY <1>1 DEF IInv, TypeOK, Room
<1>4. OutputBalance'
  <2> SUFFICES ASSUME NEW s \in Streams PROVE got'[s] + held'[s] = Count(s, ip' - 1)
    BY DEF OutputBalance
  <2>1. got[s] \in Nat /\ held[s] \in Nat /\ got[s] + held[s] = Count(s, ip - 1)
    BY DEF IInv, TypeOK, OutputBalance
  <2>2. held'[s] = held[s] + (IF s = Op THEN 1 ELSE 0)
    BY <2>1 DEF IInv, TypeOK
  <2>3. ip' - 1 = ip /\ Count(s, ip - 1) \in Nat
    BY <1>1, CountIsNat
  <2> QED
    BY <1>2, <2>1, <2>2, <2>3
<1>5. InputBalance'
  BY <1>1, <1>2, CountIsNat DEF IInv, TypeOK, InputBalance
<1>6. Control' /\ Peak' /\ Stuck'
  BY DEF IInv, Control, Peak, Stuck
<1>7. ChildState'
  BY <1>1 DEF IInv, ChildState
<1>8. Taken' /\ Returned'
  BY DEF IInv, Taken, Returned
<1> QED
  BY <1>3, <1>4, <1>5, <1>6, <1>7, <1>8 DEF IInv

LEMMA ExitStep ==
  ASSUME IInv, Exit
  PROVE  IInv'
<1> USE DEF Exit, memory, pipevars
<1> Wedges' = Wedges /\ \A op, k : Count(op, k)' = Count(op, k)
  BY SameProgram
<1>1. ip = Len(program) + 1
  BY ProgramIsSeq DEF IInv, TypeOK, Op, Ops
<1>2. TypeOK'
  BY DEF IInv, TypeOK
<1>3. OutputBalance' /\ InputBalance'
  BY DEF IInv, OutputBalance, InputBalance
<1>4. ChildState'
  BY <1>1 DEF IInv, ChildState
<1>5. Control' /\ Taken' /\ Returned' /\ Peak' /\ Stuck'
  BY DEF IInv, Control, Taken, Returned, Peak, Stuck
<1> QED
  BY <1>2, <1>3, <1>4, <1>5 DEF IInv

LEMMA SpawnStep ==
  ASSUME IInv, Spawn
  PROVE  IInv'
<1> USE DEF Spawn, memory, pipevars, Return
<1> Wedges' = Wedges /\ \A op, k : Count(op, k)' = Count(op, k)
  BY SameProgram
<1>1. TypeOK'
  BY DEF IInv, TypeOK
<1>2. OutputBalance' /\ InputBalance'
  BY DEF IInv, OutputBalance, InputBalance
<1>3. Control' /\ Taken' /\ Returned' /\ Stuck'
  BY DEF IInv, Control, Taken, Returned, Stuck
<1>4. ChildState' /\ Peak'
  BY DEF IInv, Control, ChildState, Peak
<1> QED
  BY <1>1, <1>2, <1>3, <1>4 DEF IInv

\* A pipe that breaks does so for a child that has ended with stdin unread.
LEMMA WriteStdinStep ==
  ASSUME IInv, WriteStdin
  PROVE  IInv'
<1> USE DEF WriteStdin, memory, childvars, Return, Unwritten, Wrote
<1> Wedges' = Wedges /\ \A op, k : Count(op, k)' = Count(op, k)
  BY SameProgram DEF childvars
<1>1. /\ stdin \in Nat /\ written \in Nat /\ written < InLen /\ open
      /\ written = stdin + Count("read", ip - 1)
  BY DEF IInv, TypeOK, Control, InputBalance
<1>2. child = "zombie" => Count("read", Len(program)) < InLen
  <2> SUFFICES ASSUME child = "zombie" PROVE Count("read", Len(program)) < InLen
    OBVIOUS
  <2>1. ip - 1 = Len(program) /\ Len(program) \in Nat
    BY EndedInFull DEF IInv, Control
  <2> QED
    BY <1>1, <2>1, CountIsNat
<1>3. child = "zombie" => ~Wedges
  <2> SUFFICES ASSUME child = "zombie", NEW k \in DOMAIN program, Blocks(k) PROVE FALSE
    BY DEF Wedges
  <2>1. ip <= k
    BY NotPastBlocking DEF IInv, Taken
  <2>2. ip - 1 = Len(program) /\ Len(program) \in Nat /\ k \in 1 .. Len(program)
    BY EndedInFull, ProgramIsSeq DEF IInv, TypeOK, Control
  <2>3. ip \in Nat
    BY ProgramIsSeq DEF IInv, TypeOK
  <2> QED
    BY <2>1, <2>2, <2>3
<1>4. TypeOK'
  <2>1. stdin' \in 0 .. Cap /\ written' \in 0 .. InLen
    <3>1. stdin \in 0 .. Cap /\ written \in 0 .. InLen /\ Cap \in Nat /\ InLen \in Nat
      BY DEF IInv, TypeOK
    <3>2. CASE stdin < Cap /\ stdin' = stdin + 1 /\ written' = written + 1
      BY <1>1, <3>1, <3>2
    <3>3. CASE stdin' = stdin /\ written' = written
      BY <3>1, <3>3
    <3> QED
      BY <3>2, <3>3
  <2>2. open' \in BOOLEAN /\ pc' \in {"write", "returned"} /\ result' \in {result, "broken_pipe"}
    BY DEF IInv, TypeOK
  <2> HIDE DEF WriteStdin
  <2>3. UNCHANGED <<mode, program, ip, child, how, held, got, expired, reused, peak, lived>>
    BY DEF WriteStdin
  <2> QED
    BY <2>1, <2>2, <2>3 DEF IInv, TypeOK, Foreign
<1>5. OutputBalance' /\ ChildState'
  BY DEF IInv, Control, OutputBalance, ChildState
<1>6. InputBalance'
  <2>1. ip - 1 \in Nat
    BY ProgramIsSeq DEF IInv, TypeOK
  <2> QED
    BY <1>1, <2>1, CountIsNat DEF InputBalance
<1>7. Control' /\ Taken' /\ Peak'
  <2>1. pc = "write" /\ result = "none" /\ child \in {"running", "zombie"} /\ child' = child /\ mode' = mode
    BY DEF IInv, Control
  <2>2. \/ pc' = "write" /\ open' = open /\ result' = "none"
        \/ pc' = "returned" /\ result' = "broken_pipe"
    BY <2>1
  <2>3. Control'
    BY <1>1, <2>1, <2>2 DEF Control
  <2>4. Taken'
    BY <2>1, <2>2 DEF IInv, Taken
  <2>5. Peak'
    BY <2>1, <2>2 DEF IInv, Peak
  <2> QED
    BY <2>3, <2>4, <2>5
<1>8. Returned' /\ Stuck'
  BY <1>2, <1>3 DEF IInv, Control, Returned, Stuck
<1> QED
  BY <1>4, <1>5, <1>6, <1>7, <1>8 DEF IInv


\* All of stdin was written: the child was not stuck before it read enough.
LEMMA CloseStdinStep ==
  ASSUME IInv, CloseStdin
  PROVE  IInv'
<1> USE DEF CloseStdin, memory, childvars
<1> Wedges' = Wedges /\ \A op, k : Count(op, k)' = Count(op, k)
  BY SameProgram DEF childvars
<1>1. ~Wedges
  <2> SUFFICES ASSUME NEW k \in DOMAIN program, Blocks(k), Count("read", k) + Cap < InLen
               PROVE  FALSE
    BY DEF Wedges
  <2>1. ip <= k
    BY NotPastBlocking DEF IInv, Taken
  <2>2. k \in Nat /\ ip - 1 \in Nat /\ ip - 1 <= k
    BY <2>1, ProgramIsSeq DEF IInv, TypeOK
  <2>3. Count("read", ip - 1) <= Count("read", k) /\ Count("read", k) \in Nat /\ Count("read", ip - 1) \in Nat
    BY <2>2, CountGrows, CountIsNat
  <2>4. InLen = stdin + Count("read", ip - 1) /\ stdin \in 0 .. Cap
    BY DEF IInv, TypeOK, Control, InputBalance
  <2> QED
    BY <2>3, <2>4
<1>2. AfterStdin = IF mode = "pipe" THEN "drain" ELSE IF mode = "file" THEN "look" ELSE "poll"
  BY DEF AfterStdin
<1>3. mode \in {"pipe", "file", "timed"}
  BY DEF IInv, TypeOK
<1>4. TypeOK'
  BY <1>2 DEF IInv, TypeOK
<1>5. OutputBalance' /\ InputBalance' /\ ChildState' /\ Returned'
  BY DEF IInv, OutputBalance, InputBalance, ChildState, Returned
<1>6. Control' /\ Taken'
  BY <1>2, <1>3 DEF IInv, Control, Taken
<1>7. Peak' /\ Stuck'
  BY <1>1, <1>2 DEF IInv, Peak, Stuck
<1> QED
  BY <1>4, <1>5, <1>6, <1>7 DEF IInv


LEMMA DrainStep ==
  ASSUME IInv, Drain
  PROVE  IInv'
<1> USE DEF Drain, memory, childvars
<1> Wedges' = Wedges /\ \A op, k : Count(op, k)' = Count(op, k)
  BY SameProgram DEF childvars
<1>1. PICK s \in Streams :
        /\ held[s] > 0
        /\ held' = [held EXCEPT ![s] = @ - 1]
        /\ got' = [got EXCEPT ![s] = @ + 1]
  OBVIOUS
<1>2. mode = "pipe" /\ result = "none"
  BY DEF IInv, Control
<1>3. \A t \in Streams :
        /\ held[t] \in 0 .. Cap /\ got[t] \in Nat
        /\ held'[t] = IF t = s THEN held[t] - 1 ELSE held[t]
        /\ got'[t] = IF t = s THEN got[t] + 1 ELSE got[t]
  <2>1. held \in [Streams -> 0 .. Cap] /\ got \in [Streams -> Nat]
    BY <1>2 DEF IInv, TypeOK
  <2> HIDE DEF Drain
  <2> QED
    BY <1>1, <2>1
<1>4. TypeOK'
  <2>1. held' \in [Streams -> IF mode = "file" THEN Nat ELSE 0 .. Cap] /\ got' \in [Streams -> Nat]
    BY <1>1, <1>2 DEF IInv, TypeOK
  <2> QED
    BY <2>1 DEF IInv, TypeOK
<1>5. OutputBalance'
  <2> SUFFICES ASSUME NEW t \in Streams PROVE got'[t] + held'[t] = Count(t, ip - 1)'
    BY DEF OutputBalance
  <2>1. got[t] + held[t] = Count(t, ip - 1)
    BY DEF IInv, OutputBalance
  <2>2. ip' = ip
    OBVIOUS
  <2>3. Count(t, ip - 1)' = Count(t, ip - 1)
    BY <2>2, SameProgram DEF Count
  <2> HIDE DEF Drain
  <2> QED
    BY <1>1, <1>3, <2>1, <2>3
<1>6. InputBalance' /\ Control' /\ ChildState' /\ Peak' /\ Stuck'
  BY DEF IInv, InputBalance, Control, ChildState, Peak, Stuck
<1>7. Taken' /\ Returned'
  BY <1>2 DEF Taken, Returned
<1> QED
  BY <1>4, <1>5, <1>6, <1>7 DEF IInv


LEMMA WaitStep ==
  ASSUME IInv, Wait
  PROVE  IInv'
<1> USE DEF Wait, memory, pipevars, Return, AtEnd
<1> Wedges' = Wedges /\ \A op, k : Count(op, k)' = Count(op, k)
  BY SameProgram DEF childvars
<1>1. mode = "pipe" /\ result = "none"
  BY DEF IInv, Control
<1>2. TypeOK'
  BY DEF IInv, TypeOK
<1>3. OutputBalance' /\ InputBalance'
  BY DEF IInv, OutputBalance, InputBalance
<1>4. Control' /\ ChildState' /\ Taken' /\ Returned' /\ Peak' /\ Stuck'
  BY <1>1 DEF IInv, Control, ChildState, Taken, Returned, Peak, Stuck
<1> QED
  BY <1>2, <1>3, <1>4 DEF IInv


LEMMA LookStep ==
  ASSUME IInv, Look
  PROVE  IInv'
<1> USE DEF Look, childvars, pipevars, KeepMax
<1> Wedges' = Wedges /\ \A op, k : Count(op, k)' = Count(op, k)
  BY SameProgram DEF childvars
<1>1. PICK sample \in Sample : peak' = KeepMax(peak, sample)
  OBVIOUS
<1>2. sample \in 0 .. Foreign /\ (sample > Len(program) + 1 => reused) /\ (child = "running" => sample > 0)
  <2>1. ip \in 1 .. Len(program) + 1 /\ Len(program) \in 0 .. MaxOps
    BY ProgramIsSeq DEF IInv, TypeOK
  <2>2. CASE child = "running"
    <3>1. ~reused
      BY <2>2 DEF IInv, ChildState
    <3>2. Sample = {ip}
      BY <2>2, <3>1 DEF Sample
    <3> QED
      BY <1>1, <2>1, <3>2 DEF Foreign
  <2>3. CASE child # "running"
    BY <2>1, <2>3 DEF Sample, Foreign
  <2> QED
    BY <2>2, <2>3
<1>3. peak \in 0 .. Foreign /\ peak' \in 0 .. Foreign /\ peak' \in {peak, sample} /\ peak' >= peak /\ peak' >= sample
  BY <1>1, <1>2 DEF IInv, TypeOK, Foreign
<1>4. TypeOK'
  BY <1>3 DEF IInv, TypeOK
<1>5. OutputBalance' /\ InputBalance' /\ ChildState'
  BY DEF IInv, OutputBalance, InputBalance, ChildState
<1>6. Control' /\ Taken' /\ Returned' /\ Stuck'
  BY DEF IInv, Control, Taken, Returned, Stuck
<1>7. Peak'
  <2>1. Len(program) \in Nat
    BY ProgramIsSeq DEF IInv, TypeOK
  <2> QED
    BY <1>2, <1>3, <2>1 DEF IInv, Peak, Foreign
<1> QED
  BY <1>4, <1>5, <1>6, <1>7 DEF IInv


LEMMA ReuseStep ==
  ASSUME IInv, Reuse
  PROVE  IInv'
<1> USE DEF Reuse, childvars, pipevars
<1> Wedges' = Wedges /\ \A op, k : Count(op, k)' = Count(op, k)
  BY SameProgram DEF childvars
<1>1. TypeOK'
  BY DEF IInv, TypeOK
<1>2. OutputBalance' /\ InputBalance' /\ Control' /\ ChildState'
  BY DEF IInv, OutputBalance, InputBalance, Control, ChildState
<1>3. Taken' /\ Returned' /\ Peak' /\ Stuck'
  BY DEF IInv, Taken, Returned, Peak, Stuck
<1> QED
  BY <1>1, <1>2, <1>3 DEF IInv


LEMMA PollStep ==
  ASSUME IInv, Poll
  PROVE  IInv'
<1> USE DEF Poll, pipevars, Ended, StillRunning
<1> Wedges' = Wedges /\ \A op, k : Count(op, k)' = Count(op, k)
  BY SameProgram DEF childvars
<1>1. mode \in {"file", "timed"} /\ result = "none"
  BY DEF IInv, TypeOK, Control
<1>2. TypeOK'
  BY DEF IInv, TypeOK
<1>3. OutputBalance' /\ InputBalance' /\ ChildState'
  BY DEF IInv, OutputBalance, InputBalance, ChildState
<1>4. Control' /\ Taken' /\ Returned' /\ Stuck'
  BY <1>1 DEF IInv, Control, Taken, Returned, Stuck
<1>5. Peak'
  BY <1>1 DEF IInv, Peak
<1> QED
  BY <1>2, <1>3, <1>4, <1>5 DEF IInv


LEMMA ClockStep ==
  ASSUME IInv, Clock
  PROVE  IInv'
<1> USE DEF Clock, memory, childvars, pipevars, AfterClock
<1> Wedges' = Wedges /\ \A op, k : Count(op, k)' = Count(op, k)
  BY SameProgram DEF childvars
<1>1. mode = "timed" /\ result = "none"
  BY DEF IInv, Control
<1>2. TypeOK'
  BY DEF IInv, TypeOK
<1>3. OutputBalance' /\ InputBalance' /\ ChildState'
  BY DEF IInv, OutputBalance, InputBalance, ChildState
<1>4. Control' /\ Taken' /\ Returned' /\ Peak' /\ Stuck'
  BY <1>1 DEF IInv, Control, Taken, Returned, Peak, Stuck
<1> QED
  BY <1>2, <1>3, <1>4 DEF IInv


LEMMA ExpireStep ==
  ASSUME IInv, Expire
  PROVE  IInv'
<1> USE DEF Expire, memory, childvars, pipevars
<1> Wedges' = Wedges /\ \A op, k : Count(op, k)' = Count(op, k)
  BY SameProgram DEF childvars
<1>1. TypeOK'
  BY DEF IInv, TypeOK
<1>2. OutputBalance' /\ InputBalance' /\ Control' /\ ChildState'
  BY DEF IInv, OutputBalance, InputBalance, Control, ChildState
<1>3. Taken' /\ Returned' /\ Peak' /\ Stuck'
  BY DEF IInv, Taken, Returned, Peak, Stuck
<1> QED
  BY <1>1, <1>2, <1>3 DEF IInv


LEMMA KillStep ==
  ASSUME IInv, Kill
  PROVE  IInv'
<1> USE DEF Kill, memory, pipevars, Return
<1> Wedges' = Wedges /\ \A op, k : Count(op, k)' = Count(op, k)
  BY SameProgram DEF childvars
<1>1. mode = "timed" /\ result = "none"
  BY DEF IInv, Control
<1>2. TypeOK'
  BY DEF IInv, TypeOK
<1>3. OutputBalance' /\ InputBalance'
  BY DEF IInv, OutputBalance, InputBalance
<1>4. Control' /\ ChildState' /\ Taken' /\ Returned' /\ Peak' /\ Stuck'
  BY <1>1 DEF IInv, Control, ChildState, Taken, Returned, Peak, Stuck
<1> QED
  BY <1>2, <1>3, <1>4 DEF IInv


LEMMA CollectStep ==
  ASSUME IInv, Collect
  PROVE  IInv'
<1> USE DEF Collect, memory, childvars, Return
<1> Wedges' = Wedges /\ \A op, k : Count(op, k)' = Count(op, k)
  BY SameProgram DEF childvars
<1>1. mode # "pipe" /\ result = "none" /\ child = "reaped" /\ \A s \in Streams : got[s] = 0
  BY DEF IInv, Control, Taken
<1>2. \A s \in Streams : held[s] \in Nat /\ (mode # "file" => held[s] <= Cap)
  BY DEF IInv, TypeOK
<1>3. TypeOK'
  <2>1. held' \in [Streams -> IF mode = "file" THEN Nat ELSE 0 .. Cap] /\ got' \in [Streams -> Nat]
    BY <1>2 DEF IInv, TypeOK
  <2> QED
    BY <2>1 DEF IInv, TypeOK
<1>4. OutputBalance'
  BY <1>1, <1>2 DEF IInv, OutputBalance
<1>5. InputBalance' /\ Control' /\ ChildState' /\ Peak' /\ Stuck'
  BY <1>1 DEF IInv, InputBalance, Control, ChildState, Peak, Stuck
<1>6. Taken' /\ Returned'
  BY <1>1, <1>2 DEF Taken, Returned
<1> QED
  BY <1>3, <1>4, <1>5, <1>6 DEF IInv

LEMMA StutterStep ==
  ASSUME IInv, UNCHANGED vars
  PROVE  IInv'
<1> USE DEF vars
<1> Wedges' = Wedges /\ \A op, k : Count(op, k)' = Count(op, k)
  BY SameProgram
<1>1. TypeOK'
  BY DEF IInv, TypeOK
<1>2. OutputBalance' /\ InputBalance' /\ Control' /\ ChildState'
  BY DEF IInv, OutputBalance, InputBalance, Control, ChildState
<1>3. Taken' /\ Returned' /\ Peak' /\ Stuck'
  BY DEF IInv, Taken, Returned, Peak, Stuck
<1> QED
  BY <1>1, <1>2, <1>3 DEF IInv

\* The invariant holds in every state of the specification.
THEOREM Invariance == Spec => []IInv
<1>1. Init => IInv
  BY InitInvariant
<1>2. IInv /\ [Next]_vars => IInv'
  <2> SUFFICES ASSUME IInv, [Next]_vars PROVE IInv'
    OBVIOUS
  <2>1. CASE Runner
    BY <2>1, SpawnStep, WriteStdinStep, CloseStdinStep, DrainStep, WaitStep, LookStep, PollStep,
       ClockStep, KillStep, CollectStep DEF Runner
  <2>2. CASE Child
    BY <2>2, ReadStep, EmitStep, ExitStep DEF Child
  <2> QED
    BY <2>1, <2>2, ExpireStep, ReuseStep, StutterStep DEF Next
<1> QED
  BY <1>1, <1>2, PTL DEF Spec

-----------------------------------------------------------------------------
(* What follows *)

\* Type correctness of the child, the pipes and the runner.
THEOREM TypeCorrect == Spec => []TypeOK
<1>1. IInv => TypeOK
  BY DEF IInv
<1> QED
  BY <1>1, Invariance, PTL

\* An Ok answer holds all the child wrote, in every mode and whatever a pipe
\* holds.
THEOREM AnswersHoldAll == Spec => []CapturesAll
<1>1. IInv => CapturesAll
  <2> SUFFICES ASSUME IInv, result = "ok"
               PROVE  /\ \A s \in Streams : got[s] = Count(s, Len(program))
                      /\ how = "exit" /\ child = "reaped"
    BY DEF CapturesAll
  <2>1. child = "reaped" /\ \A s \in Streams : held[s] = 0
    BY DEF IInv, Returned
  <2>2. how = "exit" /\ ip - 1 = Len(program)
    BY <2>1, EndedInFull
  <2>3. ASSUME NEW s \in Streams
        PROVE  got[s] = Count(s, Len(program))
    <3>1. got[s] \in Nat /\ got[s] + 0 = Count(s, Len(program))
      BY <2>1, <2>2 DEF IInv, TypeOK, OutputBalance
    <3> QED
      BY <3>1
  <2> QED
    BY <2>1, <2>2, <2>3
<1> QED
  BY <1>1, Invariance, PTL

\* A child that reads all its stdin is never answered with a broken pipe.
THEOREM BrokenPipeIsDeserved == Spec => []BrokenPipeNeedsEarlyExit
<1>1. IInv => BrokenPipeNeedsEarlyExit
  BY DEF IInv, Returned, BrokenPipeNeedsEarlyExit
<1> QED
  BY <1>1, Invariance, PTL

\* A child of NeverAnswers is never answered, however the two are scheduled.
THEOREM WedgedStaysWedged == Spec => []WedgedForever
<1>1. IInv => WedgedForever
  <2> SUFFICES ASSUME IInv, NeverAnswers, pc = "returned"
               PROVE  result = "spawn_failed"
    BY DEF WedgedForever
  <2>1. CASE Wedges
    BY <2>1 DEF IInv, Stuck
  <2>2. CASE mode # "timed" /\ Hangs
    <3>1. PICK k \in DOMAIN program : program[k] = "hang"
      BY <2>2 DEF Hangs
    <3>2. CASE child \in {"zombie", "reaped"} /\ result # "timeout"
      <4>1. k \in 1 .. ip - 1
        BY <3>2, EndedInFull, ProgramIsSeq DEF IInv, TypeOK
      <4> QED
        BY <3>1, <4>1 DEF IInv, ChildState
    <3>3. CASE ~(child \in {"zombie", "reaped"} /\ result # "timeout")
      BY <2>2, <3>3 DEF IInv, TypeOK, Control, Returned
    <3> QED
      BY <3>2, <3>3
  <2> QED
    BY <2>1, <2>2 DEF NeverAnswers
<1> QED
  BY <1>1, Invariance, PTL

\* No process outlives the call, but the one whose stdin broke.
THEOREM LeavesNoChild == Spec => []NoChildLeft
<1>1. IInv => NoChildLeft
  <2> SUFFICES ASSUME IInv, pc = "returned"
               PROVE  child = IF result = "broken_pipe" THEN "zombie"
                              ELSE IF result = "spawn_failed" THEN "none" ELSE "reaped"
    BY DEF NoChildLeft
  <2> QED
    BY DEF IInv, TypeOK, Control, Returned
<1> QED
  BY <1>1, Invariance, PTL

\* With a deadline a child that writes more than a pipe holds is never answered
\* with Ok.
THEOREM OverCapIsNoAnswer == Spec => []OutputOverCapTimesOut
<1>1. IInv => OutputOverCapTimesOut
  <2>1. IInv => CapturesAll
    <3> SUFFICES ASSUME IInv, result = "ok", NEW s \in Streams
                 PROVE  got[s] = Count(s, Len(program)) /\ how = "exit" /\ child = "reaped"
      BY DEF CapturesAll
    <3>1. child = "reaped" /\ held[s] = 0 /\ how = "exit" /\ ip - 1 = Len(program)
      BY EndedInFull DEF IInv, Returned
    <3> QED
      BY <3>1 DEF IInv, TypeOK, OutputBalance
  <2> QED
    BY <2>1 DEF IInv, Taken, CapturesAll, OutputOverCapTimesOut
<1> QED
  BY <1>1, Invariance, PTL

\* A child that lived through a round of the loop has a peak, and the peak is its
\* own unless its pid was reused.
THEOREM PeakIsOfChild == Spec => []PeakOfChild
<1>1. IInv => PeakOfChild
  BY DEF IInv, Peak, PeakOfChild
<1> QED
  BY <1>1, Invariance, PTL
=============================================================================
