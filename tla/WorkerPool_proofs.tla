------------------------- MODULE WorkerPool_proofs --------------------------
(***************************************************************************)
(* Proofs about run_case_set for every number of cases and of workers:     *)
(* the inductive invariant IInv, and what follows from it.                 *)
(***************************************************************************)
EXTENDS WorkerPool, TLAPS

USE NAssumption, WAssumption DEF Cases, Run, Outcome, Missing, NoCase

LEMMA InitInvariant == Init => IInv
<1> SUFFICES ASSUME Init PROVE IInv
  OBVIOUS
<1>1. TypeOK
  BY DEF Init, TypeOK, Answer
<1>2. InOrder /\ NothingLost /\ ScratchExclusive
  BY DEF Init, InOrder, NothingLost, ScratchExclusive, Holds
<1>3. ThreadControl /\ CallerControl /\ SerialControl
  BY DEF Init, ThreadControl, CallerControl, SerialControl, Pending
<1>4. AnswerSound
  BY DEF Init, AnswerSound
<1> QED
  BY <1>1, <1>2, <1>3, <1>4 DEF IInv

\* The threads depend on the number of workers, which no step changes.
LEMMA SameThreads ==
  ASSUME workers' = workers
  PROVE  Threads' = Threads /\ Serial' = Serial
BY DEF Threads, Serial

-----------------------------------------------------------------------------
(* The steps of a thread *)

LEMMA CheckErrorStep ==
  ASSUME IInv, NEW t \in Threads, CheckError(t)
  PROVE  IInv'
<1> USE DEF IInv, CheckError, Goto, AfterCheck
<1> workers' = workers /\ Threads' = Threads /\ Serial' = Serial
  BY SameThreads
<1>1. TypeOK'
  BY DEF TypeOK
<1>2. InOrder' /\ ScratchExclusive'
  BY DEF TypeOK, InOrder, ScratchExclusive, Holds
<1>3. NothingLost'
  BY DEF TypeOK, NothingLost, Holds, InChannel
<1>4. ThreadControl'
  BY DEF TypeOK, ThreadControl
<1>5. CallerControl' /\ SerialControl'
  BY DEF TypeOK, CallerControl, SerialControl, Finished, Serial
<1>6. AnswerSound'
  BY DEF AnswerSound
<1> QED
  BY <1>1, <1>2, <1>3, <1>4, <1>5, <1>6

LEMMA ClaimStep ==
  ASSUME IInv, NEW t \in Threads, Claim(t)
  PROVE  IInv'
<1> USE DEF IInv, Claim, Goto, Take, HasCase
<1> workers' = workers /\ Threads' = Threads /\ Serial' = Serial
  BY SameThreads
<1>1. TypeOK'
  BY DEF TypeOK
<1>2. InOrder'
  <2>1. \A u \in Threads : Holds(u)' \/ pc'[u] = "panicked" =>
           claimed'[u] \in Cases /\ claimed'[u] < next'
    BY DEF TypeOK, InOrder, Holds
  <2> QED
    BY <2>1 DEF TypeOK, InOrder
<1>3. ScratchExclusive'
  BY DEF TypeOK, InOrder, ScratchExclusive, Holds
<1>4. NothingLost'
  BY DEF TypeOK, NothingLost, Holds, InChannel
<1>5. ThreadControl'
  BY DEF TypeOK, ThreadControl
<1>6. CallerControl' /\ SerialControl'
  BY DEF TypeOK, CallerControl, SerialControl, Finished, Serial, Threads
<1>7. AnswerSound'
  BY DEF AnswerSound
<1> QED
  BY <1>1, <1>2, <1>3, <1>4, <1>5, <1>6, <1>7

LEMMA RunCaseStep ==
  ASSUME IInv, NEW t \in Threads, RunCase(t)
  PROVE  IInv'
<1> USE DEF IInv, RunCase, Goto, AfterCase
<1> workers' = workers /\ Threads' = Threads /\ Serial' = Serial
  BY SameThreads
<1>1. TypeOK'
  BY DEF TypeOK
<1>2. InOrder' /\ ScratchExclusive'
  BY DEF TypeOK, InOrder, ScratchExclusive, Holds
<1>3. NothingLost'
  BY DEF TypeOK, NothingLost, Holds, InChannel
<1>4. ThreadControl'
  BY DEF TypeOK, ThreadControl
<1>5. CallerControl' /\ SerialControl'
  BY DEF TypeOK, CallerControl, SerialControl, Finished, Serial
<1>6. AnswerSound'
  BY DEF AnswerSound
<1> QED
  BY <1>1, <1>2, <1>3, <1>4, <1>5, <1>6

LEMMA FlagErrorStep ==
  ASSUME IInv, NEW t \in Threads, FlagError(t)
  PROVE  IInv'
<1> USE DEF IInv, FlagError, Goto
<1> workers' = workers /\ Threads' = Threads /\ Serial' = Serial
  BY SameThreads
<1>1. TypeOK'
  BY DEF TypeOK, InOrder, Holds
<1>2. InOrder' /\ ScratchExclusive'
  BY DEF TypeOK, InOrder, ScratchExclusive, Holds
<1>3. NothingLost'
  BY DEF TypeOK, NothingLost, Holds, InChannel
<1>4. ThreadControl'
  BY DEF TypeOK, ThreadControl, InOrder, Holds
<1>5. CallerControl' /\ SerialControl'
  BY DEF TypeOK, CallerControl, SerialControl, Finished, Serial
<1>6. AnswerSound'
  BY DEF AnswerSound
<1> QED
  BY <1>1, <1>2, <1>3, <1>4, <1>5, <1>6

LEMMA SendStep ==
  ASSUME IInv, NEW t \in Threads, Send(t)
  PROVE  IInv'
<1> USE DEF IInv, Send, Goto
<1> workers' = workers /\ Threads' = Threads /\ Serial' = Serial
  BY SameThreads
<1>0. claimed[t] \in Cases /\ outcome[claimed[t]] \in Run \cup {"err"}
  BY DEF TypeOK, InOrder, Holds, ThreadControl
<1>1. TypeOK'
  BY <1>0 DEF TypeOK
<1>2. InOrder' /\ ScratchExclusive'
  BY DEF TypeOK, InOrder, ScratchExclusive, Holds
<1>3. NothingLost'
  <2> SUFFICES ASSUME NEW i \in Cases, i < next
               PROVE  \/ \E u \in Threads : (Holds(u)' \/ pc'[u] = "panicked") /\ claimed'[u] = i
                      \/ InChannel(i)'
                      \/ ordered'[i] # Missing
    BY DEF NothingLost
  <2>1. CASE claimed[t] = i
    <3> DEFINE m == [index |-> claimed[t], result |-> outcome[claimed[t]]]
    <3>1. m \in channel' /\ m.index = i
      BY <2>1
    <3> QED
      BY <3>1 DEF InChannel
  <2>2. CASE claimed[t] # i
    BY <2>2 DEF TypeOK, NothingLost, Holds, InChannel
  <2> QED
    BY <2>1, <2>2
<1>4. ThreadControl'
  BY DEF TypeOK, ThreadControl
<1>5. CallerControl' /\ SerialControl'
  BY DEF TypeOK, CallerControl, SerialControl, Finished, Serial
<1>6. AnswerSound'
  BY DEF AnswerSound
<1> QED
  BY <1>1, <1>2, <1>3, <1>4, <1>5, <1>6

-----------------------------------------------------------------------------
(* The steps of the caller *)

LEMMA ReceiveStep ==
  ASSUME IInv, Receive
  PROVE  IInv'
<1> PICK m \in channel :
      /\ ordered' = [ordered EXCEPT ![m.index] = m.result]
      /\ channel' = channel \ {m}
  BY DEF Receive, Slot
<1> USE DEF IInv
<1>0. /\ main = "receive"
      /\ UNCHANGED <<workers, outcome, next, first_error, pc, claimed, main, answer>>
  BY DEF Receive
<1> Threads' = Threads /\ Serial' = Serial
  BY <1>0, SameThreads
<1>1. m \in [index : Cases, result : Run \cup {"err"}]
  BY DEF TypeOK
<1>2. TypeOK'
  BY <1>0, <1>1 DEF TypeOK
<1>3. InOrder' /\ ScratchExclusive'
  BY <1>0, <1>1 DEF TypeOK, InOrder, ScratchExclusive, Holds
<1>4. NothingLost'
  BY <1>0, <1>1 DEF TypeOK, NothingLost, Holds, InChannel
<1>5. ThreadControl'
  BY <1>0 DEF ThreadControl
<1>6. CallerControl' /\ SerialControl'
  BY <1>0 DEF CallerControl, SerialControl
<1>7. AnswerSound'
  BY <1>0 DEF AnswerSound
<1> QED
  BY <1>2, <1>3, <1>4, <1>5, <1>6, <1>7

LEMMA ChannelClosedStep ==
  ASSUME IInv, ChannelClosed
  PROVE  IInv'
<1> USE DEF IInv, ChannelClosed
<1> workers' = workers /\ Threads' = Threads /\ Serial' = Serial
  BY SameThreads
<1>1. TypeOK'
  BY DEF TypeOK
<1>2. InOrder' /\ ScratchExclusive' /\ NothingLost' /\ ThreadControl' /\ SerialControl'
  BY DEF InOrder, ScratchExclusive, NothingLost, ThreadControl, SerialControl, Holds, InChannel
<1>3. CallerControl'
  BY DEF CallerControl, Finished
<1>4. AnswerSound'
  BY DEF AnswerSound
<1> QED
  BY <1>1, <1>2, <1>3, <1>4

\* A step that replies keeps IInv as soon as its answer is one CaseSet allows.
LEMMA ReplyStep ==
  ASSUME IInv, NEW a \in Answer, Reply(a), a # Pending, Decides(outcome, a)
  PROVE  IInv'
<1> USE DEF IInv, Reply
<1> workers' = workers /\ Threads' = Threads /\ Serial' = Serial
  BY SameThreads
<1>1. TypeOK'
  BY DEF TypeOK
<1>2. InOrder' /\ ScratchExclusive' /\ NothingLost' /\ ThreadControl' /\ SerialControl'
  BY DEF InOrder, ScratchExclusive, NothingLost, ThreadControl, SerialControl, Holds, InChannel
<1>3. CallerControl'
  BY DEF CallerControl
<1>4. AnswerSound'
  BY DEF AnswerSound
<1> QED
  BY <1>1, <1>2, <1>3, <1>4

\* The answers are told apart by their kinds.
LEMMA AnswerKinds ==
  /\ Panicked # Pending /\ Unwound # Pending
  /\ \A i : ErrAt(i) # Pending
  /\ \A runs : OkRuns(runs) # Pending
  /\ \A i, j : ErrAt(i) # Skipped(j) /\ Panicked # Skipped(j) /\ Unwound # Skipped(j)
  /\ \A runs, j : OkRuns(runs) # Skipped(j)
BY DEF Pending, Panicked, Unwound, ErrAt, OkRuns, Skipped

LEMMA JoinPanickedStep ==
  ASSUME IInv, JoinPanicked
  PROVE  IInv'
<1>1. PICK t \in Threads : pc[t] = "panicked"
  BY DEF JoinPanicked, JoinError
<1>2. claimed[t] \in Cases /\ outcome[claimed[t]] = "panic"
  BY <1>1 DEF IInv, InOrder, ThreadControl
<1>3. Decides(outcome, Panicked)
  BY <1>2 DEF Decides
<1>4. Panicked \in Answer
  BY DEF Answer
<1> QED
  BY <1>3, <1>4, ReplyStep, AnswerKinds DEF JoinPanicked

\* After the join with no panic, every index that was handed out is filed.
LEMMA FiledBelowNext ==
  ASSUME IInv, main = "join", \A t \in Threads : pc[t] # "panicked"
  PROVE  \A i \in Cases : i < next => ordered[i] = outcome[i] /\ outcome[i] \in Run \cup {"err"}
<1> SUFFICES ASSUME NEW i \in Cases, i < next
             PROVE  ordered[i] = outcome[i] /\ outcome[i] \in Run \cup {"err"}
  OBVIOUS
<1> USE DEF IInv
<1>1. channel = {} /\ \A t \in Threads : ~Holds(t)
  BY DEF CallerControl, Finished, Holds
<1>2. ordered[i] # Missing
  BY <1>1 DEF NothingLost, InChannel
<1> QED
  BY <1>2 DEF InOrder, TypeOK

\* The heart of the argument: the handed out indices are a prefix of the
\* suite, so the first bad entry was filed, and is the first bad case.
LEMMA CollectStep ==
  ASSUME IInv, Collect
  PROVE  IInv'
<1> USE DEF IInv
<1>0. main = "join" /\ (\A t \in Threads : pc[t] # "panicked")
  BY DEF Collect, JoinError
<1>1. \A i \in Cases : i < next => ordered[i] = outcome[i] /\ outcome[i] \in Run \cup {"err"}
  BY <1>0, FiledBelowNext
<1>2. \A i \in Cases : ordered[i] # Missing => i < next /\ ordered[i] = outcome[i]
  BY DEF InOrder
<1>3. CASE AllRun(ordered) /\ Reply(OkRuns(ordered))
  <2>1. \A i \in Cases : ordered[i] = outcome[i] /\ outcome[i] \in Run
    BY <1>2, <1>3 DEF AllRun
  <2>2. ordered = outcome
    BY <2>1 DEF TypeOK
  <2>3. ordered \in [Cases -> Run]
    BY <2>1 DEF TypeOK
  <2>4. OkRuns(ordered) \in Answer
    BY <2>3 DEF Answer
  <2>5. Decides(outcome, OkRuns(ordered))
    BY <2>1, <2>2 DEF Decides, AllRun
  <2> QED
    BY <1>3, <2>4, <2>5, ReplyStep, AnswerKinds
<1>4. ASSUME NEW i \in Cases, FirstBad(ordered, i),
             Reply(IF ordered[i] = Missing THEN Skipped(i) ELSE ErrAt(i))
      PROVE  IInv'
  <2>1. i < next
    <3> SUFFICES ASSUME ~(i < next) PROVE FALSE
      OBVIOUS
    <3>1. PICK t \in Threads : pc[t] = "done"
      <4>1. 1 \in Threads
        BY <1>0 DEF TypeOK, CallerControl, Serial, Threads
      <4> QED
        BY <4>1, <1>0 DEF CallerControl, Finished
    <3>2. next < N
      BY DEF TypeOK
    <3>3. first_error \in Cases /\ outcome[first_error] = "err" /\ first_error < next
      BY <3>1, <3>2 DEF ThreadControl, TypeOK
    <3>4. ordered[first_error] = "err" /\ first_error < i
      BY <1>1, <3>3 DEF TypeOK
    <3> QED
      BY <1>4, <3>3, <3>4 DEF FirstBad
  <2>2. ordered[i] = "err" /\ outcome[i] = "err"
    BY <1>1, <1>4, <2>1 DEF FirstBad
  <2>3. \A j \in Cases : j < i => outcome[j] \in Run
    BY <1>1, <1>4, <2>1 DEF FirstBad, TypeOK
  <2>4. Decides(outcome, ErrAt(i))
    BY <2>2, <2>3 DEF Decides, FirstBad
  <2>5. ErrAt(i) \in Answer
    BY DEF Answer
  <2> QED
    BY <1>4, <2>2, <2>4, <2>5, ReplyStep, AnswerKinds
<1> QED
  BY <1>3, <1>4 DEF Collect, FirstEntry

LEMMA SerialCaseStep ==
  ASSUME IInv, SerialCase
  PROVE  IInv'
<1> USE DEF IInv
<1>0. Serial /\ Threads = {} /\ main = "serial" /\ next \in Cases
  BY DEF SerialCase, TypeOK, Threads, CallerControl, Serial
<1>1. CASE /\ outcome[next] \in Run
           /\ ordered' = [ordered EXCEPT ![next] = outcome[next]]
           /\ next' = next + 1
           /\ UNCHANGED <<workers, outcome, first_error, channel, pc, claimed, main, answer>>
  <2>0. Threads' = Threads /\ Serial' = Serial
    BY <1>1, SameThreads
  <2>1. TypeOK'
    BY <1>0, <1>1, <2>0 DEF TypeOK
  <2>2. InOrder' /\ ScratchExclusive' /\ NothingLost'
    BY <1>0, <1>1, <2>0 DEF TypeOK, InOrder, ScratchExclusive, NothingLost, Holds, InChannel, SerialControl
  <2>3. ThreadControl' /\ CallerControl' /\ SerialControl'
    BY <1>0, <1>1, <2>0 DEF TypeOK, ThreadControl, CallerControl, SerialControl
  <2>4. AnswerSound'
    BY <1>1 DEF AnswerSound
  <2> QED
    BY <2>1, <2>2, <2>3, <2>4
<1>2. \A j \in Cases : j < next => outcome[j] \in Run
  BY <1>0 DEF SerialControl
<1>3. CASE outcome[next] = "err" /\ Reply(ErrAt(next))
  <2>1. Decides(outcome, ErrAt(next))
    BY <1>0, <1>2, <1>3 DEF Decides, FirstBad
  <2>2. ErrAt(next) \in Answer
    BY <1>0 DEF Answer
  <2> QED
    BY <1>3, <2>1, <2>2, ReplyStep, AnswerKinds
<1>4. CASE outcome[next] = "panic" /\ Reply(Unwound)
  <2>1. Decides(outcome, Unwound)
    BY <1>0, <1>4 DEF Decides
  <2>2. Unwound \in Answer
    BY DEF Answer
  <2> QED
    BY <1>4, <2>1, <2>2, ReplyStep, AnswerKinds
<1> QED
  BY <1>1, <1>3, <1>4 DEF SerialCase

LEMMA SerialEndStep ==
  ASSUME IInv, SerialEnd
  PROVE  IInv'
<1> USE DEF IInv
<1>1. \A i \in Cases : ordered[i] = outcome[i] /\ outcome[i] \in Run
  BY DEF SerialEnd, SerialControl, CallerControl, Serial, TypeOK
<1>2. ordered = outcome /\ ordered \in [Cases -> Run]
  BY <1>1 DEF TypeOK
<1>3. OkRuns(ordered) \in Answer
  BY <1>2 DEF Answer
<1>4. Decides(outcome, OkRuns(ordered))
  BY <1>1, <1>2 DEF Decides, AllRun
<1> QED
  BY <1>3, <1>4, ReplyStep, AnswerKinds DEF SerialEnd

-----------------------------------------------------------------------------
(* The theorems *)

LEMMA StutterStep == IInv /\ UNCHANGED vars => IInv'
BY SameThreads DEF IInv, vars, TypeOK, InOrder, NothingLost, ScratchExclusive, ThreadControl,
       CallerControl, SerialControl, AnswerSound, Holds, InChannel, Finished

LEMMA NextInvariant == IInv /\ [Next]_vars => IInv'
<1> SUFFICES ASSUME IInv, [Next]_vars PROVE IInv'
  OBVIOUS
<1>1. ASSUME NEW t \in Threads, Thread(t) PROVE IInv'
  BY <1>1, CheckErrorStep, ClaimStep, RunCaseStep, FlagErrorStep, SendStep DEF Thread
<1>2. CASE Caller
  BY <1>2, ReceiveStep, ChannelClosedStep, JoinPanickedStep, CollectStep, SerialCaseStep,
     SerialEndStep DEF Caller
<1> QED
  BY <1>1, <1>2, StutterStep DEF Next

\* IInv is an invariant of run_case_set, for any number of cases and workers.
THEOREM Invariance == Spec => []IInv
BY InitInvariant, NextInvariant, PTL DEF Spec

\* Type correctness of every variable of run_case_set.
THEOREM TypeCorrect == Spec => []TypeOK
<1>1. IInv => TypeOK
  BY DEF IInv
<1> QED
  BY <1>1, Invariance, PTL

\* No two threads ever share a case, hence a scratch directory.
THEOREM OwnScratch == Spec => []ScratchExclusive
<1>1. IInv => ScratchExclusive
  BY DEF IInv
<1> QED
  BY <1>1, Invariance, PTL

\* The placeholder for a case nobody ran is never what run_case_set answers.
THEOREM NoPlaceholder == Spec => []PlaceholderNeverReturned
<1>1. IInv => PlaceholderNeverReturned
  <2> SUFFICES ASSUME IInv, NEW i \in Cases, answer = Skipped(i) PROVE FALSE
    BY DEF PlaceholderNeverReturned
  <2>1. answer # Pending
    BY DEF Pending, Skipped
  <2>2. Decides(outcome, Skipped(i))
    BY <2>1 DEF IInv, AnswerSound
  <2> QED
    BY <2>2 DEF Decides, Skipped, OkRuns, ErrAt, Panicked, Unwound
<1> QED
  BY <1>1, Invariance, PTL

\* Parallel and serial execution answer alike when no case panics.
THEOREM ScheduleIndependence == Spec => []SameAsSerial
<1>1. IInv => SameAsSerial
  <2> SUFFICES ASSUME IInv, answer # Pending, \A i \in Cases : outcome[i] # "panic"
               PROVE  answer = SerialAnswer(outcome)
    BY DEF SameAsSerial
  <2> USE DEF AllRun, FirstBad, OkRuns, ErrAt
  <2>1. Decides(outcome, answer)
    BY DEF IInv, AnswerSound
  <2>2. CASE AllRun(outcome) /\ answer = OkRuns(outcome)
    BY <2>2 DEF SerialAnswer
  <2>3. ASSUME NEW i \in Cases, FirstBad(outcome, i), answer = ErrAt(i)
        PROVE  answer = SerialAnswer(outcome)
    <3>1. \A j \in Cases : FirstBad(outcome, j) => j = i
      BY <2>3
    <3>2. (CHOOSE j \in Cases : FirstBad(outcome, j)) = i
      BY <2>3, <3>1
    <3> QED
      BY <2>3, <3>2 DEF SerialAnswer
  <2> QED
    BY <2>1, <2>2, <2>3 DEF Decides
<1> QED
  BY <1>1, Invariance, PTL

\* The thread pool implements the abstract specification of run_case_set:
\* one answer, decided by the outcomes in suite order.
THEOREM Refinement == Spec => ImplementsCaseSet
<1>1. Init => Abstract!Init
  BY DEF Init, Abstract!Init, Abstract!Cases, Abstract!Outcome, Abstract!Run,
         Abstract!Pending, Pending
<1>2. IInv /\ IInv' /\ [Next]_vars => [Abstract!Next]_(Abstract!absvars)
  <2> SUFFICES ASSUME IInv, IInv', [Next]_vars
               PROVE  [Abstract!Next]_(Abstract!absvars)
    OBVIOUS
  <2>1. outcome' = outcome
    BY DEF Next, vars, Caller, Thread, CheckError, Claim, RunCase, FlagError, Send, Receive,
           ChannelClosed, JoinPanicked, Collect, Reply, SerialCase, SerialEnd
  <2>2. answer' = answer \/ answer = Pending
    BY DEF Next, vars, Caller, Thread, CheckError, Claim, RunCase, FlagError, Send, Receive,
           ChannelClosed, JoinPanicked, Collect, Reply, SerialCase, SerialEnd, IInv, CallerControl
  <2>3. answer' # Pending => Abstract!Decides(outcome, answer')
    BY <2>1 DEF IInv, AnswerSound, Decides, Abstract!Decides, AllRun, FirstBad, OkRuns, ErrAt,
                Panicked, Unwound, Abstract!AllRun, Abstract!FirstBad, Abstract!OkRuns,
                Abstract!ErrAt, Abstract!Panicked, Abstract!Unwound, Abstract!Run, Abstract!Cases
  <2> QED
    BY <2>1, <2>2, <2>3 DEF Abstract!Next, Abstract!Decide, Abstract!absvars,
                            Abstract!Pending, Pending
<1> QED
  BY <1>1, <1>2, Invariance, PTL DEF Spec, ImplementsCaseSet, Abstract!Spec
=============================================================================
