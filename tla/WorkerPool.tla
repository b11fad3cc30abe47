----------------------------- MODULE WorkerPool -----------------------------
(***************************************************************************)
(* run_case_set of src/sqlite_parity/runner.rs: `workers` threads take     *)
(* case indices from a shared counter, run the cases, and send what each   *)
(* case yielded over a channel to the caller, which files the results by   *)
(* index, joins the threads and answers.                                   *)
(*                                                                         *)
(* A step is one access to state another thread can see: the error flag,   *)
(* the counter, the channel.  The outcome of a case is fixed in Init and   *)
(* unknown to the pool until a thread has run the case.  The channel is a  *)
(* set: mpsc delivers in the order of the sends, and the caller here may   *)
(* receive in any order, which only adds behaviours.                       *)
(*                                                                         *)
(* A definition marked "Variant" is a plausible bug in the one it stands   *)
(* before.  No specification uses it: the properties are shown to notice   *)
(* it when it takes that one's place.                                      *)
(***************************************************************************)
EXTENDS CaseOutcomes, FiniteSets

CONSTANT W      \* resolve_workers: `auto` or a positive integer, at most W

ASSUME WAssumption == W \in Nat \ {0}

Missing == "missing"    \* ordered[i] is None
NoCase == -1            \* no index, or first_error is None

VARIABLES
  workers,      \* the argument of that name
  outcome,      \* what running each case yields
  next,         \* the AtomicUsize, or the position of the serial iterator
  first_error,  \* the case whose error the mutex holds
  channel,      \* results sent and not yet received
  ordered,      \* the caller's vector of results
  pc,           \* where each thread is in its loop
  claimed,      \* the index each thread fetched last
  main,         \* where the caller is
  answer        \* what run_case_set returned

vars == <<workers, outcome, next, first_error, channel, ordered, pc, claimed, main, answer>>

Serial == workers <= 1 \/ N <= 1

Threads == IF Serial THEN {} ELSE 1 .. (IF workers <= N THEN workers ELSE N)

Init ==
  /\ workers \in 1 .. W
  /\ outcome \in [Cases -> Outcome]
  /\ next = 0
  /\ first_error = NoCase
  /\ channel = {}
  /\ ordered = [i \in Cases |-> Missing]
  /\ pc = [t \in Threads |-> "check"]
  /\ claimed = [t \in Threads |-> NoCase]
  /\ main = IF Serial THEN "serial" ELSE "receive"
  /\ answer = Pending

-----------------------------------------------------------------------------
(* The threads *)

Goto(t, label) == pc' = [pc EXCEPT ![t] = label]

\* The loop is left once some case has erred.
AfterCheckSpins == IF first_error # NoCase THEN "check" ELSE "claim"    \* Variant
AfterCheck == IF first_error # NoCase THEN "done" ELSE "claim"

CheckError(t) ==
  /\ pc[t] = "check"
  /\ Goto(t, AfterCheck)
  /\ UNCHANGED <<workers, outcome, next, first_error, channel, ordered, claimed, main, answer>>

\* cases.get(index): a thread that is past the last case leaves the loop.
HasCaseOffByOne(index) == index <= N    \* Variant
HasCase(index) == index < N

Take(t, index) ==
  IF HasCase(index)
    THEN claimed' = [claimed EXCEPT ![t] = index] /\ Goto(t, "run")
    ELSE UNCHANGED claimed /\ Goto(t, "done")

\* Variant: the counter is loaded where it should be fetched and added to.
ClaimByLoad(t) ==
  /\ pc[t] = "claim"
  /\ Take(t, next)
  /\ UNCHANGED <<workers, outcome, next, first_error, channel, ordered, main, answer>>

\* fetch_add.  The counter stays within N + |Threads|: each thread overshoots
\* at most once.
Claim(t) ==
  /\ pc[t] = "claim"
  /\ next' = next + 1
  /\ Take(t, next)
  /\ UNCHANGED <<workers, outcome, first_error, channel, ordered, main, answer>>

\* run_one_case returned or panicked.  A panicking thread drops its sender.
AfterCase(result) ==
  CASE result = "panic" -> "panicked"
    [] result = "err" -> "flag"
    [] OTHER -> "send"

RunCase(t) ==
  /\ pc[t] = "run"
  /\ Goto(t, AfterCase(outcome[claimed[t]]))
  /\ UNCHANGED <<workers, outcome, next, first_error, channel, ordered, claimed, main, answer>>

\* A later error overwrites an earlier one: the flag is only tested, its
\* text is never reported.
FlagError(t) ==
  /\ pc[t] = "flag"
  /\ first_error' = claimed[t]
  /\ Goto(t, "send")
  /\ UNCHANGED <<workers, outcome, next, channel, ordered, claimed, main, answer>>

\* The receiver outlives the senders, so send never fails.
Send(t) ==
  /\ pc[t] = "send"
  /\ channel' = channel \cup {[index |-> claimed[t], result |-> outcome[claimed[t]]]}
  /\ Goto(t, "check")
  /\ UNCHANGED <<workers, outcome, next, first_error, ordered, claimed, main, answer>>

Thread(t) == CheckError(t) \/ Claim(t) \/ RunCase(t) \/ FlagError(t) \/ Send(t)

-----------------------------------------------------------------------------
(* The caller *)

SlotInArrivalOrder(m) == Cardinality({i \in Cases : ordered[i] # Missing})    \* Variant
Slot(m) == m.index

Receive ==
  /\ main = "receive"
  /\ \E m \in channel :
       /\ ordered' = [ordered EXCEPT ![Slot(m)] = m.result]
       /\ channel' = channel \ {m}
  /\ UNCHANGED <<workers, outcome, next, first_error, pc, claimed, main, answer>>

Finished(t) == pc[t] \in {"done", "panicked"}

\* The receiving loop ends when every sender is dropped and nothing is left.
ChannelClosed ==
  /\ main = "receive"
  /\ channel = {}
  /\ \A t \in Threads : Finished(t)
  /\ main' = "join"
  /\ UNCHANGED <<workers, outcome, next, first_error, channel, ordered, pc, claimed, answer>>

Reply(a) ==
  /\ answer' = a
  /\ main' = "returned"
  /\ UNCHANGED <<workers, outcome, next, first_error, channel, ordered, pc, claimed>>

JoinError == \E t \in Threads : pc[t] = "panicked"

\* join() of each handle: a panicked thread wins over every result.
JoinPanicked ==
  /\ main = "join"
  /\ JoinError
  /\ Reply(Panicked)

FlaggedEntry(i) == first_error = i /\ ordered[i] \notin Run    \* Variant
FirstEntry(i) == FirstBad(ordered, i)

\* The fold over `ordered`: the first entry that is not Ok is the answer, a
\* missing entry being the error "worker skipped case i".
Collect ==
  /\ main = "join"
  /\ ~JoinError
  /\ \/ AllRun(ordered) /\ Reply(OkRuns(ordered))
     \/ \E i \in Cases :
          /\ FirstEntry(i)
          /\ Reply(IF ordered[i] = Missing THEN Skipped(i) ELSE ErrAt(i))

-----------------------------------------------------------------------------
(* One worker, or at most one case: the caller runs the cases itself *)

SerialCase ==
  /\ main = "serial"
  /\ next < N
  /\ \/ /\ outcome[next] \in Run
        /\ ordered' = [ordered EXCEPT ![next] = outcome[next]]
        /\ next' = next + 1
        /\ UNCHANGED <<workers, outcome, first_error, channel, pc, claimed, main, answer>>
     \/ outcome[next] = "err" /\ Reply(ErrAt(next))
     \/ outcome[next] = "panic" /\ Reply(Unwound)

SerialEnd ==
  /\ main = "serial"
  /\ next = N
  /\ Reply(OkRuns(ordered))

-----------------------------------------------------------------------------
Caller == Receive \/ ChannelClosed \/ JoinPanicked \/ Collect \/ SerialCase \/ SerialEnd

Next == Caller \/ \E t \in Threads : Thread(t)

\* The OS schedules every thread, and every case's children end.
Spec ==
  /\ Init /\ [][Next]_vars
  /\ WF_vars(Caller)
  /\ \A t \in 1 .. W : WF_vars(t \in Threads /\ Thread(t))

-----------------------------------------------------------------------------
(* Properties *)

\* Every variable has its type: the one type invariant of this module.
TypeOK ==
  /\ workers \in 1 .. W
  /\ outcome \in [Cases -> Outcome]
  /\ next \in Nat
  /\ first_error \in Cases \cup {NoCase}
  /\ channel \subseteq [index : Cases, result : Run \cup {"err"}]
  /\ ordered \in [Cases -> Run \cup {"err", Missing}]
  /\ pc \in [Threads -> {"check", "claim", "run", "flag", "send", "done", "panicked"}]
  /\ claimed \in [Threads -> Cases \cup {NoCase}]
  /\ main \in {"serial", "receive", "join", "returned"}
  /\ answer \in Answer

\* No two threads are ever at work on the same case, so the scratch directory
\* <case>-<engine>-<pid> that run_case removes and recreates has one owner.
Holds(t) == pc[t] \in {"run", "flag", "send"}

ScratchExclusive ==
  \A t, u \in Threads : Holds(t) /\ Holds(u) /\ claimed[t] = claimed[u] => t = u

\* The placeholder "sqlite parity worker skipped case i" is never the answer:
\* every path that leaves an entry empty answers with something else.
PlaceholderNeverReturned == \A i \in Cases : answer # Skipped(i)

\* The answer when no case panics is the one the serial loop gives, whatever
\* the schedule: all the runs in suite order, or the lowest erring case.
SerialAnswer(o) ==
  IF AllRun(o) THEN OkRuns(o) ELSE ErrAt(CHOOSE i \in Cases : FirstBad(o, i))

SameAsSerial ==
  answer # Pending /\ (\A i \in Cases : outcome[i] # "panic")
    => answer = SerialAnswer(outcome)

\* README.md says of --workers that "execution is serial in this release": at
\* most one thread is running a case at any time.
SerialExecution == \A t, u \in Threads : pc[t] = "run" /\ pc[u] = "run" => t = u

\* run_case_set implements its promise to compare_cases.
Abstract == INSTANCE CaseSet

ImplementsCaseSet == Abstract!Spec

\* run_case_set answers: no schedule, error or panic leaves a thread looping
\* or the caller waiting on a channel nobody will close.
EventuallyAnswers == <>(answer # Pending)

-----------------------------------------------------------------------------
(* The inductive invariant behind the safety properties *)

\* Indices are handed out in order, each to one thread.
InOrder ==
  /\ \A t \in Threads :
       Holds(t) \/ pc[t] = "panicked" => claimed[t] \in Cases /\ claimed[t] < next
  /\ \A i \in Cases : ordered[i] # Missing => i < next /\ ordered[i] = outcome[i]
  /\ \A m \in channel : m.index < next /\ m.result = outcome[m.index]

\* An index that was handed out is held, lost to a panic, in the channel or
\* filed.
InChannel(i) == \E m \in channel : m.index = i

NothingLost ==
  \A i \in Cases : i < next =>
    \/ \E t \in Threads : (Holds(t) \/ pc[t] = "panicked") /\ claimed[t] = i
    \/ InChannel(i)
    \/ ordered[i] # Missing

\* What a thread's place in its loop, and the flag, imply.
ThreadControl ==
  /\ \A t \in Threads :
       /\ pc[t] = "flag" => outcome[claimed[t]] = "err"
       /\ pc[t] = "send" => outcome[claimed[t]] # "panic"
       /\ pc[t] = "panicked" => outcome[claimed[t]] = "panic"
       /\ pc[t] = "done" => first_error # NoCase \/ next >= N
  /\ first_error # NoCase => outcome[first_error] = "err" /\ first_error < next

\* The caller joins only when the channel is drained and every thread is over.
CallerControl ==
  /\ main = "join" => channel = {} /\ \A t \in Threads : Finished(t)
  /\ main # "returned" => (main = "serial" <=> Serial)
  /\ answer = Pending <=> main # "returned"

\* The serial loop has run the cases before its position, all of them Ok.
SerialControl ==
  Serial => /\ next <= N
            /\ \A i \in Cases : i < next => ordered[i] = outcome[i] /\ outcome[i] \in Run

AnswerSound == answer # Pending => Decides(outcome, answer)

IInv == TypeOK /\ InOrder /\ NothingLost /\ ScratchExclusive
          /\ ThreadControl /\ CallerControl /\ SerialControl /\ AnswerSound
=============================================================================
