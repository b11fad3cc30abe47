------------------------------- MODULE ChildIO ------------------------------
(***************************************************************************)
(* How the runner feeds a child process its stdin, waits for it and takes  *)
(* its output: run_command of src/sqlite_parity/engine.rs, which collects  *)
(* the output from pipes ("pipe") or, with --memory-samples, from files,   *)
(* polling the child and its memory ("file"), and invoke_target and        *)
(* invoke_psql of src/beyond_sqlite, which poll against a deadline         *)
(* ("timed").                                                              *)
(*                                                                         *)
(* All of them write the whole stdin first, and nothing else happens until *)
(* it is written.  Text is counted in units of which a pipe holds Cap.     *)
(* The child is any program of at most MaxOps operations: it reads a unit  *)
(* of stdin, writes one to stdout or stderr, or hangs; after the last it   *)
(* exits.  It neither closes a stream before its exit nor passes one on to *)
(* a child of its own.  The memory it has held at most, VmHWM, is taken to *)
(* grow with each operation.                                               *)
(***************************************************************************)
EXTENDS Naturals, Sequences, FiniteSets

CONSTANTS
  Modes,    \* which of the three functions may run the child
  Cap,      \* units a pipe holds
  InLen,    \* units of stdin text, 0 when stdin is null
  MaxOps    \* longest child program: a bound of the model

ASSUME ChildAssumption ==
  /\ Modes \subseteq {"pipe", "file", "timed"}
  /\ Cap \in Nat \ {0}
  /\ InLen \in Nat
  /\ MaxOps \in Nat

Streams == {"out", "err"}

Ops == Streams \cup {"read", "hang"}

Programs == UNION {[1 .. n -> Ops] : n \in 0 .. MaxOps}

VARIABLES
  mode,     \* the function that runs the child
  program,  \* what the child does
  ip,       \* its next operation
  child,    \* "none", "running", "zombie", "reaped"
  how,      \* how it ended: "exit" or "signal"
  stdin,    \* units in its stdin pipe
  open,     \* whether the runner still holds the write end
  held,     \* held[s] : units in the pipe or the file of stream s
  written,  \* units of stdin the runner has written
  got,      \* got[s] : units of stream s the runner has taken
  pc,       \* where the runner is
  expired,  \* whether the deadline has passed
  reused,   \* whether another process has got the pid of the reaped child
  peak,     \* the largest VmHWM seen, 0 when none was
  lived,    \* whether try_wait has found the child running
  result    \* what the function returned

vars == <<mode, program, ip, child, how, stdin, open, held, written, got, pc, expired,
          reused, peak, lived, result>>

memory == <<reused, peak, lived>>

childvars == <<mode, program, ip, child, how>>
pipevars == <<stdin, open, held>>

Init ==
  /\ mode \in Modes
  /\ program \in Programs
  /\ ip = 1
  /\ child = "none"
  /\ how = "none"
  /\ stdin = 0
  /\ open = TRUE
  /\ held = [s \in Streams |-> 0]
  /\ written = 0
  /\ got = [s \in Streams |-> 0]
  /\ pc = "spawn"
  /\ expired = FALSE
  /\ reused = FALSE
  /\ peak = 0
  /\ lived = FALSE
  /\ result = "none"

Return(r) == pc' = "returned" /\ result' = r

-----------------------------------------------------------------------------
(* The child *)

Op == IF ip <= Len(program) THEN program[ip] ELSE "exit"

Read ==
  /\ child = "running"
  /\ Op = "read"
  /\ \/ stdin > 0 /\ stdin' = stdin - 1
     \/ stdin = 0 /\ ~open /\ UNCHANGED stdin       \* end of file
  /\ ip' = ip + 1
  /\ UNCHANGED <<mode, program, child, how, open, held, written, got, pc, expired, memory, result>>

RoomForOneMore(s) == mode = "file" \/ held[s] <= Cap    \* Variant
Room(s) == mode = "file" \/ held[s] < Cap

Emit ==
  /\ child = "running"
  /\ Op \in Streams
  /\ Room(Op)
  /\ held' = [held EXCEPT ![Op] = @ + 1]
  /\ ip' = ip + 1
  /\ UNCHANGED <<mode, program, child, how, stdin, open, written, got, pc, expired, memory, result>>

Exit ==
  /\ child = "running"
  /\ Op = "exit"
  /\ child' = "zombie"
  /\ how' = "exit"
  /\ UNCHANGED <<mode, program, ip, pipevars, written, got, pc, expired, memory, result>>

Child == Read \/ Emit \/ Exit

-----------------------------------------------------------------------------
(* The runner: spawn and stdin *)

\* spawn fails, or in "file" mode creating one of the output files does.
Spawn ==
  /\ pc = "spawn"
  /\ \/ child' = "running" /\ pc' = "write" /\ UNCHANGED result
     \/ Return("spawn_failed") /\ UNCHANGED child
  /\ UNCHANGED <<mode, program, ip, how, pipevars, written, got, expired, memory>>

UnwrittenOffByOne == written <= InLen    \* Variant
Unwritten == written < InLen

\* Variant: write, whose partial writes are not continued.
WroteSome == InLen
Wrote == written + 1

\* write_all, a unit at a time.  It blocks while the pipe is full; once the
\* child is over, nobody can read and the write errs.  The error drops the
\* Child, which neither kills nor waits for the process.
WriteStdin ==
  /\ pc = "write"
  /\ Unwritten
  /\ \/ /\ child = "running"
        /\ stdin < Cap
        /\ stdin' = stdin + 1
        /\ written' = Wrote
        /\ UNCHANGED <<open, pc, result>>
     \/ /\ child = "zombie"
        /\ open' = FALSE
        /\ Return("broken_pipe")
        /\ UNCHANGED <<stdin, written>>
  /\ UNCHANGED <<childvars, held, got, expired, memory>>

AfterStdin == CASE mode = "pipe" -> "drain" [] mode = "file" -> "look" [] OTHER -> "poll"

\* Variant: the write end stays open while the runner waits.
CloseStdinForgotten ==
  /\ pc = "write"
  /\ written = InLen
  /\ pc' = AfterStdin
  /\ UNCHANGED <<childvars, pipevars, written, got, expired, memory, result>>

CloseStdin ==
  /\ pc = "write"
  /\ written = InLen
  /\ open' = FALSE
  /\ pc' = AfterStdin
  /\ UNCHANGED <<childvars, stdin, held, written, got, expired, memory, result>>

-----------------------------------------------------------------------------
(* Mode "pipe": wait_with_output reads both streams to the end, then waits *)

Drain ==
  /\ pc = "drain"
  /\ \E s \in Streams :
       /\ held[s] > 0
       /\ held' = [held EXCEPT ![s] = @ - 1]
       /\ got' = [got EXCEPT ![s] = @ + 1]
  /\ UNCHANGED <<childvars, stdin, open, written, pc, expired, memory, result>>

StdoutAtEnd == held["out"] = 0    \* Variant
AtEnd == \A s \in Streams : held[s] = 0

Wait ==
  /\ pc = "drain"
  /\ child = "zombie"
  /\ AtEnd
  /\ child' = "reaped"
  /\ Return("ok")
  /\ UNCHANGED <<mode, program, ip, how, pipevars, written, got, expired, memory>>

-----------------------------------------------------------------------------
(* Modes "file" and "timed": try_wait in a loop.  Between two rounds the   *)
(* thread sleeps; a round of "timed" looks at the clock after try_wait, a  *)
(* round of "file" at the memory of the pid before it, and after the last. *)

Foreign == MaxOps + 2    \* the memory of another process, more than a child's

\* What /proc/<pid>/status can say.  A zombie has no VmHWM; 0 is no sample.
Sample ==
  CASE child = "running" -> {ip}
    [] reused -> {0, Foreign}
    [] OTHER -> {0}

KeepLatest(old, new) == new    \* Variant
KeepMax(old, new) == IF new > old THEN new ELSE old

\* observe_pid.
Look ==
  /\ pc \in {"look", "look_again"}
  /\ \E sample \in Sample : peak' = KeepMax(peak, sample)
  /\ pc' = IF pc = "look" THEN "poll" ELSE "collect"
  /\ UNCHANGED <<childvars, pipevars, written, got, expired, reused, lived, result>>

\* The kernel gives the pid of a reaped child to a new process.
Reuse ==
  /\ mode = "file"
  /\ child = "reaped"
  /\ ~reused
  /\ reused' = TRUE
  /\ UNCHANGED <<childvars, pipevars, written, got, pc, expired, peak, lived, result>>

\* Variant: a child still running after try_wait is taken for one that ended.
StillRunningGivesUp == "collect"
StillRunning == IF mode = "timed" THEN "clock" ELSE "look"

Ended == IF mode = "timed" THEN "collect" ELSE "look_again"

Poll ==
  /\ pc = "poll"
  /\ \/ child = "zombie" /\ child' = "reaped" /\ pc' = Ended /\ UNCHANGED lived
     \/ child = "running" /\ pc' = StillRunning /\ lived' = TRUE /\ UNCHANGED child
  /\ UNCHANGED <<mode, program, ip, how, pipevars, written, got, expired, reused, peak, result>>

AfterClock == IF expired THEN "kill" ELSE "poll"

Clock ==
  /\ pc = "clock"
  /\ pc' = AfterClock
  /\ UNCHANGED <<childvars, pipevars, written, got, expired, memory, result>>

\* The clock starts when stdin is closed.
Expire ==
  /\ mode = "timed"
  /\ pc \in {"poll", "clock"}
  /\ ~expired
  /\ expired' = TRUE
  /\ UNCHANGED <<childvars, pipevars, written, got, pc, memory, result>>

\* Variant: the killed child is not waited for.
KillWithoutWait ==
  /\ pc = "kill"
  /\ child' = "zombie"
  /\ how' = IF child = "running" THEN "signal" ELSE how
  /\ Return("timeout")
  /\ UNCHANGED <<mode, program, ip, pipevars, written, got, expired, memory>>

\* kill and wait; a child that has exited since try_wait is only waited for.
Kill ==
  /\ pc = "kill"
  /\ child' = "reaped"
  /\ how' = IF child = "running" THEN "signal" ELSE how
  /\ Return("timeout")
  /\ UNCHANGED <<mode, program, ip, pipevars, written, got, expired, memory>>

\* wait_with_output on what the pipes still hold, or the files read back,
\* which fails when a file is gone or is not UTF-8.
Collect ==
  /\ pc = "collect"
  /\ \/ /\ got' = held
        /\ held' = [s \in Streams |-> 0]
        /\ Return("ok")
     \/ /\ mode = "file"
        /\ Return("unreadable")
        /\ UNCHANGED <<held, got>>
  /\ UNCHANGED <<childvars, stdin, open, written, expired, memory>>

-----------------------------------------------------------------------------
Runner ==
  Spawn \/ WriteStdin \/ CloseStdin \/ Drain \/ Wait \/ Look \/ Poll \/ Clock \/ Kill \/ Collect

Next == Runner \/ Child \/ Expire \/ Reuse

\* The OS schedules the runner and the child, and time passes.
Spec == Init /\ [][Next]_vars /\ WF_vars(Runner) /\ WF_vars(Child) /\ WF_vars(Expire)

-----------------------------------------------------------------------------
(* Properties *)

TypeOK ==
  /\ mode \in Modes
  /\ program \in Programs
  /\ ip \in 1 .. Len(program) + 1
  /\ child \in {"none", "running", "zombie", "reaped"}
  /\ how \in {"none", "exit", "signal"}
  /\ stdin \in 0 .. Cap
  /\ open \in BOOLEAN
  /\ held \in [Streams -> IF mode = "file" THEN Nat ELSE 0 .. Cap]
  /\ written \in 0 .. InLen
  /\ got \in [Streams -> Nat]
  /\ pc \in {"spawn", "write", "drain", "look", "poll", "look_again", "clock", "kill", "collect", "returned"}
  /\ expired \in BOOLEAN
  /\ reused \in BOOLEAN
  /\ peak \in 0 .. Foreign
  /\ lived \in BOOLEAN
  /\ result \in {"none", "ok", "spawn_failed", "broken_pipe", "timeout", "unreadable"}

\* How often op occurs among the first k operations of the child.
Count(op, k) == Cardinality({j \in 1 .. k : program[j] = op})

\* The child cannot complete operation k while the runner is writing stdin.
Blocks(k) ==
  \/ program[k] = "hang"
  \/ program[k] \in Streams /\ mode # "file" /\ Count(program[k], k) > Cap

\* The child blocks before it has read enough of stdin for the rest of it to
\* fit in the pipe: runner and child wait for each other.
Wedges == \E k \in DOMAIN program : Blocks(k) /\ Count("read", k) + Cap < InLen

Hangs == \E k \in DOMAIN program : program[k] = "hang"

\* No deadline applies to the writing of stdin, nor any to the parity suites.
NeverAnswers == Wedges \/ (mode # "timed" /\ Hangs)

\* The function returns for every child but those of NeverAnswers: a child
\* that reads its stdin before it writes more than Cap, and does not hang
\* where no deadline applies, is never waited for in vain.
Answers == NeverAnswers \/ <>(pc = "returned")

\* And for those it never returns: the characterisation is exact.
WedgedForever == NeverAnswers => pc # "returned" \/ result = "spawn_failed"

\* An Ok result holds all the child wrote, on both streams, and the child ended
\* by itself and was reaped.
CapturesAll ==
  result = "ok" =>
    /\ \A s \in Streams : got[s] = Count(s, Len(program))
    /\ how = "exit" /\ child = "reaped"

\* A broken pipe is blamed only on a child that does not read all its stdin:
\* a child that does is never reported as an error, however the two interleave.
BrokenPipeNeedsEarlyExit == result = "broken_pipe" => Count("read", Len(program)) < InLen

\* Nothing outlives the call but the child whose stdin broke: after any other
\* answer no process is left running or unreaped.
NoChildLeft ==
  pc = "returned" => child = (CASE result = "broken_pipe" -> "zombie"
                                [] result = "spawn_failed" -> "none"
                                [] OTHER -> "reaped")

\* With a deadline nobody drains the pipes, so a child that writes more than a
\* pipe holds times out whatever its speed.
OutputOverCapTimesOut ==
  mode = "timed" /\ result = "ok" => \A s \in Streams : Count(s, Len(program)) <= Cap

\* memory_status and peak_rss_kb: a child that lived through a round of the loop
\* is reported as sampled, whatever the looks after its end found; and the peak
\* is the child's own, unless its pid was reused before the look after the reap.
PeakOfChild ==
  mode = "file" /\ result = "ok" =>
    /\ lived => peak > 0
    /\ peak > Len(program) + 1 => reused
=============================================================================
