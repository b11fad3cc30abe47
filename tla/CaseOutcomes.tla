---------------------------- MODULE CaseOutcomes ----------------------------
(***************************************************************************)
(* The vocabulary shared by the abstract specification of run_case_set     *)
(* (CaseSet) and the thread pool that implements it (WorkerPool): what     *)
(* running one case can yield, and what run_case_set can answer.           *)
(***************************************************************************)
EXTENDS Integers

CONSTANT N      \* number of runnable cases, cases.len()

ASSUME NAssumption == N \in Nat

Cases == 0 .. N-1

(***************************************************************************)
(* run_one_case returns Ok(CaseRun) with `failed` false or true, returns   *)
(* Err (spawn, pipe, file or artifact failure), or panics (eprintln! of a  *)
(* progress or failure line on a closed stderr).                           *)
(***************************************************************************)
Run == {"passed", "failed"}
Outcome == Run \cup {"err", "panic"}

(***************************************************************************)
(* What run_case_set answers.  Skipped(i) is the placeholder error         *)
(* "sqlite parity worker skipped case i"; Panicked is "sqlite parity       *)
(* worker thread panicked"; Unwound is a panic on the caller's own thread, *)
(* which leaves the function without an answer.                            *)
(***************************************************************************)
Pending == [kind |-> "pending"]
OkRuns(runs) == [kind |-> "ok", runs |-> runs]
ErrAt(i) == [kind |-> "err", at |-> i]
Skipped(i) == [kind |-> "skipped", at |-> i]
Panicked == [kind |-> "panicked"]
Unwound == [kind |-> "unwound"]

Answer == {Pending, Panicked, Unwound}
            \cup {OkRuns(runs) : runs \in [Cases -> Run]}
            \cup {ErrAt(i) : i \in Cases} \cup {Skipped(i) : i \in Cases}

(***************************************************************************)
(* Case i is the first of o, in suite order, that is not an Ok(CaseRun).   *)
(***************************************************************************)
FirstBad(o, i) ==
  /\ o[i] \notin Run
  /\ \A j \in Cases : j < i => o[j] \in Run

AllRun(o) == \A i \in Cases : o[i] \in Run

(***************************************************************************)
(* The answers that the outcomes o of the cases allow.                     *)
(***************************************************************************)
Decides(o, a) ==
  \/ AllRun(o) /\ a = OkRuns(o)
  \/ \E i \in Cases : FirstBad(o, i) /\ o[i] = "err" /\ a = ErrAt(i)
  \/ a \in {Panicked, Unwound} /\ \E i \in Cases : o[i] = "panic"
=============================================================================
