------------------------------ MODULE CaseSet -------------------------------
(***************************************************************************)
(* What run_case_set (src/sqlite_parity/runner.rs) promises to             *)
(* compare_cases, whatever the number of workers: one answer, decided by   *)
(* the outcomes of the cases in suite order and not by the schedule.       *)
(*                                                                         *)
(*  - all cases ran: the runs, in suite order;                             *)
(*  - otherwise, the error of the FIRST case that errs, provided no        *)
(*    earlier case panics: the same error the one-worker loop stops at;    *)
(*  - if some case panics, "worker thread panicked" is possible too, and   *)
(*    with one worker the panic unwinds the caller.                        *)
(***************************************************************************)
EXTENDS CaseOutcomes

VARIABLES outcome,   \* outcome[i] : what running case i yields
          answer     \* what run_case_set has returned

absvars == <<outcome, answer>>

Init ==
  /\ outcome \in [Cases -> Outcome]
  /\ answer = Pending

Decide ==
  /\ answer = Pending
  /\ Decides(outcome, answer')
  /\ UNCHANGED outcome

Next == Decide

Spec == Init /\ [][Next]_absvars
=============================================================================
