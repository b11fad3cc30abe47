------------------------------- MODULE RawFile ------------------------------
(***************************************************************************)
(* What a suite run promises to whoever reads its raw JSONL file, whether  *)
(* it records everything at the end (compare_cases, module ParityRun) or   *)
(* as it goes (rql_phase1, module RqlRun): the file is always the start of *)
(* one sequence of records, the exit "ok" or "failed" comes only with the  *)
(* whole sequence, and says whether a record of it failed.  A run that     *)
(* errs or dies may leave any prefix, and after it part of a line.         *)
(***************************************************************************)
EXTENDS Sequences, Naturals

VARIABLES
  plan,   \* the records of the cases in suite order, never written as such
  raw,    \* the complete lines of the file
  torn,   \* whether part of a line follows them
  exit    \* what the run ended with

filevars == <<plan, raw, torn, exit>>

Init == raw = <<>> /\ torn = FALSE /\ exit = "none"

AppendNext ==
  /\ exit = "none"
  /\ Len(raw) < Len(plan)
  /\ raw' = Append(raw, plan[Len(raw) + 1])
  /\ UNCHANGED <<plan, torn, exit>>

Verdict == IF \E n \in DOMAIN raw : raw[n].status = "failed" THEN "failed" ELSE "ok"

Finish ==
  /\ exit = "none"
  /\ raw = plan
  /\ exit' = Verdict
  /\ UNCHANGED <<plan, raw, torn>>

Abort ==
  /\ exit = "none"
  /\ exit' \in {"error", "crashed"}
  /\ torn' \in BOOLEAN
  /\ UNCHANGED <<plan, raw>>

Next == AppendNext \/ Finish \/ Abort

Spec == Init /\ [][Next]_filevars
=============================================================================
