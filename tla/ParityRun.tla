------------------------------ MODULE ParityRun -----------------------------
(***************************************************************************)
(* compare_cases of src/sqlite_parity/runner.rs, which the sqlite_parity   *)
(* and memory suites run: the skipped cases are recorded first, then       *)
(* run_case_set (CaseSet) runs every case, and only if it answers Ok are   *)
(* the records of the samples appended, case by case in suite order.       *)
(*                                                                         *)
(* An append may fail or the process may die at any point, leaving the     *)
(* last line of the raw file torn: append_jsonl writes the record and its  *)
(* newline with separate writes.                                           *)
(***************************************************************************)
EXTENDS SuiteRecords

VARIABLES
  nskip,     \* how many cases the capability partition skipped
  seen,      \* seen[i][k] : what sample k of case i yields
  raw,       \* the complete lines of the raw file
  torn,      \* whether an incomplete line follows them
  phase,     \* "skips", "append", "over"
  at,        \* the case being recorded
  sample,    \* its next sample
  summary,   \* the RunSummary
  exit       \* what the suite ended with

vars == <<nskip, seen, raw, torn, phase, at, sample, summary, exit>>

Sample(i) == CaseOutcome(seen[i])

Init ==
  /\ nskip \in 0 .. MaxSkip
  /\ seen \in [Cases -> [Samples -> SampleOutcome]]
  /\ raw = <<>>        \* prepare_output truncated it
  /\ torn = FALSE
  /\ phase = "skips"
  /\ at = N
  /\ sample = 0
  /\ summary = [total |-> 0, passed |-> 0, failed |-> 0, skipped |-> 0]
  /\ exit = "none"

End(how) == phase' = "over" /\ exit' = how

\* append_jsonl writes the whole line, or errs after part of it, or before.
Append_jsonl(record) == raw' = Append(raw, record) /\ UNCHANGED <<torn, phase, exit>>

AppendFails == torn' \in BOOLEAN /\ End("error") /\ UNCHANGED raw

\* The counts move before the artifact and the record are written.
AppendSkip ==
  /\ phase = "skips"
  /\ at \in SkippedCases(nskip)
  /\ summary' = [summary EXCEPT !.total = @ + 1, !.skipped = @ + 1]
  /\ at' = at + 1
  /\ Append_jsonl(SkipRecord(at)) \/ AppendFails
  /\ UNCHANGED <<nskip, seen, sample>>

\* What run_case_set may answer is what CaseSet promises (WorkerPool shows
\* that the threads keep the promise).  An error or a panic ends the suite
\* with nothing more recorded.
\* Variant: the runs of the cases before the first error are recorded.
RunCaseSetKeepsRuns ==
  /\ phase = "skips"
  /\ at = N + nskip
  /\ phase' = "append" /\ at' = 0 /\ UNCHANGED exit
  /\ UNCHANGED <<nskip, seen, raw, torn, sample, summary>>

RunCaseSet ==
  /\ phase = "skips"
  /\ at = N + nskip
  /\ \E a \in Answer :
       /\ Decides([i \in Cases |-> Sample(i)], a)
       /\ IF a.kind = "ok"
            THEN phase' = "append" /\ at' = 0 /\ UNCHANGED exit
            ELSE End("error") /\ UNCHANGED at
  /\ UNCHANGED <<nskip, seen, raw, torn, sample, summary>>

AppendSample ==
  /\ phase = "append"
  /\ at \in Cases
  /\ sample \in Samples
  /\ sample' = sample + 1
  /\ Append_jsonl(SampleRecord(at, sample, seen[at][sample])) \/ AppendFails
  /\ UNCHANGED <<nskip, seen, at, summary>>

Tally(i) ==
  IF Sample(i) = "failed"
    THEN [summary EXCEPT !.total = @ + 1, !.failed = @ + 1]
    ELSE [summary EXCEPT !.total = @ + 1, !.passed = @ + 1]

\* Variant: the samples after the first of a case are taken for recorded.
FinishCaseEarly ==
  /\ phase = "append"
  /\ at \in Cases
  /\ sample = 1
  /\ summary' = Tally(at)
  /\ at' = at + 1
  /\ sample' = 0
  /\ UNCHANGED <<nskip, seen, raw, torn, phase, exit>>

FinishCase ==
  /\ phase = "append"
  /\ at \in Cases
  /\ sample = T
  /\ summary' = Tally(at)
  /\ at' = at + 1
  /\ sample' = 0
  /\ UNCHANGED <<nskip, seen, raw, torn, phase, exit>>

\* finish_summary bails when a case failed.
FinishSummary ==
  /\ phase = "append"
  /\ at = N
  /\ End(IF summary.failed > 0 THEN "failed" ELSE "ok")
  /\ UNCHANGED <<nskip, seen, raw, torn, at, sample, summary>>

\* The process is killed, perhaps in the middle of a line.
Crash ==
  /\ phase # "over"
  /\ torn' \in BOOLEAN
  /\ End("crashed")
  /\ UNCHANGED <<nskip, seen, raw, at, sample, summary>>

Next ==
  \/ AppendSkip \/ RunCaseSet \/ AppendSample \/ FinishCase \/ FinishSummary
  \/ Crash

Spec == Init /\ [][Next]_vars

-----------------------------------------------------------------------------
(* Properties *)

TypeOK ==
  /\ nskip \in 0 .. MaxSkip
  /\ seen \in [Cases -> [Samples -> SampleOutcome]]
  /\ raw \in Seq([case : Nat, role : {"skipped", "warmup", "measured"}, rep : Nat,
                   status : {"passed", "failed", "skipped"}])
  /\ torn \in BOOLEAN
  /\ phase \in {"skips", "append", "over"}
  /\ phase = "skips" => at \in N .. N + nskip
  /\ phase = "append" => at \in 0 .. N
  /\ sample \in 0 .. T
  /\ summary \in [total : Nat, passed : Nat, failed : Nat, skipped : Nat]
  /\ exit \in {"none", "ok", "failed", "error", "crashed"}

\* The raw file a run is meant to leave: the skips, then every sample of every
\* case in suite order.
Complete == Layout([n \in 1 .. nskip |-> N + n - 1], [n \in 1 .. N |-> n - 1], seen)

\* A case that errs costs the records of every case, also those that ran: the
\* samples are appended only after run_case_set has answered Ok.
AllOrNothing ==
  (\E i \in Cases : Sample(i) \notin Run) => \A r \in Records(raw) : r.case \in SkippedCases(nskip)
=============================================================================
