------------------------------- MODULE RqlRun -------------------------------
(***************************************************************************)
(* run of src/sqlite_parity/rql_phase1.rs.  The cases the capability       *)
(* partition skipped are recorded first; then every runnable case is       *)
(* rewritten to RQL, and a case that cannot be is recorded as skipped;     *)
(* then the rewritten cases run one after the other, on one thread         *)
(* whatever --workers says, and each sample is recorded as soon as it has  *)
(* run.  A sample that errs ends the suite and leaves the records before   *)
(* it in the file, where compare_cases would leave only the skips.         *)
(***************************************************************************)
EXTENDS SuiteRecords

VARIABLES
  nskip,       \* how many cases the capability partition skipped
  rewritable,  \* the cases rewrite_case lowers to RQL
  seen,        \* seen[i][k] : what sample k of case i yields
  raw,         \* the complete lines of the raw file
  torn,        \* whether an incomplete line follows them
  phase,       \* "skips", "rewrite", "run", "over"
  at,          \* the case at hand
  sample,      \* its next sample
  runnable,    \* the rewritten cases
  failed,      \* whether a sample of the case at hand was a mismatch
  summary,     \* the RunSummary
  exit         \* what the suite ended with

vars == <<nskip, rewritable, seen, raw, torn, phase, at, sample, runnable, failed, summary, exit>>

Init ==
  /\ nskip \in 0 .. MaxSkip
  /\ rewritable \in SUBSET Cases
  /\ seen \in [Cases -> [Samples -> SampleOutcome]]
  /\ raw = <<>>
  /\ torn = FALSE
  /\ phase = "skips"
  /\ at = N
  /\ sample = 0
  /\ runnable = <<>>
  /\ failed = FALSE
  /\ summary = [total |-> 0, passed |-> 0, failed |-> 0, skipped |-> 0]
  /\ exit = "none"

End(how) == phase' = "over" /\ exit' = how

\* append_jsonl writes the whole line, or errs after part of it, or before.
Append_jsonl(record) == raw' = Append(raw, record) /\ UNCHANGED <<torn, phase, exit>>

AppendFails == torn' \in BOOLEAN /\ End("error") /\ UNCHANGED raw

\* append_skip counts the case before the artifact and the record are written.
Append_skip(id) ==
  /\ summary' = [summary EXCEPT !.total = @ + 1, !.skipped = @ + 1]
  /\ Append_jsonl(SkipRecord(id)) \/ AppendFails

SkipCase ==
  /\ phase = "skips"
  /\ at \in SkippedCases(nskip)
  /\ Append_skip(at)
  /\ at' = at + 1
  /\ UNCHANGED <<nskip, rewritable, seen, sample, runnable, failed>>

SkipsEnd ==
  /\ phase = "skips"
  /\ at = N + nskip
  /\ phase' = "rewrite"
  /\ at' = 0
  /\ UNCHANGED <<nskip, rewritable, seen, raw, torn, sample, runnable, failed, summary, exit>>

Rewrite ==
  /\ phase = "rewrite"
  /\ at \in Cases
  /\ at' = at + 1
  /\ IF at \in rewritable
       THEN runnable' = Append(runnable, at) /\ UNCHANGED <<raw, torn, phase, summary, exit>>
       ELSE Append_skip(at) /\ UNCHANGED runnable
  /\ UNCHANGED <<nskip, rewritable, seen, sample, failed>>

RewriteEnd ==
  /\ phase = "rewrite"
  /\ at = N
  /\ phase' = "run"
  /\ at' = 1
  /\ UNCHANGED <<nskip, rewritable, seen, raw, torn, sample, runnable, failed, summary, exit>>

Running == phase = "run" /\ at \in DOMAIN runnable

\* Both engines run the sample; an error, or a panic of the failure message,
\* leaves the function at once.
RunSample ==
  /\ Running
  /\ sample \in Samples
  /\ LET i == runnable[at]
         result == seen[i][sample]
     IN  \/ /\ result \in {"err", "panic"}
            /\ End(IF result = "err" THEN "error" ELSE "crashed")
            /\ UNCHANGED <<raw, torn, sample, failed>>
         \/ /\ result \in {"match", "mismatch"}
            /\ sample' = sample + 1
            /\ failed' = (failed \/ result = "mismatch")
            /\ Append_jsonl(SampleRecord(i, sample, result)) \/ AppendFails
  /\ UNCHANGED <<nskip, rewritable, seen, at, runnable, summary>>

\* Variant: `failed` keeps its value from one case to the next.
FinishCaseStaleFlag ==
  /\ Running
  /\ sample = T
  /\ summary' = IF failed THEN [summary EXCEPT !.total = @ + 1, !.failed = @ + 1]
                          ELSE [summary EXCEPT !.total = @ + 1, !.passed = @ + 1]
  /\ at' = at + 1
  /\ sample' = 0
  /\ UNCHANGED <<nskip, rewritable, seen, raw, torn, phase, runnable, failed, exit>>

FinishCase ==
  /\ Running
  /\ sample = T
  /\ summary' = IF failed THEN [summary EXCEPT !.total = @ + 1, !.failed = @ + 1]
                          ELSE [summary EXCEPT !.total = @ + 1, !.passed = @ + 1]
  /\ at' = at + 1
  /\ sample' = 0
  /\ failed' = FALSE
  /\ UNCHANGED <<nskip, rewritable, seen, raw, torn, phase, runnable, exit>>

\* Variant: a run in which some case passed does not bail.
FinishSummaryLenient ==
  /\ phase = "run"
  /\ at = Len(runnable) + 1
  /\ End(IF summary.failed > 0 /\ summary.passed = 0 THEN "failed" ELSE "ok")
  /\ UNCHANGED <<nskip, rewritable, seen, raw, torn, at, sample, runnable, failed, summary>>

\* finish_summary bails when a case failed.
FinishSummary ==
  /\ phase = "run"
  /\ at = Len(runnable) + 1
  /\ End(IF summary.failed > 0 THEN "failed" ELSE "ok")
  /\ UNCHANGED <<nskip, rewritable, seen, raw, torn, at, sample, runnable, failed, summary>>

\* The process is killed, perhaps in the middle of a line.
Crash ==
  /\ phase # "over"
  /\ torn' \in BOOLEAN
  /\ End("crashed")
  /\ UNCHANGED <<nskip, rewritable, seen, raw, at, sample, runnable, failed, summary>>

Next ==
  \/ SkipCase \/ SkipsEnd \/ Rewrite \/ RewriteEnd \/ RunSample \/ FinishCase
  \/ FinishSummary \/ Crash

Spec == Init /\ [][Next]_vars

-----------------------------------------------------------------------------
(* Properties *)

TypeOK ==
  /\ nskip \in 0 .. MaxSkip
  /\ rewritable \subseteq Cases
  /\ seen \in [Cases -> [Samples -> SampleOutcome]]
  /\ raw \in Seq([case : Nat, role : {"skipped", "warmup", "measured"}, rep : Nat,
                   status : {"passed", "failed", "skipped"}])
  /\ torn \in BOOLEAN
  /\ phase \in {"skips", "rewrite", "run", "over"}
  /\ phase = "skips" => at \in N .. N + nskip
  /\ phase = "rewrite" => at \in 0 .. N
  /\ phase = "run" => at \in 1 .. Len(runnable) + 1
  /\ sample \in 0 .. T
  /\ runnable \in Seq(Cases)
  /\ failed \in BOOLEAN
  /\ summary \in [total : Nat, passed : Nat, failed : Nat, skipped : Nat]
  /\ exit \in {"none", "ok", "failed", "error", "crashed"}

\* The raw file a run is meant to leave: the partition's skips, the rewriter's
\* skips, then every sample of every rewritten case.
Complete ==
  Layout([n \in 1 .. nskip |-> N + n - 1] \o InOrder(Cases \ rewritable), InOrder(rewritable), seen)
=============================================================================
