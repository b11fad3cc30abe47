------------------------------- MODULE Suites -------------------------------
(***************************************************************************)
(* The parity suites and the one form of raw file they write: sqlite_parity *)
(* and memory, which run compare_cases (ParityRun), and rql_phase1, which  *)
(* has a loop of its own (RqlRun).  Whatever a suite does on the way, the  *)
(* report reads its file the same way, and RawFile is what both promise.   *)
(***************************************************************************)
EXTENDS SuiteRecords

VARIABLES
  suite,                                                        \* which of the two runs
  nskip, seen, raw, torn, phase, at, sample, summary, exit,     \* of both
  rewritable, runnable, failed                                  \* of rql_phase1

vars == <<suite, nskip, seen, raw, torn, phase, at, sample, summary, exit, rewritable, runnable, failed>>

Parity == INSTANCE ParityRun
Rql == INSTANCE RqlRun

Init ==
  \/ /\ suite = "sqlite_parity"
     /\ Parity!Init
     /\ rewritable = Cases /\ runnable = <<>> /\ failed = FALSE
  \/ suite = "rql_phase1" /\ Rql!Init

\* Which suite runs is the subcommand of the command line.
Next ==
  \/ suite = "sqlite_parity" /\ Parity!Next /\ UNCHANGED <<suite, rewritable, runnable, failed>>
  \/ suite = "rql_phase1" /\ Rql!Next /\ UNCHANGED suite

Spec == Init /\ [][Next]_vars

-----------------------------------------------------------------------------
(* Properties *)

\* Type correctness of either suite.
TypeOK ==
  /\ suite \in {"sqlite_parity", "rql_phase1"}
  /\ suite = "sqlite_parity" => Parity!TypeOK
  /\ suite = "rql_phase1" => Rql!TypeOK

\* A case that errs costs the records of every case of compare_cases, also of
\* those that ran: the samples are appended after run_case_set has answered Ok.
AllOrNothing == suite = "sqlite_parity" => Parity!AllOrNothing

\* The raw file a run is meant to leave, in suite order.
Complete == IF suite = "sqlite_parity" THEN Parity!Complete ELSE Rql!Complete

\* Both suites keep the promise of RawFile, the one that records at the end and
\* the one that records as it goes: wherever an append fails or the process dies,
\* the file is the start of Complete, with no record out of order or twice, and
\* "ok" or "failed" comes with all of it and tells the truth.
File == INSTANCE RawFile WITH plan <- Complete

ImplementsRawFile == File!Spec

\* When the suite succeeds, the summary it returns (and writes in its evidence)
\* is what the report counts in the raw file; cases that could not be rewritten
\* are among the skipped.
SummaryMatchesReport == exit = "ok" => summary = ReportCounts(raw)

\* The verdict counts cases while the records count samples, and still agree: a
\* case is counted failed exactly when a record of it failed.
VerdictPerCase ==
  exit = "failed" =>
    summary.failed = Cardinality(CasesWith(raw, LAMBDA r : r.status = "failed"))

\* The report, told the --warmup and --repetitions of a successful run, accepts
\* its raw file only if some case was run and warmups and skips did not meet:
\* it expects warmup samples of the skipped cases too.
ReportContract ==
  exit = "ok" =>
    (ReportAccepts(raw) <=> summary.passed > 0 /\ (Warmup = 0 \/ summary.skipped = 0))
=============================================================================
