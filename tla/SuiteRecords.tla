---------------------------- MODULE SuiteRecords ----------------------------
(***************************************************************************)
(* The JSONL records a suite run appends to its raw file, and how the      *)
(* report reads them back (src/sqlite_parity/{runner,report}.rs and        *)
(* src/report.rs).  A record keeps the fields that some reader tells       *)
(* apart: the case, the role, the repetition index and the status.         *)
(***************************************************************************)
EXTENDS CaseOutcomes, Sequences, FiniteSets

CONSTANTS
  MaxSkip,      \* a bound of the model: cases the capability partition skips
  Warmup,       \* --warmup, at most 1000
  Repetitions   \* --repetitions, positive

ASSUME SamplesAssumption ==
  /\ MaxSkip \in Nat
  /\ Warmup \in 0 .. 1000
  /\ Repetitions \in Nat \ {0}

\* Skipped cases are numbered after the runnable ones; the ids are distinct.
SkippedCasesOffByOne(nskip) == N .. N + nskip    \* Variant
SkippedCases(nskip) == N .. N + nskip - 1

\* sample_index: the sum saturates at usize::MAX, far above every bound here.
T == Warmup + Repetitions
Samples == 0 .. T - 1

\* What one sample of a case yields: validate_compare agrees or not, or
\* run_case or the artifact write errs, or progress output panics.
SampleOutcome == {"match", "mismatch", "err", "panic"}

NoRep == 0      \* repetition_index is None; Some(index) counts from 1

SkipRecord(id) == [case |-> id, role |-> "skipped", rep |-> NoRep, status |-> "skipped"]

\* Variant: the first measured sample is taken for a warmup.
SampleRecordOffByOne(i, k, seen) ==
  [case |-> i,
   role |-> IF k <= Warmup THEN "warmup" ELSE "measured",
   rep |-> IF k <= Warmup THEN NoRep ELSE k - Warmup + 1,
   status |-> IF seen = "match" THEN "passed" ELSE "failed"]

\* checked_sub(warmup) is None below the warmup count.
SampleRecord(i, k, seen) ==
  [case |-> i,
   role |-> IF k < Warmup THEN "warmup" ELSE "measured",
   rep |-> IF k < Warmup THEN NoRep ELSE k - Warmup + 1,
   status |-> IF seen = "match" THEN "passed" ELSE "failed"]

\* run_one_case stops at the first sample that does not complete; a mismatch
\* in any sample, a warmup included, makes the case failed.
CaseOutcome(seen) ==
  LET Stops(k) == seen[k] \in {"err", "panic"} /\ \A j \in Samples : j < k => seen[j] \in {"match", "mismatch"}
  IN  IF \E k \in Samples : Stops(k)
        THEN seen[CHOOSE k \in Samples : Stops(k)]
        ELSE IF \E k \in Samples : seen[k] = "mismatch" THEN "failed" ELSE "passed"

\* The raw file a run is meant to leave: a record for each of skips, then every
\* sample of each of runs, case by case.
Layout(skips, runs, seen) ==
  [n \in 1 .. Len(skips) + Len(runs) * T |->
     IF n <= Len(skips) THEN SkipRecord(skips[n])
     ELSE LET m == n - Len(skips) - 1
              i == runs[m \div T + 1]
          IN  SampleRecord(i, m % T, seen[i][m % T])]

\* The members of a set of cases in suite order.
InOrder(cases) ==
  [n \in 1 .. Cardinality(cases) |->
     CHOOSE i \in cases : Cardinality({j \in cases : j <= i}) = n]

-----------------------------------------------------------------------------
(* What src/report.rs counts in a raw file *)

Records(raw) == {raw[n] : n \in DOMAIN raw}

CasesWith(raw, P(_)) == {r.case : r \in {s \in Records(raw) : P(s)}}

IsMeasured(r) == r.status = "passed" /\ (r.rep # NoRep \/ r.role = "measured")

ReportCounts(raw) ==
  [total   |-> Cardinality(CasesWith(raw, LAMBDA r : TRUE)),
   passed  |-> Cardinality(CasesWith(raw, IsMeasured)),
   failed  |-> Cardinality(CasesWith(raw, LAMBDA r : r.status = "failed")),
   skipped |-> Cardinality(CasesWith(raw, LAMBDA r : r.status = "skipped"))]

\* generate(): the raw file is not empty, and the --expected-repetitions and
\* --expected-warmup the run was made with are found in it.
ReportAccepts(raw) ==
  /\ raw # <<>>
  /\ Cardinality({r.rep : r \in {s \in Records(raw) : IsMeasured(s)}}) = Repetitions
  /\ Cardinality({n \in DOMAIN raw : raw[n].role = "warmup"})
       = Warmup * Cardinality(CasesWith(raw, LAMBDA r : TRUE))
=============================================================================
