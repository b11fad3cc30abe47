------------------------------- MODULE Oracle -------------------------------
(***************************************************************************)
(* The beyond_sqlite suite: run of src/beyond_sqlite/taxonomy.rs over      *)
(* run_cases_with of src/beyond_sqlite/oracle.rs.  psql runs each case     *)
(* twice and must agree with itself; if it does, psql runs it a third time *)
(* and the target once, and these two must agree.  The records of the      *)
(* features and of both lanes are written in one go at the end.            *)
(*                                                                         *)
(* The server is a process of its own: it may be away when a case runs,    *)
(* and a case need not give the same rows twice.  A run of psql or of the  *)
(* target yields an error (spawn, broken pipe, timeout) or an exit code    *)
(* and a text, which is normalized as the case declares (Normalizers)      *)
(* before it is compared.                                                  *)
(***************************************************************************)
EXTENDS Normalizers

CONSTANTS
  NCases,      \* cases of the oracle's manifest
  NPassing,    \* features the metadata lists as passing_reference
  NBacklog,    \* and as manifest_backlog
  Declared,    \* what the manifest may declare of a case
  Prints       \* of each, the outputs psql and the target may give for it

ASSUME OracleAssumption ==
  /\ NCases \in Nat /\ NPassing \in Nat /\ NBacklog \in Nat
  /\ Declared # {}
  /\ Declared \subseteq [mode : CompareMode, normalizers : Seq(Normalizer), missing : BOOLEAN]
  /\ \A c \in Declared : Prints[c] \subseteq Seq(Seq(Cells))

CaseIds == 1 .. NCases

Err == [kind |-> "err"]

VARIABLES
  case,       \* what the manifest declares of the case at hand: its compare_mode,
              \* its normalizers, whether the target lacks a feature it requires
  reference,  \* what resolve() found
  at,         \* the case at hand
  step,       \* "resolve", "first", "second", "again", "target", "count", "write", "over"
  psql,       \* the runs of psql for the case at hand, the latest last
  shown,      \* the target's run
  outcome,    \* status of the case at hand in each lane
  summary,    \* OracleSummary, its two counts of skipped cases taken together
  outcomes,   \* the CaseOutcomes so far
  raw         \* the records in the output file

vars == <<case, reference, at, step, psql, shown, outcome, summary, outcomes, raw>>

NotRun == "not run"

\* invoke_psql and invoke_target, of the case at hand.
Runs == {Err} \cup [kind : {"ran"}, exit : {0, 1}, text : Prints[case]]

Init ==
  /\ case \in Declared
  /\ reference = "unknown"
  /\ at = 1
  /\ step = "resolve"
  /\ psql = <<>>
  /\ shown = Err
  /\ outcome = [self |-> NotRun, target |-> NotRun]
  /\ summary = [passed |-> 0, skipped |-> 0, failed |-> 0,
                target_passed |-> 0, target_failed |-> 0, target_skipped |-> 0]
  /\ outcomes = <<>>
  /\ raw = <<>>

\* Without a reference every case is skipped and nothing runs.
Resolve ==
  /\ step = "resolve"
  /\ \/ reference' = "configured" /\ step' = "first" /\ UNCHANGED <<summary, outcomes>>
     \/ /\ reference' = "unavailable"
        /\ step' = "write"
        /\ summary' = [summary EXCEPT !.skipped = NCases]
        /\ outcomes' = [i \in CaseIds |-> [self |-> "skipped", target |-> NotRun]]
  /\ UNCHANGED <<case, at, psql, shown, outcome, raw>>

SettleSwapped(self, target) ==    \* Variant
  outcome' = [self |-> target, target |-> self] /\ step' = "count"

Settle(self, target) == outcome' = [self |-> self, target |-> target] /\ step' = "count"

\* run_one_case: the first run decides whether the case is skipped.
First ==
  /\ step = "first"
  /\ at \in CaseIds
  /\ \E run \in Runs :
       /\ psql' = <<run>>
       /\ IF run = Err \/ run.exit # 0 THEN Settle("skipped", NotRun)
                                     ELSE step' = "second" /\ UNCHANGED outcome
  /\ UNCHANGED <<case, reference, at, shown, summary, outcomes, raw>>

SameOutput(one, other) == NormalizeForCompare(one.text, case) = NormalizeForCompare(other.text, case)

\* Variant: psql agrees with itself whenever it ends well.
SecondByExit ==
  /\ step = "second"
  /\ \E run \in Runs :
       /\ psql' = Append(psql, run)
       /\ \/ run = Err /\ Settle("skipped", NotRun)
          \/ run # Err /\ run.exit # 0 /\ Settle("failed", NotRun)
          \/ run # Err /\ run.exit = 0 /\ step' = "again"
               /\ outcome' = [self |-> "passed", target |-> NotRun]
  /\ UNCHANGED <<case, reference, at, shown, summary, outcomes, raw>>

\* The second compares its rows; its exit code is not looked at.
Second ==
  /\ step = "second"
  /\ \E run \in Runs :
       /\ psql' = Append(psql, run)
       /\ \/ run = Err /\ Settle("skipped", NotRun)
          \/ run # Err /\ ~SameOutput(psql[1], run) /\ Settle("failed", NotRun)
          \/ run # Err /\ SameOutput(psql[1], run) /\ step' = "again"
               /\ outcome' = [self |-> "passed", target |-> NotRun]
  /\ UNCHANGED <<case, reference, at, shown, summary, outcomes, raw>>

\* run_one_case_against_target runs the reference again.
Again ==
  /\ step = "again"
  /\ \E run \in Runs :
       /\ psql' = Append(psql, run)
       /\ \/ run = Err /\ Settle("passed", "skipped")
          \/ run # Err /\ step' = "target" /\ UNCHANGED outcome
  /\ UNCHANGED <<case, reference, at, shown, summary, outcomes, raw>>

Agrees(one, other) == one.exit = other.exit /\ SameOutput(one, other)

Target ==
  /\ step = "target"
  /\ \E run \in Runs :
       /\ shown' = run
       /\ Settle("passed", IF run = Err THEN "skipped"
                           ELSE IF Agrees(psql[3], run) THEN "passed" ELSE "failed")
  /\ UNCHANGED <<case, reference, at, psql, summary, outcomes, raw>>

Bump(status, is) == IF status = is THEN 1 ELSE 0

\* Variant: a case the target fails is counted failed as well.
TallyMergesLanes(o) ==
  [summary EXCEPT !.passed = @ + Bump(o.self, "passed"),
                  !.skipped = @ + Bump(o.self, "skipped"),
                  !.failed = @ + Bump(o.self, "failed") + Bump(o.target, "failed"),
                  !.target_passed = @ + Bump(o.target, "passed"),
                  !.target_failed = @ + Bump(o.target, "failed"),
                  !.target_skipped = @ + Bump(o.target, "skipped")]

Tally(o) ==
  [summary EXCEPT !.passed = @ + Bump(o.self, "passed"),
                  !.skipped = @ + Bump(o.self, "skipped"),
                  !.failed = @ + Bump(o.self, "failed"),
                  !.target_passed = @ + Bump(o.target, "passed"),
                  !.target_failed = @ + Bump(o.target, "failed"),
                  !.target_skipped = @ + Bump(o.target, "skipped")]

Count ==
  /\ step = "count"
  /\ summary' = Tally(outcome)
  /\ outcomes' = Append(outcomes, outcome)
  /\ at' = at + 1
  /\ case' \in Declared
  /\ shown' = Err
  /\ step' = "first"
  /\ psql' = <<>>
  /\ outcome' = [self |-> NotRun, target |-> NotRun]
  /\ UNCHANGED <<reference, raw>>

CasesEnd ==
  /\ step = "first"
  /\ at = NCases + 1
  /\ step' = "write"
  /\ UNCHANGED <<case, reference, at, psql, shown, outcome, summary, outcomes, raw>>

-----------------------------------------------------------------------------
(* The records: features first, then the lanes of each case *)

Record(kind, id, lane, status) == [id |-> <<kind, id>>, lane |-> lane, status |-> status]

Features ==
  [n \in 1 .. NPassing + NBacklog |->
     Record("feature", n, "metadata", IF n <= NPassing THEN "passed" ELSE "skipped")]

Lanes(i) ==
  <<Record("case", i, "self", outcomes[i].self)>>
    \o (IF outcomes[i].target = NotRun THEN <<>>
        ELSE <<Record("case", i, "target", outcomes[i].target)>>)

\* One fs::write; the suite ends well whatever failed.
Write ==
  /\ step = "write"
  /\ raw' = Features \o FlattenSeq([i \in DOMAIN outcomes |-> Lanes(i)])
  /\ step' = "over"
  /\ UNCHANGED <<case, reference, at, psql, shown, outcome, summary, outcomes>>

Next == Resolve \/ First \/ Second \/ Again \/ Target \/ Count \/ CasesEnd \/ Write

Spec == Init /\ [][Next]_vars

-----------------------------------------------------------------------------
(* Properties *)

Status == {"passed", "failed", "skipped"}

Counts == [passed : 0 .. NCases, skipped : 0 .. NCases, failed : 0 .. NCases,
           target_passed : 0 .. NCases, target_failed : 0 .. NCases, target_skipped : 0 .. NCases]

TypeOK ==
  /\ case \in Declared
  /\ reference \in {"unknown", "configured", "unavailable"}
  /\ at \in 1 .. NCases + 1
  /\ step \in {"resolve", "first", "second", "again", "target", "count", "write", "over"}
  /\ psql \in Seq(Runs)
  /\ shown \in Runs
  /\ outcome \in [self : Status \cup {NotRun}, target : Status \cup {NotRun}]
  /\ summary \in Counts
  /\ outcomes \in Seq([self : Status, target : Status \cup {NotRun}])

IdsWith(P(_)) == {r.id : r \in {raw[n] : n \in {k \in DOMAIN raw : P(raw[k])}}}

\* What src/report.rs counts in the file of this suite, by distinct case ids.
ReportCounts ==
  [total |-> Cardinality(IdsWith(LAMBDA r : TRUE)),
   passed |-> Cardinality(IdsWith(LAMBDA r : r.status = "passed")),
   failed |-> Cardinality(IdsWith(LAMBDA r : r.status = "failed")),
   skipped |-> Cardinality(IdsWith(LAMBDA r : r.status = "skipped"))]

\* The two readers of the same file differ only by the target lane: the report
\* counts a case the target failed as failed and as passed, where the summary
\* of the suite counts it as passed, and keeps the lane in counts of its own.
ReportAddsTargetLane ==
  step = "over" =>
    ReportCounts = [total   |-> NPassing + NBacklog + NCases,
                    passed  |-> NPassing + summary.passed,
                    failed  |-> summary.failed + summary.target_failed,
                    skipped |-> NBacklog + summary.skipped + summary.target_skipped]

\* A case has a target lane only if its first run of psql ended well and the second
\* gave the same rows; how the second and the third ended is not looked at.  Then a
\* target is failed for a difference that is there: if all three runs of psql were the
\* same, by exit code and rows, the target did as none of them.  What is left is psql
\* changing after the first run: the target may fail a case it does as psql did then.
TargetNotBlamed ==
  outcome.target # NotRun =>
    /\ psql[1].exit = 0 /\ SameOutput(psql[1], psql[2])
    /\ outcome.target = "failed" /\ (\A k \in 2 .. 3 : Agrees(psql[1], psql[k])) =>
         \A k \in 1 .. 3 : ~Agrees(psql[k], shown)

\* A target that passes a case shows what the reference shows, up to what the
\* case declares: in whatever order its normalizers are applied, and whatever one
\* makes of the text the next one reads, no other difference gets lost.
HidesOnlyDeclared ==
  outcome.target = "passed" =>
    /\ shown.exit = psql[3].exit
    /\ Essence(shown.text, case, Cuts) = Essence(psql[3].text, case, Cuts)

\* src/beyond_sqlite/normalize.rs says the normalizer of timestamps truncates
\* these, and of its points that it is "only" to strip "a fractional-seconds
\* pattern, not e.g. `1.5e10` which we DO want to preserve": other numbers differ
\* only if they do when nothing but timestamps is cut.
NumbersKept ==
  outcome.target = "passed" =>
    LET TimesOnly == Restrict(Cuts, Timestamps \cap DOMAIN Cuts) IN
    Essence(shown.text, case, TimesOnly) = Essence(psql[3].text, case, TimesOnly)

\* src/beyond_sqlite/case.rs says of requires_engine_features that "the oracle
\* skips a case whose required features the target doesn't advertise".
SkipsMissingFeatures == step = "count" /\ case.missing => outcome.self = "skipped"
=============================================================================
