# A TLA+ verification of redline-testing

redline-testing compares a database under test ("the target", `redlinedb`) with
a reference (`sqlite3`, or PostgreSQL through `psql`). It runs four suites of
cases, records every sample as a line of JSON, binds the records to the
binaries that produced them, and renders reports from them. A wrong verdict, a
lost record or a report of the wrong records is worse than a crash, and none
of these is visible in the code of one function. The modules here model the parts
of the runner where that could happen. Paths are relative to the repository.

- [Inventory](#inventory): the parts of the system
- [Modules](#modules): what models what, and how
- [Runs](#runs): what TLC checks, on which instances, and what that shows
- [Fairness](#fairness)
- [Proofs](#proofs): what TLAPS proves for all instances
- [Findings](#findings): where the code and its documentation disagree
- [Not modelled](#not-modelled)
- [Plan](#plan)

## Inventory

| Part | State it keeps | Operations | What is hard | What makes it correct |
|---|---|---|---|---|
| **Worker pool**, `run_case_set` (`src/sqlite_parity/runner.rs`) | atomic counter, mutex with an error, channel, the caller's vector | claim, run, flag, send; receive, join, fold; a serial loop for one worker | threads, errors and panics in any order, termination of the channel loop | one owner per scratch directory; the answer depends on the cases, not on the schedule; it answers |
| **sqlite_parity, memory**, `compare_cases` (same file) | `RunSummary`, raw JSONL file | record skips, run the cases, record the samples, verdict | a write that fails or a kill half-way; all records wait for the last case | the file is always the start of one sequence; verdict, summary and report agree |
| **rql_phase1**, `run` (`src/sqlite_parity/rql_phase1.rs`) | the same, written as it goes | record skips, rewrite, run and record each sample | errs with part of the records in the file | the same promise as `compare_cases` |
| **RQL lowering**, `rewrite_case` (same file) | none | shell commands to flags, SQL to JSON, or refusal | what is dropped without being refused | target and reference are asked the same |
| **Child processes**, `run_command` (`src/sqlite_parity/engine.rs`), `invoke_psql`, `invoke_target` (`src/beyond_sqlite/{engine,oracle}.rs`) | pipes, exit status, deadline | spawn, write stdin, drain or poll, kill, collect | two processes that may wait for each other; deadline against exit; early exit | complete output, no process left, an answer whenever one is possible |
| **beyond_sqlite**, `run_cases_with` and `run` (`src/beyond_sqlite/{oracle,taxonomy}.rs`) | counts, outcomes, raw file | resolve, reference twice, reference again, target, normalize, records | a server that goes away or answers differently between two runs | the target is not blamed for the reference; what is compared equal is equal but for what the case declares |
| **All suites and evidence**, `run_all_suites` (`src/cli.rs`), `write_official_evidence` (`src/evidence.rs`), `validate_official_evidence_binding` (`src/report.rs`) | raw files, combined file, evidence with hashes | the four suites, derived files, combine, manifest, hash, bind | reruns and kills in one directory, an output that names another's file, a target replaced on the way | what the evidence binds is one whole run; its hashes fit together |
| **Report**, `generate` (`src/report.rs`) | committed artifacts | count, rank, render, write or check for drift | many files written one by one, one README for all suites, provenance of a tree it changes | counts agree with the suite's own; `--check` accepts what is in sync |
| **Capability partition** (`src/sqlite_parity/engine.rs`, `case.rs`, `catalog.rs`) | identities, probe results | identify and probe both binaries, split the cases | probes that err, builds replaced meanwhile | every case is skipped for a cause; records name what ran |
| **Memory sampler** (`src/sqlite_parity/memory.rs`) | maximum seen | read `/proc` before each `try_wait` and after the reap | zombies, pids reused | the peak is the child's |
| **Normalizers** (`src/beyond_sqlite/normalize.rs`) | none | text to text, in the order a case declares | a chain of rewritings that may hide a difference | nothing is hidden that no normalizer of the case is there to hide |
| **Command line** (`src/cli.rs`) | none | parse, dispatch | `--workers`, sample counts at their limits | the assumptions the suites make |
| **Corpus tools** (`xtask/`, `build.rs`, `extended_cases`) | shards in the tree, shards in the runner | generate, check for drift, gate, embed, load | failures and kills between shards, another `sqlite3`, hand-written shards | a shard that was checked records what the reference answers, and loads |
| **Release scripts** (`scripts/`, `ops/`) | files | package, hash | - | - |

The command line calls a suite; a suite asks the capability partition which
cases can run, gives them to the pool (or, for rql_phase1, runs them itself),
and every case runs two child processes, one per engine. The suites append to
the raw file; `run_all_suites` reads the raw files back, and hashes them into
the evidence; `report`, a later process, reads raw files and evidence. Between
processes the only channel is the file system.

## Modules

| Module | Models | Role |
|---|---|---|
| `CaseOutcomes` | what a case yields and `run_case_set` answers | vocabulary of the two below |
| `CaseSet` | the promise of `run_case_set` | abstract specification |
| `WorkerPool` | `run_case_set` | refines `CaseSet` |
| `WorkerPool_proofs` | | theorems about `WorkerPool` |
| `RawFile` | the promise of a suite run to the readers of its file | abstract specification |
| `SuiteRecords` | the records and what the report reads in them | vocabulary of the two below |
| `ParityRun` | `compare_cases`, with `CaseSet`'s promise in place of the pool | part of `Suites` |
| `RqlRun` | `run` of rql_phase1 | part of `Suites` |
| `Suites` | either suite, with the properties common to both | composes the two, refines `RawFile` |
| `Suites_proofs` | | theorems about `Suites` |
| `ChildIO` | `run_command`, `invoke_psql`, `invoke_target`, the memory sampler, and their child | |
| `ChildIO_proofs` | | theorems about `ChildIO` |
| `Normalizers` | the normalizers, their chain, `normalize_for_compare` | pure; part of `Oracle` |
| `Oracle` | beyond_sqlite | composes `Normalizers` |
| `Oracle_proofs` | | theorems about `Oracle` |
| `AllRun` | `run_all_suites`, the suites run alone, evidence and binding | |
| `AllRun_proofs` | | theorems about `AllRun` |
| `ReportDrift` | `report`, `report --check` and the git tree between them | |
| `ReportDrift_proofs` | | theorems about `ReportDrift` |
| `Capabilities` | identities, probes, partition | |
| `Capabilities_proofs` | | theorems about `Capabilities` |
| `DotCommands` | `strip_dot_commands` | |
| `RqlLowering` | `rewrite_case` | composes `DotCommands` |
| `Corpus` | `xtask generate`, `--check`, `ship-gate`, embedding and loading | |
| `Corpus_proofs` | | theorems about `Corpus` |
| `MC...` | | each instantiates one module for TLC |

`PROJECT.json` names the lines each definition translates. In every module an
action is one step between two points where something else can interfere: an
access to memory another thread sees, a system call another process sees, or a
write a kill can cut short. The code between two such points is one action.

A definition marked **Variant** is a plausible bug in the definition next to
it: the same operator with a guard dropped, a bound off by one, a step left
out. No specification uses a variant. Each property has one that breaks it, so
a property that would hold whatever the code does cannot stay unnoticed.

**`WorkerPool`.** A thread's loop is its `pc`: `check` (the error flag), `claim`
(`fetch_add`), `run`, `flag`, `send`. What a case yields is fixed in `Init` and
seen by no one before it has run; this makes the answer of two schedules
comparable. `workers` is the argument, any number up to `W`; with one worker or one
case `run_case_set` runs its serial loop, an action of its own. The channel is a set: mpsc keeps the order of the sends, and
receiving in any order only adds behaviours. `run_one_case` is one step: what
happens in it is the subject of `ChildIO`. The panics are those of `eprintln!`
on a closed stderr; a panicking thread drops its sender and the caller's `join`
sees it. The mutex is never poisoned: no panic happens while it is held.

**`ParityRun`, `RqlRun`, `Suites`.** `Suites` chooses a suite and takes its steps;
everything the report reads is said of both there. A record keeps the fields some reader tells apart:
case, role, repetition index, status. Times and artifacts are left out.
`append_jsonl` opens the file for each record and writes the text and the
newline separately, so a failed append or a kill may leave a torn line after
the complete ones (`torn`). `seen`, what each sample yields, is fixed in `Init`. `Layout` is the sequence
of records either suite is meant to write, for the cases it skips and those it runs, and
`Complete` what that is in the run at hand.
`ParityRun` does not run threads: it takes any answer `CaseSet` allows, which
`WorkerPool` is shown (and proved) to respect.

**`ChildIO`.** The child is any program of up to `MaxOps` operations: read a
unit of stdin, write one to stdout or stderr, hang; it exits after the last.
The unit is arbitrary, a pipe holds `Cap` of them. The modes are `pipe`
(`wait_with_output`), `file` (`--memory-samples`, output to files) and `timed`
(a deadline). In all modes the whole of stdin is written before anything is
read. In `file` mode the sampler looks at `/proc/<pid>` before each `try_wait` and
once more after the child was reaped; by then the pid may be another process's
(`Reuse`), and `Foreign` is what a look at that one may yield. A program's use of
memory grows with the operation it is at, so a sample is `ip`.

**`Oracle`.** Every run of psql or the target yields an error, or an exit code
and a text. Nothing relates one run to the next: the server is a process of its
own. `Prints` says what may be printed for a case, any of it in any run, and `psql`
keeps the runs of the case at hand, first, second and third, since what the code compares
and what it passes over are different things: of the second it compares the text only,
of the third the exit code with the target's. The counts of cases skipped for a missing
feature and for a missing reference are one count.

**`Normalizers`.** A text is rows of cells. A cell is a word or brackets around
items, bare, quoted or keyed (`Cells`). `Words` is a parameter: any set with the words
some normalizer changes, which come with what it makes of them (`Bits`, `Doubles`,
`Cuts`, ...); every other word is left alone. Each normalizer is an
operator on cells, except those that look at the whole text:
`timestamp_iso_to_seconds` cuts only behind a colon, wherever that was. `Essence`
is the reference: a text up to everything its normalizers are there to ignore,
in no order. Unquoted strings are joined with commas, so an array of one empty string
becomes the text of an empty array (`Joined`); `Essence` counts this among what
`json_string_array_unquote` ignores.

**`AllRun`.** A text is a sequence of chunks, each naming the suite, job and build
that wrote it and whether it is complete; a hash is modelled by the text itself.
A job is `run --suite all`, or one suite into any file of the same directory, so
`--output` may name another suite's raw file. Every file is a step: raw, derived
(summary, ranking and manifest of a suite are one step, torn when cut between
them), provenance, combined, manifest of all, evidence; a job may be killed or fail
at each. Two jobs never run at once, but the target may be replaced any time: the
records name the build found when the suite began, provenance and evidence the
one found when they are written.

**`ReportDrift`.** What `report` renders depends on the raw text and on its options. Of
these the model keeps one, whether `--official-evidence` was given (`official`): with it
the README has the versions of both engines, and the recorded command line names the
option. The others do not change, so a file is modelled by what it was rendered from. The
state is the working tree, the git index, the number of the commit and the
report in progress; between two reports a suite is run again, the README or
another file is edited, or something is committed. Nobody does any of that while
a report runs. A write that fails or is killed leaves the file as it was, torn,
or, for the README, cut behind its markers. No definition tells one suite or one
raw text from another, so both sets are symmetric.

**`Capabilities`.** The start of a suite is a sequence of steps (`Steps`), each one child
process or one file read, and each may err; `at` is the place of the next. What a path
holds is looked at in every one of them; `Replace` puts another build there between any
two. A build is a value with features of its own; `Probes` are the capabilities in the
order they are probed in, two of them standing for fourteen in the run, and
`CaseKinds` the cases a catalog is made of.

**`RqlLowering`, `DotCommands`.** A statement is a tree whose nodes carry marks (the
clauses present), and each function of the source is a rule: marks refused, marks
written into the JSON, marks lost. What may be lost is said a second time, in
`Unsaid`, from what SQLite makes of a statement: the property reads that, and `Lower` the
rules. A name written in quotes has the mark `quoted`; a literal is its spelling, and
`Written` what `literal_value` makes of it. `Lower` is the recursion. `ReadLine` of `DotCommands`
is one turn of the loop over the lines: `stripped` is its error, `saw_sql` and the
`ShellOptions`, and `Input` the lines there may be. The state is a case
and what `rewrite_case` makes of it; an action changes the case by one mark, one value
or one part, or reads one more line of shell commands, and rewrites it again. So properties
of the rewriter can be said of two neighbouring cases as well as of one.

**`Corpus`.** A shard stands for its list of cases by one of them: SQL, the exit code
and output it expects, and whether it has the fields the runner requires. `Prints`
says what may be answered on each host, which is a build of sqlite3 and a time zone: the
`datetime` generator asks for the modifier `'utc'` (`generators.rs:509`), and the tools
run `sqlite3` in whatever zone they find (`ChangeZone`). On one host generators are assumed
deterministic (`RecipesAreDeterministic`: none asks for the time or for random values),
hand-written cases are not. A tool is a loop over files in the order of their names, one step each,
that may fail or be killed at any, a write leaving a torn file. `build.rs` embeds whatever is there; nobody edits,
installs or builds while a tool runs.

## Runs

| Run | Instance | Checks |
|---|---|---|
| `PoolSafety` | 4 cases, 1 or 2 workers | `TypeOK`, `ScratchExclusive`, `SameAsSerial`, `ImplementsCaseSet`, `EventuallyAnswers` |
| `PoolSerialDoc` | 2 cases, 2 workers | violates `SerialExecution` (see Findings) |
| `Suites` | either suite, 2 cases, 0 or 1 skipped, 1 warmup, 2 repetitions | `TypeOK`, `AllOrNothing`, `SummaryMatchesReport`, `VerdictPerCase`, `ReportContract`, `ImplementsRawFile` |
| `ChildIO` | stdin of 3 units, pipes of 1, programs of up to 5 operations, every mode | `TypeOK`, `CapturesAll`, `BrokenPipeNeedsEarlyExit`, `WedgedForever`, `NoChildLeft`, `OutputOverCapTimesOut`, `PeakOfChild`, `Answers` |
| `Oracle` | 2 cases of any declaration, for each the texts its normalizers or mode bear on | `TypeOK`, `ReportAddsTargetLane`, `TargetNotBlamed`, `HidesOnlyDeclared` |
| `OracleDoc` | 1 case | violates `SkipsMissingFeatures` (see Findings) |
| `NormalizersDoc` | 1 case, 2 texts | violates `NumbersKept` (see Findings) |
| `AllRun` | 2 jobs, `--output` a file of its own or the raw file of memory, 1 replacement | `TypeOK`, `BindsOneWholeRun`, `OneJobPerFile`, `HashesAgree`, `BuildsInOrder` |
| `ReportDrift` | 2 suites, 2 raw texts, 2 reports with evidence or without, 1 commit; symmetry | `TypeOK`, `FreshCheck`, `CommittedNeverAccepted`, `OneSuiteInSync` |
| `Capabilities` | 1 build of sqlite3, 2 of redlinedb, any features, 2 cases, 1 replacement; symmetry | `SkipsForCause`, `RecordsNameOnePair` |
| `RqlLowering` | 2 changes to a statement of any kind, or 4 lines | `RefusedForAReason`, `SettingsStand`, `EveryEditShows` |
| `Corpus` | 2 generators, a hand-written shard, 2 builds of sqlite3, 2 time zones, 3 tools, 2 changes | `GreenByConstruction`, `GateIsCurrent`, `GateMeansLoads` |

What they show, in the terms of the code:

- **The pool** hands out every index once, so `run_case` may delete and recreate
  `<case>-<engine>-<pid>`; several cases may err and overwrite each other's flag,
  and the error returned is still the one of the lowest erring case, the one
  the serial loop stops at; a case left unclaimed because of the flag never
  surfaces as "worker skipped case"; if a case panics the answer is that a
  thread panicked, or an error before it. Four cases and two threads are the
  least where a thread leaves two cases unclaimed behind an error while the
  other is still running, and the proofs below cover every number of both.
- **A suite run**, wherever it errs or is killed, leaves a start of one
  sequence of records: nothing twice, nothing out of order. `ok` and `failed`
  come with all of it, and the count of failed cases is that of cases with a failed record
  (`VerdictPerCase`). `compare_cases` loses every sample to an error
  (`AllOrNothing`), rql_phase1 only those after it.
  `ReportContract` is exact and not flattering: told the very `--warmup` and
  `--repetitions` a successful run was made with, `report --expected-warmup`
  refuses its file whenever some case was skipped and there were warmups,
  because it expects warmups of the skipped cases too. Two cases, three samples
  and a skip give every order of case and sample boundaries.
- **Child processes.** `Answers` and `WedgedForever` say exactly for which
  children the functions return: those that, with the stdin they have, read
  enough of it before writing more than a pipe holds, and, where there is no
  deadline, do not hang. The corpus of today has no stdin larger than a pipe
  (64 KiB), so wedging is a latent hazard; the timeout of the timed functions
  would not end it. `OutputOverCapTimesOut` is not latent: with a deadline, a
  child that prints more than a pipe holds is reported as timed out, whatever
  its speed. `PeakOfChild`: a child that lived through one round of the loop has a peak,
  whatever later looks at a zombie or a freed pid found, and the peak is its own unless
  its pid was given away before the look after the reap. `NoChildLeft` finds one leak, the error return on a broken
  pipe, and no other.
- **beyond_sqlite.** The target gets a record only if the first run of psql ended well and
  the second gave the same rows, and if all three runs did the same, by exit code and rows, a
  target that failed did otherwise (`TargetNotBlamed`). More cannot be said: the exit code
  of the second run is not looked at, and the target is compared with the third run
  alone, so if psql changes after the second the target may fail a case that it
  does just as psql did when the case was accepted.
  `report` counts a case whose target lane failed as passed and failed at once
  (`ReportAddsTargetLane`). If a target passed, its exit code was psql's and its text
  the same but for what the normalizers of the case are there to ignore, in
  whatever order the case names them (`HidesOnlyDeclared`). What "ignore" means is
  generous for timestamps: `NumbersKept` fails (see Findings). `MCOracle` has texts for every
  normalizer, among them an array of one empty string and the empty array, which
  `json_string_array_unquote` makes equal, and chains of those that meet in one cell, in
  both orders where it matters.
- **All suites.** Whatever jobs are killed, fail or are rerun in a directory,
  evidence binds a suite only to the complete records of that suite in the one
  job the evidence describes; derived files and provenance hash what it binds
  (`HashesAgree`); the builds named are in the order of time, and one unless the target
  was replaced (`BuildsInOrder`). If `--output` names a raw file, that suite
  is bound to the records of all suites and its provenance hashes a text that is
  gone. Two jobs give a whole run after a partial or killed one and the reverse,
  and the proofs below cover every number.
- **`report` and `report --check`.** `FreshCheck` says exactly when a check right
  after a report accepts. It does not when the report was a local one, without evidence
  (a check has to have it and then renders something else), when the README had no markers (the
  report appends them in a form the next report rewrites), or when writing the files
  made a clean tree dirty or a dirty one clean, since the provenance records
  `git_dirty` before the writes. What a commit holds is never accepted
  (`CommittedNeverAccepted`): its provenance names the commit before it. Of two
  suites that share the README at most one is in sync (`OneSuiteInSync`).
  `raw.jsonl.sha256` is written and never checked. Two reports and a commit are
  enough for a report of either suite after the other and after a commit.
- **The start of a suite.** While no binary is replaced, a case is run only if what
  was probed has all it needs, and skipped only if something is lacking, or if a
  probe of the target erred, which counts as lacking. A target whose `--version`
  errs is left out of the partition, and its cases run whatever it lacks.
  Whatever is replaced, all records of a suite name one pair of different builds;
  they name those that ran only where nothing was replaced
  (`RecordsNameOnePair`). One replacement between any two steps shows each of these.
- **The lowering.** A case is refused exactly if something in it is outside the
  rules, however deep, except what follows `count(*)` in a call. Between two accepted
  cases the JSON differs unless they differ only in AUTOINCREMENT, the order of a
  primary key, the name of a constraint, the quotes of a name, the mode of BEGIN, a WITH
  before VALUES, NULL, ALL, `main`, or an integer `0x10` written for the blob `x'10'`
  (`EveryEditShows`); a real beyond a double becomes null. `.mode` forgets the settings
  made before it, and `.separator ""` sets the default. Two changes reach a mark
  of a node that itself was put in by a change; four lines a setting before and after
  a `.mode`.
- **The corpus.** Once `generate` or `generate --check` has ended well for all generators,
  the gate finds no fault with a generated shard until a recipe, a shard, sqlite3
  or the time zone changes, whatever failed before (`GreenByConstruction`); once the gate
  has accepted the tree, every shard records what that build may answer in that zone
  (`GateIsCurrent`),
  and the runner built from it loads, unless a hand-written shard lacks what only
  the runner requires (`GateMeansLoads`): the tools default fields `extended_cases` does not.
  The gate's default directory leaves out the pinned manifest, though `README.md:214`
  says every corpus case. Two generators let a tool die between them; three tools and
  two changes let a failed run, a good one and a gate meet an edit, an
  installation or another zone.

Every constant of a configuration is a bound of the model only: 4 cases, 5
operations, 2 jobs, 2 reports, 3 tools, 1 replacement, 2 changes. `CHECK_DEADLOCK FALSE` stands in every configuration, since
functions return and suites end.

## Fairness

`WorkerPool`: weak fairness of the caller and of each thread. The OS schedules
every runnable thread, and that `run` ends is what `ChildIO` examines.
`ChildIO`: weak fairness of the runner, of the child (except where its program
hangs: an operation without a step) and of the clock. Nothing else has a liveness
property: the suites end with their last step or a kill, and no fairness is
assumed of them.

## Proofs

`WorkerPool_proofs` proves, for every number of cases `N \in Nat` and workers
`W \in Nat \ {0}` (assumptions `NAssumption`, `WAssumption`; the second is
what `resolve_workers` enforces):

| Theorem | States |
|---|---|
| `Invariance` | `Spec => []IInv` |
| `TypeCorrect` | `Spec => []TypeOK` |
| `OwnScratch` | `Spec => []ScratchExclusive` |
| `NoPlaceholder` | `Spec => []PlaceholderNeverReturned` |
| `ScheduleIndependence` | `Spec => []SameAsSerial` |
| `Refinement` | `Spec => ImplementsCaseSet` |

None of the properties is inductive. `IInv` says, beside types, that

- `InOrder`: indices held, sent or filed are below the counter, and what is
  sent or filed is the outcome of its index;
- `NothingLost`: every index below the counter is held by a thread, lost to a
  panicked one, in the channel or filed. This is what rules out the placeholder:
  after the join the channel is empty and every thread over, so below the counter
  only a panic leaves an entry empty, and then `join` answers;
- `ThreadControl`: a thread is `done` only past the last case or with the
  flag set, and the flag names an erring case below the counter. With
  `InOrder`, the first entry that is not Ok is then at an index that was
  claimed, hence filed: the error reported is real and the lowest;
- `CallerControl`, `SerialControl`: where the caller is, and that the serial
  loop has run a prefix;
- `AnswerSound`: the answer is one `CaseSet` allows.

The step of the proof has a case per action, each disjunct of `Next` under a
name of its own; `Refinement` uses `AnswerSound` after the step.

`ChildIO_proofs`, for every capacity of a pipe, length of stdin and program
(`ChildAssumption`):

| Theorem | States |
|---|---|
| `Invariance`, `TypeCorrect` | `Spec => []IInv`, `Spec => []TypeOK` |
| `AnswersHoldAll` | `Spec => []CapturesAll` |
| `BrokenPipeIsDeserved` | `Spec => []BrokenPipeNeedsEarlyExit` |
| `WedgedStaysWedged` | `Spec => []WedgedForever` |
| `LeavesNoChild` | `Spec => []NoChildLeft` |
| `OverCapIsNoAnswer` | `Spec => []OutputOverCapTimesOut` |
| `PeakIsOfChild` | `Spec => []PeakOfChild` |

The heart of its `IInv` are two balances: what the child has written is in the
pipes or with the runner (`OutputBalance`), and what the runner has written
is in the pipe or was read (`InputBalance`). A child that wedges cannot pass the
operation that blocks it, hence has read at most `Count("read", k)`, hence by
`InputBalance` the runner cannot have written all (`Stuck`). The counting is of
finite sets (`CountNext`, `CountGrows`), so no induction is needed. `ChildState`
and `Returned` say how the child ended behind each answer; `Peak` bounds samples
by the program until its pid is reused.

`AllRun_proofs`, for any number of jobs and builds and any set of files for `--output`
(`AllAssumption`):

| Theorem | States |
|---|---|
| `Invariance`, `TypeCorrect` | `Spec => []IInv`, `Spec => []TypeOK` |
| `EvidenceBindsWholeRuns` | `Spec => []BindsOneWholeRun` |
| `FilesAreOfOneJob` | `Spec => []OneJobPerFile` |
| `EvidenceHashesAgree` | `Spec => []HashesAgree` |
| `BuildsAreInOrder` | `Spec => []BuildsInOrder` |

`IInv` follows a job: what a suite leaves is settled (`Settled`: derived, provenance and
raw text of this job, complete, builds in order); in a job for all suites those before
the one it is at are settled and still in their files (`Progress`); then all of
them, but for the one `--output` has replaced; and so is what the evidence names
(`EvidenceSettled`), whatever later jobs do to the files, as it holds texts and not
names.

`ReportDrift_proofs`, for any sets of suites and raw texts and any number of reports and
commits (`DriftAssumption`):

| Theorem | States |
|---|---|
| `Invariance`, `TypeCorrect` | `Spec => []IInv`, `Spec => []TypeOK` |
| `WhenFreshIsAccepted` | `Spec => []FreshCheck` |
| `CommittedIsStale` | `Spec => []CommittedNeverAccepted` |
| `LastReportOnly` | `Spec => []OneSuiteInSync` |

`Trees`: the work tree may name the current commit, the index only earlier ones, hence
nothing committed is accepted. `Progress`: of a report under way, each file is
written or still to be; `Done`: after it all files are what it rendered. The check
then compares two renderings. Those of one raw text agree in all but the markers,
`git_dirty` and, as a check always has evidence, what depends on it.

`Suites_proofs`, for every number of cases, skips, warmups and repetitions
(`NAssumption`, `SamplesAssumption`):

| Theorem | States |
|---|---|
| `Invariance`, `TypeCorrect` | `Spec => []IInv`, `Spec => []TypeOK` |
| `RecordsAllOrNothing` | `Spec => []AllOrNothing` |
| `SummaryIsReported` | `Spec => []SummaryMatchesReport` |
| `ReportAcceptsWhen` | `Spec => []ReportContract` |
| `VerdictCountsCases` | `Spec => []VerdictPerCase` |
| `Refinement` | `Spec => ImplementsRawFile` |

`IInv` ties the two suites to one plan: `Starts` says that the file is the beginning of
`Complete`, and `Skipping`, `Rewriting` and `Recording` where in it each phase is and that
the summary counts the cases done so far (`Tallied`). The place is arithmetic: sample `k`
of the case after `a` others is line `Row(skips, a, k)`, and division by the number
of samples gives `a` and `k` back (`Division`). A line past the skips means, in
sqlite_parity, that every case has a verdict (`Decided`); rql_phase1 also needs what it
has seen of the case at hand (`SoFar`). At a good end the file is `Complete`
(`Ended`), so the three properties about the report are facts about `Layout` alone: what
distinct cases, statuses, repetitions and warmups `ReportCounts` and `ReportAccepts`
find in it is counted by bijections with the cases and samples it was laid out from.
`Refinement` needs no more than `Starts` after the step: the file only grows, and along
the plan.

The same module proves of `DotCommands`, for inputs of any length over any lines
(`InputAssumption`):

| Theorem | States |
|---|---|
| `FlagsStand` | `DotSpec => []SettingsStand` |
| `InputRefused` | `DotSpec => []BailsForALine` |

`DotInv` adds to the two that `saw_sql` is what the lines say. A line that bears on a
setting becomes the last that does (`CommandSays`), any other leaves it; `RqlLowering`
takes no other step on `lines` and `stripped`.

`Oracle_proofs`, for every number of cases and features, whatever the cases declare and
whatever is printed (`OracleAssumption`), over any words (`WordsAssumption`):

| Theorem | States |
|---|---|
| `Invariance`, `TypeCorrect` | `Spec => []IInv`, `Spec => []TypeOK` |
| `TargetIsNotBlamed` | `Spec => []TargetNotBlamed` |
| `ReportAddsLane` | `Spec => []ReportAddsTargetLane` |
| `HidesNothingElse` | `Spec => []HidesOnlyDeclared` |
| `Idempotent` | every normalizer but `json_string_array_unquote`, applied twice, does what it does once |
| `UnquotesAgain` | `json_string_array_unquote` does not |

`IInv`: the summary counts the outcomes so far (`Counted`), a case has a target lane only
if its own lane passed (`LanesEarned`), the cases are taken in order (`Progress`), and the
file, once written, is the features and the lanes of all outcomes (`Written`). The file
is a flattened sequence of sequences: `Flattened` says that it holds the parts, each in
one piece, and nothing else. So a target's record stands right behind one of the same case
that passed, and ids by status are sets of cases by status (`IdsInFile`), which meet only
for cases passed in both lanes (`LanesCount`): there the report counts once, and a target
that failed or was skipped it counts beside the `passed` of the same case.

`HidesNothingElse` is about chains of any length, in any order, on any texts, and its
difficulty is that a normalizer reads what the one before it made: an object may have the
brackets of an array by then, a blank may have become `NULL`, a string lost one layer
of quotes. `Essence` itself is no invariant of a chain, as what it sorts or flattens
depends on brackets a chain changes. The proof takes a coarser thing, the `Kernel` of a
cell: its bracket up to `pg_array_brace_to_bracket`, and of its items, word by word up to the
declared tables, the set of members if they are sorted, the words in order if strings
lose their quotes. Each declared normalizer takes cells of a chain (`Passing`) to such
cells with the same kernel (`MapWordsKeeps`, `SortKeeps`, `UnquoteKeeps`, ...,
`ApplyKeeps`), hence so does a chain (`ChainKeeps`); two cells of `Cells` with one kernel have
one essence (`KernelGivesEssence`); and compare modes, which see rows only, follow
(`ModeFollows`: rows that are equal on one side are equal on the other, so a bijection
between equal rows serves both). The rest is an invariant of `Oracle`, `Judged`, which
follows the runs of psql: how many there are at each step, that the first ended well and
the second gave the same rows (`Steady`) once a third is asked for, and that the verdict
is whether the third and the target's agree. `TargetIsNotBlamed` follows from it too, as
agreeing is transitive.

`Capabilities_proofs`, for any builds with any features, any probes in any order, any
catalog and any number of replacements (`CapabilitiesAssumption`: the two programs have
no build in common, and no capability is named as another step is):

| Theorem | States |
|---|---|
| `Invariance` | `Spec => []IInv` |
| `CasesAreSkippedForCause` | `Spec => []SkipsForCause` |
| `OnePairIsNamed` | `Spec => []RecordsNameOnePair` |

`Progress` says that what each step before `at` is there to find out has been found out:
an identity has been read, the pair is valid, a capability is known or its probe erred. It
speaks of the build identified, for as long as that stands (`steady`); `Seen` says that
all that is known of such a build is true. Nothing is recorded before all is found out,
nor identified again after (`Kept`).

`Corpus_proofs`, for any number of generators, tools and changes, any SQL, builds and time
zones, and any answers, those to a generator's SQL being deterministic on each host, that
is per build and zone (`CorpusAssumption`, `RecipesAreDeterministic`):

| Theorem | States |
|---|---|
| `Invariance` | `Spec => []IInv` |
| `GeneratedShardsStayGreen` | `Spec => []GreenByConstruction` |
| `GatedTreeIsCurrent` | `Spec => []GateIsCurrent` |
| `VettedCorpusLoads` | `Spec => []GateMeansLoads` |

`Underway`: a tool that takes all files and has found no fault vouches for those it is
done with, which is inductive because nothing else writes while it runs. When it
ends this becomes `Fresh` or `Gated`, which name the host vouched for, and every write that
could make them false takes them back. `NoFault` is the other half of
`GreenByConstruction`: while what was found fresh is still so, no tool finds fault with it.

The library's induction theorems cannot be instantiated here. Where a proof needs
induction (`Flattened`, `ChainExists`, the sums in `Suites_proofs`), it takes the least number that
breaks the claim, which a well-founded order on `Nat` provides (`Least`).

Model-checked only:

- `EventuallyAnswers` and `Answers`: liveness under fairness is out of the prover's reach.
- `RefusedForAReason` and `EveryEditShows` of `RqlLowering`: what `Lower` makes of a tree
  is recursive, and what a recursion does on every tree needs induction over trees. Of
  the lines the former speaks of, `InputRefused` proves its part.

## Findings

- `README.md:79` says of `--workers` "accepted; execution is serial in this
  release". `run_case_set` runs as many cases at once as there are workers, `auto`
  being the number of processors (`PoolSerialDoc`).
- `src/beyond_sqlite/case.rs:69` says the oracle skips a case whose required
  features the target does not advertise. `requires_engine_features` is read by no
  code of the oracle (`OracleDoc`).
- `src/beyond_sqlite/normalize.rs:142` says that of points between digits only
  "a fractional-seconds pattern, not e.g. `1.5e10` which we DO want to preserve" is
  stripped. Once a colon was put out, anywhere before, every fraction is: behind a
  timestamp the cells 1.5 and 1 compare equal (`NormalizersDoc`).

Five texts are behind the code and have no run: `normalize.rs:8` says each normalizer
is idempotent, and `json_string_array_unquote` is not (`UnquotesAgain`: it takes off one
layer of quotes each time); `engine.rs:286` says the
target is probed only for what some case requires, but it is probed for all
fourteen; `case.rs:103` says capabilities are resolved against the reference,
but a case is also skipped for what the target lacks, and then with a
reason that reads `sqlite3 <version of the target> lacks ...`; `justfile:29` says the drift
check of the generators is wired into pr-ci, where no script calls it; and
`generators.rs:1` says every generated case is green "by construction", which holds only
in the time zone it was generated in, because of `'utc'` (`ChangeZone`).

## Not modelled

- The comparison of two outputs (`validate_compare` of either suite): what a
  sample yields is free in `ParityRun` and `RqlRun`.
- The composition of `RqlLowering` and `Capabilities` with the suites: those start
  from any set of cases skipped and rewritten.
- Ranking, medians, CSV and SVG: pure functions of the raw file whose
  values no other part reads; a bounded check would compare a formula with itself.
- `sentinel` and `jankurai-compare`: one pass over one file, nothing to interleave or
  to lose.
- `VmRSS`, sampled beside `VmHWM` in the same way.
- A child that closes a stream early or leaves it to a child of its own; the set-up
  of scratch directories.
- Values that hold a separator, in `Normalizers`; white space beside words; objects with
  a key twice, arrays that mix timestamps and numbers.
- Two runs in one directory at the same time; edits while a tool or a report runs.
- The SQL the generators put together; a generator that expects a failure (there
  is none).
- Release scripts: they copy and hash files, without state of their own.
- Parsing of the command line by clap. `resolve_workers` and `validate_samples` are
  the assumptions on `W`, `Warmup` and `Repetitions`.

## Plan

What is left, in order of what matters to a verdict:

1. `Capabilities` and `RqlLowering` in place of the free choice of skips in
   `Suites`.
2. A proof that `Lower` refuses for a reason only, with trees as functions on paths in
   place of the recursion.
