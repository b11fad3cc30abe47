----------------------------- MODULE Capabilities ---------------------------
(***************************************************************************)
(* How a parity suite starts (run of src/sqlite_parity/mod.rs and          *)
(* rql_phase1.rs, with src/sqlite_parity/engine.rs): both binaries are     *)
(* identified and told apart, their capabilities are probed one child      *)
(* process after the other, the cases are split into those to run and      *)
(* those to skip, and every record names the binary it was told at first.  *)
(*                                                                         *)
(* A binary is a file: a build of the target may finish while the suite is *)
(* running, and every step looks at what the path holds then.              *)
(***************************************************************************)
EXTENDS Naturals, Sequences

CONSTANTS
  Sqlites, Redlines,   \* the builds there are of either program
  Probes,              \* the capabilities, in the order of their probes
  CaseKinds,           \* bounds of the model: the cases a catalog is made of,
  N,                   \* how many it has
  MaxReplaced          \* and how often a build takes the place of another

Caps == {Probes[i] : i \in DOMAIN Probes}

ASSUME CapabilitiesAssumption ==
  /\ Sqlites \cap Redlines = {}
  /\ "none" \notin Sqlites \cup Redlines
  /\ Probes \in Seq(STRING)
  /\ Caps \cap {"sha", "product", "validate", "version"} = {}
  /\ N \in Nat /\ MaxReplaced \in Nat

VARIABLES
  path,       \* path[e] : the build at the path of engine e
  features,   \* features[b] : the capabilities build b has
  catalog,    \* the cases, in order
  at,         \* the place of the next step in Steps
  identity,   \* identity[e] : as remembered in the OnceLock
  caps,       \* caps[e] : the capabilities found so far
  known,      \* the engines whose capabilities count in the partition
  records,    \* what was run: the case, the builds named and the builds run
  replaced,   \* how often a build was replaced
  steady,     \* the engines whose build is still the one identified
  erred       \* the capabilities for which a probe of the target erred

vars == <<path, features, catalog, at, identity, caps, known, records, replaced, steady, erred>>

Engines == {"reference", "target"}
Builds == Sqlites \cup Redlines
Product(build) == IF build \in Redlines THEN "redlinedb" ELSE "sqlite3"

\* A case: what the table of old cases says, and the tokens it carries itself.
Case(status, legacy, tokens) == [status |-> status, legacy |-> legacy, tokens |-> tokens]

Unknown == [sha |-> "none", product |-> "none"]

Step(e, what) == [engine |-> e, what |-> what]
Starting ==
  <<Step("reference", "sha"), Step("reference", "product"),
    Step("target", "sha"), Step("target", "product"), Step("both", "validate")>>
Probing(e) == <<Step(e, "version")>> \o [i \in DOMAIN Probes |-> Step(e, Probes[i])]
Steps == Starting \o Probing("reference") \o Probing("target")

\* All steps are done: the cases are split and run.
Split == at = Len(Steps) + 1

Init ==
  /\ path \in [Engines -> Builds]
  /\ features \in [Builds -> SUBSET Caps]
  /\ catalog \in [1 .. N -> CaseKinds]
  /\ at = 1
  /\ identity = [e \in Engines |-> Unknown]
  /\ caps = [e \in Engines |-> {}]
  /\ known = {}
  /\ records = <<>>
  /\ replaced = 0
  /\ steady = Engines
  /\ erred = {}

\* Somebody installs another build.
Replace ==
  /\ replaced < MaxReplaced
  /\ \E e \in Engines, build \in Builds :
       /\ path[e] # build
       /\ path' = [path EXCEPT ![e] = build]
       /\ steady' = IF identity[e] = Unknown THEN steady ELSE steady \ {e}
  /\ replaced' = replaced + 1
  /\ UNCHANGED <<features, catalog, at, identity, caps, known, records, erred>>

-----------------------------------------------------------------------------
(* The start *)

AtStep(what) == at \in DOMAIN Steps /\ Steps[at].what \in what
Engine == Steps[at].engine
Done == at' = at + 1

\* An error ends the suite: nothing is left to do and nothing was run.
Aborted == 0

\* binary_identity reads the file, then runs it for its version; get_or_init
\* keeps the answer, or the error, for the rest of the suite.
Identify ==
  /\ AtStep({"sha", "product"})
  /\ identity' = [identity EXCEPT ![Engine][Steps[at].what] =
                    IF Steps[at].what = "sha" THEN path[Engine] ELSE Product(path[Engine])]
  /\ Done
  /\ UNCHANGED <<path, features, catalog, caps, known, records, replaced, steady, erred>>

Valid ==
  /\ identity["reference"].sha # identity["target"].sha
  /\ identity["target"].product = "redlinedb"

Validate ==
  /\ AtStep({"validate"})
  /\ at' = IF Valid THEN at + 1 ELSE Aborted
  /\ UNCHANGED <<path, features, catalog, identity, caps, known, records, replaced, steady, erred>>

\* Its --version answered: the engine has capabilities, none found so far.
ProbeVersion ==
  /\ AtStep({"version"})
  /\ known' = known \cup {Engine}
  /\ Done
  /\ UNCHANGED <<path, features, catalog, identity, caps, records, replaced, steady, erred>>

Probe ==
  /\ AtStep(Caps)
  /\ caps' = [caps EXCEPT ![Engine] =
                @ \cup ({Steps[at].what} \cap features[path[Engine]])]
  /\ Done
  /\ UNCHANGED <<path, features, catalog, identity, known, records, replaced, steady, erred>>

\* Variant: an error of a probe of the reference counts as no.
FatalSansProbes ==
  \/ Engine = "reference" /\ ~AtStep(Caps)
  \/ AtStep({"sha", "product"})

\* What ends the suite when it errs: whatever identifies a binary, and every
\* probe of the reference.
Fatal == Engine = "reference" \/ AtStep({"sha", "product"})

\* A child process cannot be started, or does not read what it is given.  An
\* error of the target's --version leaves the target out of the partition, an
\* error of another probe of it counts as no.
ProbeErrs ==
  /\ AtStep({"sha", "product", "version"} \cup Caps)
  /\ at' = CASE Fatal -> Aborted
             [] ~Fatal /\ AtStep({"version"}) -> Len(Steps) + 1
             [] OTHER -> at + 1
  /\ erred' = IF ~Fatal /\ Engine = "target" THEN erred \cup {Steps[at].what} ELSE erred
  /\ UNCHANGED <<path, features, catalog, identity, caps, known, records, replaced, steady>>

-----------------------------------------------------------------------------
(* The partition *)

\* The places of the selected cases in the catalog.
Selected == {i \in 1 .. N : catalog[i].status \in {"active", "catalog_only"}}

\* Tokens that name no capability are dropped.
Required(case) == (case.legacy \cup case.tokens) \cap Caps

Runs(case) == \A e \in known : Required(case) \subseteq caps[e]
Runnable == {i \in Selected : Runs(catalog[i])}
Skipped == Selected \ Runnable
Ran == {records[n].case : n \in DOMAIN records}

\* Variant: the identity is asked of the path again.
NamedNow(e) == path[e]
Named(e) == identity[e].sha

\* run_case: the engine's binary is run and the record names its identity.
\* The reference runs first; a build replaced in between is one replaced before,
\* since the other engine has nothing to do with it.
RunCase ==
  /\ Split
  /\ \E i \in Runnable \ Ran :
       /\ \A j \in Runnable \ Ran : i <= j
       /\ records' = Append(records,
            [case |-> i, named |-> [e \in Engines |-> Named(e)], ran |-> path])
  /\ UNCHANGED <<path, features, catalog, at, identity, caps, known, replaced, steady, erred>>

Next ==
  \/ Replace \/ Identify \/ Validate \/ ProbeVersion \/ Probe \/ ProbeErrs \/ RunCase

Spec == Init /\ [][Next]_vars

-----------------------------------------------------------------------------
(* Properties *)

Has(e) == features[identity[e].sha]

\* While no binary is replaced, a case that is run needs nothing the reference
\* lacks, and nothing the target lacks if the target answered --version; a case
\* that is skipped needs something that one of them lacks, or for which a probe
\* of the target erred.  An error of the reference is never taken for a no.
SkipsForCause ==
  Split /\ steady = Engines =>
    /\ "reference" \in known
    /\ \A i \in Runnable : \A e \in known : Required(catalog[i]) \subseteq Has(e)
    /\ \A i \in Skipped :
         ~ Required(catalog[i]) \subseteq (Has("reference") \cap (Has("target") \ erred))

\* All records of a suite name the same two builds, and never one build for
\* both engines; where a build was not replaced after it was identified, they
\* name the one that was run, and the target's is of redlinedb.
RecordsNameOnePair ==
  \A i \in DOMAIN records :
    LET record == records[i]
    IN  /\ record.named = records[1].named
        /\ record.named["reference"] # record.named["target"]
        /\ \A e \in steady : record.named[e] = record.ran[e]
        /\ "target" \in steady => record.named["target"] \in Redlines
=============================================================================
