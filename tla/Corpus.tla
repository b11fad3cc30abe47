------------------------------- MODULE Corpus -------------------------------
(***************************************************************************)
(* The corpus of sqlite_parity cases and the developer's tools for it:     *)
(* `xtask generate` writes the shards of the generators with what sqlite3  *)
(* answers, `xtask generate --check` looks for drift, `xtask ship-gate`    *)
(* validates every shard, build.rs embeds them in the runner, and          *)
(* extended_cases parses what was embedded whenever a suite starts.        *)
(*                                                                         *)
(* What sqlite3 answers depends on its build and, where the SQL has the    *)
(* modifier 'utc', on the time zone of the host, which the tools leave as  *)
(* it is.  A shard stands for the list of its cases by one of them.  While *)
(* a tool runs nobody edits, installs another sqlite3, changes the zone or *)
(* builds the runner; what a build would find then, one finds that comes   *)
(* after the tool is killed.                                               *)
(***************************************************************************)
EXTENDS Naturals

CONSTANTS
  G,           \* how many generators there are
  Recipes,     \* the SQL a generator may have
  Authored,    \* the SQL of hand-written cases
  Builds,      \* the builds of sqlite3
  Zones,       \* the time zones a host may be in
  Prints,      \* Prints[h][sql] : what may be answered on host h
  MaxTools,    \* bounds of the model: tools started,
  MaxChanges   \* and edits, installations and changes of the zone

\* Where the tools run, so far as the answers depend on it.
Hosts == [sqlite : Builds, zone : Zones]

Unknown == "unknown"
NoHost == [sqlite |-> Unknown, zone |-> Unknown]

ASSUME CorpusAssumption ==
  /\ G \in Nat
  /\ Unknown \notin Builds
  /\ Recipes \cap Authored = {}
  /\ MaxTools \in Nat /\ MaxChanges \in Nat

\* No generator asks for the time or for random values: its dates are fixed, and
\* what 'utc' makes of one depends on nothing but the zone.
ASSUME RecipesAreDeterministic ==
  \A h \in Hosts, sql \in Recipes : \A a, c \in Prints[h][sql] : a = c

Generators == 1 .. G

\* The hand-written shards come first in the order of their names.
Hand == 0
Files == {Hand} \cup Generators

VARIABLES
  host,      \* the build of sqlite3 that is installed, and the time zone
  recipe,    \* recipe[g] : the SQL generator g has
  disk,      \* disk[f] : the shard in the working tree
  embedded,  \* embedded[f] : the shard in the runner
  task,      \* the tool that runs
  fresh,     \* the host whose answers the generated shards were found to be
  gated,     \* the host on which the gate accepted the tree
  vetted,    \* whether the gate had accepted the tree the runner was built from
  tools, changes

vars == <<host, recipe, disk, embedded, task, fresh, gated, vetted, tools, changes>>

Absent == [kind |-> "absent"]
Torn == [kind |-> "torn"]

\* out: what stdout and stderr are compared with.  loads: whether the shard has
\* the fields the runner requires, of its types; the tools leave empty lists to
\* their default and take any priority and profile.
Shard(sql, exit, out, loads) ==
  [kind |-> "shard", sql |-> sql, exit |-> exit, out |-> out, loads |-> loads]

\* What a hand-written case leaves out is not compared.
Any == "any"

Idle == [tool |-> "none"]

Init ==
  /\ host \in Hosts
  /\ recipe \in [Generators -> Recipes]
  /\ disk = [f \in Files |-> Absent]
  /\ embedded = disk
  /\ task = Idle
  /\ fresh = NoHost
  /\ gated = NoHost
  /\ vetted = FALSE
  /\ tools = 0
  /\ changes = 0

-----------------------------------------------------------------------------
(* What happens between the tools *)

Change == task.tool = "none" /\ changes < MaxChanges /\ changes' = changes + 1

Install ==
  /\ Change
  /\ \E build \in Builds \ {host.sqlite} : host' = [host EXCEPT !.sqlite = build]
  /\ UNCHANGED <<recipe, disk, embedded, task, fresh, gated, vetted, tools>>

\* The tools run in another zone, or on a host that is in one.
ChangeZone ==
  /\ Change
  /\ \E zone \in Zones \ {host.zone} : host' = [host EXCEPT !.zone = zone]
  /\ UNCHANGED <<recipe, disk, embedded, task, fresh, gated, vetted, tools>>

EditRecipe ==
  /\ Change
  /\ \E g \in Generators, sql \in Recipes : recipe' = [recipe EXCEPT ![g] = sql]
  /\ fresh' = NoHost
  /\ UNCHANGED <<host, disk, embedded, task, gated, vetted, tools>>

\* What somebody may expect of a case: what is answered to it on some host.
Expectations(sql) ==
  LET answers == UNION {Prints[h][sql] : h \in Hosts}
  IN  [exit : {0, 1}, out : {a.out : a \in answers} \cup {Any}]

Author ==
  /\ Change
  /\ \E sql \in Authored, loads \in BOOLEAN : \E x \in Expectations(sql) :
       disk' = [disk EXCEPT ![Hand] = Shard(sql, x.exit, x.out, loads)]
  /\ gated' = NoHost
  /\ UNCHANGED <<host, recipe, embedded, task, fresh, vetted, tools>>

\* build.rs embeds every file, whatever is in it.
Build ==
  /\ task.tool = "none"
  /\ embedded # disk
  /\ embedded' = disk
  /\ vetted' = (gated # NoHost)
  /\ UNCHANGED <<host, recipe, disk, task, fresh, gated, tools, changes>>

\* extended_cases errs on the first shard it cannot parse.
Loads == \A f \in Files : embedded[f] # Absent => embedded[f].kind = "shard" /\ embedded[f].loads

-----------------------------------------------------------------------------
(* The tools *)

\* --only names a generator, or nothing any generator is called; the gate is
\* given the directory or one file.
Start ==
  /\ task.tool = "none"
  /\ tools < MaxTools
  /\ tools' = tools + 1
  /\ \/ \E tool \in {"generate", "check"}, only \in {Generators, {}} \cup {{g} : g \in Generators} :
          task' = [tool |-> tool, todo |-> only, all |-> only = Generators, bad |-> {}]
     \/ \E listed \in {{f \in Files : disk[f] # Absent}} \cup {{f} : f \in {h \in Files : disk[h] # Absent}} :
          task' = [tool |-> "gate", todo |-> listed,
                   all |-> \A f \in Files : disk[f] # Absent => f \in listed, bad |-> {}]
  /\ UNCHANGED <<host, recipe, disk, embedded, fresh, gated, vetted, changes>>

\* A tool takes its files one after the other, in their order.
Running(tool) == task.tool = tool /\ task.todo # {}
Here == CHOOSE f \in task.todo : \A x \in task.todo : f <= x

\* The rest of a tool's loop, with a fault found at this file or none.
Go(fault) == task' = [task EXCEPT !.todo = @ \ {Here}, !.bad = @ \cup fault]

Stop == task' = Idle

\* execute: the installed build answers, in the zone of the host.
Executed(sql) == Prints[host][sql]

\* materialize runs the case and fills in what it answered; a failure, where
\* success is expected, ends the tool, as does a process that cannot be run.
Capture(a) == Shard(recipe[Here], a.exit, a.out, TRUE)
Captures == {Capture(a) : a \in {b \in Executed(recipe[Here]) : b.exit = 0}}

Put(shard) ==
  /\ disk' = [disk EXCEPT ![Here] = shard]
  /\ fresh' = NoHost
  /\ gated' = NoHost

\* Variant: the error of the write is dropped.
WriteErrorDropped == Put(Torn) /\ Go({})

\* fs::write truncates the file first.
WriteError == Put(Torn) /\ Stop

GenerateShard ==
  /\ Running("generate")
  /\ \/ \E shard \in Captures : Put(shard) /\ Go({})
     \/ Captures # {} /\ WriteError
     \/ Stop /\ UNCHANGED <<disk, fresh, gated>>
  /\ UNCHANGED <<host, recipe, embedded, vetted, tools, changes>>

CheckShard ==
  /\ Running("check")
  /\ \/ \E shard \in Captures : Go(IF disk[Here] = shard THEN {} ELSE {Here})
     \/ Stop
  /\ UNCHANGED <<host, recipe, disk, embedded, fresh, gated, vetted, tools, changes>>

\* Variant: the exit code is not looked at.
AgreesSansExit(shard, a) == shard.out \in {a.out, Any}

Agrees(shard, a) == shard.exit = a.exit /\ shard.out \in {a.out, Any}

\* Variant: a file that does not parse is passed over.
UnreadablePassedOver == Go({})
Unreadable == Stop

\* Stands in task.bad for a process that could not be run.
Process == G + 1

\* validate; an error of the process counts as a failure of its case.
GateShard ==
  /\ Running("gate")
  /\ \/ disk[Here] = Torn /\ Unreadable
     \/ /\ disk[Here] # Torn
        /\ \/ \E a \in Executed(disk[Here].sql) :
                Go(IF Agrees(disk[Here], a) THEN {} ELSE {Here})
           \/ Go({Process})
  /\ UNCHANGED <<host, recipe, disk, embedded, fresh, gated, vetted, tools, changes>>

Finish ==
  /\ task.tool # "none"
  /\ task.todo = {}
  /\ Stop
  /\ fresh' = IF task.tool # "gate" /\ task.all /\ task.bad = {} THEN host ELSE fresh
  /\ gated' = IF task.tool = "gate" /\ task.all /\ task.bad = {} THEN host ELSE gated
  /\ UNCHANGED <<host, recipe, disk, embedded, vetted, tools, changes>>

\* A tool is killed, perhaps while it writes.
Killed ==
  /\ task.tool # "none"
  /\ Stop
  /\ \/ Running("generate") /\ Put(Torn)
     \/ UNCHANGED <<disk, fresh, gated>>
  /\ UNCHANGED <<host, recipe, embedded, vetted, tools, changes>>

Next ==
  \/ Install \/ ChangeZone \/ EditRecipe \/ Author \/ Build \/ Start
  \/ GenerateShard \/ CheckShard \/ GateShard \/ Finish \/ Killed

Spec == Init /\ [][Next]_vars

-----------------------------------------------------------------------------
(* Properties *)

\* "By construction every generated case ships ship-gate-green", while nothing
\* it rests on changes: once generate or its check has ended well for all
\* generators, and until a recipe, a generated shard, sqlite3 or the time zone is
\* changed, neither the gate nor another check finds fault with a generated
\* shard, however many tools failed or were killed before and whatever the
\* hand-written shards hold.
GreenByConstruction ==
  fresh = host /\ task.tool # "none" =>
    /\ task.bad \cap Generators = {}
    /\ \A g \in Generators : disk[g].kind = "shard"

\* While the tree is as the gate accepted it, every shard in it records what may
\* be answered on the host it was accepted on: shards a failed generate has left
\* of another build, or of another zone, do not pass.
GateIsCurrent ==
  gated # NoHost =>
    \A f \in Files : disk[f] # Absent =>
      /\ disk[f].kind = "shard"
      /\ \E a \in Prints[gated][disk[f].sql] : disk[f].exit = a.exit /\ disk[f].out \in {a.out, Any}

\* A runner built from a tree the gate has accepted loads its corpus, unless a
\* hand-written shard leaves out what only the runner requires.
GateMeansLoads ==
  vetted => (Loads <=> embedded[Hand] = Absent \/ embedded[Hand].loads)
=============================================================================
