---------------------------- MODULE Corpus_proofs ---------------------------
(***************************************************************************)
(* Proofs about Corpus, for any generators, SQL, builds of sqlite3, time   *)
(* zones and answers, and any number of tools and changes.                 *)
(*                                                                         *)
(* The argument: a tool that takes every file vouches, while it has found  *)
(* no fault, for the files it is done with, since nobody else writes while *)
(* it runs; what it vouched for when it ended stays true until a write     *)
(* takes it back.                                                          *)
(***************************************************************************)
EXTENDS Corpus, WellFoundedInduction, TLAPS

-----------------------------------------------------------------------------
(* The inductive invariant *)

\* What is answered on any host, and what a shard may record.
Answers == UNION {Prints[h][sql] : h \in Hosts, sql \in Recipes \cup Authored}
Exits == {a.exit : a \in Answers} \cup {0, 1}
Outs == {a.out : a \in Answers} \cup {Any}
Shards == [kind : {"shard"}, sql : Recipes \cup Authored, exit : Exits, out : Outs, loads : BOOLEAN]
Contents == {Absent, Torn} \cup Shards

\* The shape of the state.
Types ==
  /\ host \in Hosts
  /\ recipe \in [Generators -> Recipes]
  /\ disk \in [Files -> Contents] /\ embedded \in [Files -> Contents]
  /\ task \in {Idle} \cup [tool : {"generate", "check", "gate"}, todo : SUBSET Files, all : BOOLEAN,
                           bad : SUBSET (Files \cup {Process})]
  /\ fresh \in Hosts \cup {NoHost} /\ gated \in Hosts \cup {NoHost}
  /\ vetted \in BOOLEAN

\* Shard g holds what is answered on host h to the generator's SQL as it is.
CapturedOf(h, g) ==
  \E a \in Prints[h][recipe[g]] : a.exit = 0 /\ disk[g] = Shard(recipe[g], a.exit, a.out, TRUE)

\* Shard f, if there is one, is as may be answered on host h.
AcceptedOf(h, f) ==
  disk[f] # Absent =>
    /\ disk[f].kind = "shard"
    /\ \E a \in Prints[h][disk[f].sql] : Agrees(disk[f], a)

\* Generated shards have all fields, in the tree and in the runner.
Whole == \A g \in Generators : /\ disk[g].kind = "shard" => disk[g].loads
                               /\ embedded[g].kind = "shard" => embedded[g].loads

\* A tool that takes all files and has found no fault vouches for those done.
Underway ==
  /\ task.tool \in {"generate", "check"} =>
       /\ task.todo \subseteq Generators
       /\ task.all /\ task.bad = {} => \A g \in Generators \ task.todo : CapturedOf(host, g)
  /\ task.tool = "gate" =>
       (task.all /\ task.bad = {} => \A f \in Files \ task.todo : AcceptedOf(host, f))

Fresh == fresh # NoHost => \A g \in Generators : CapturedOf(fresh, g)
NoFault == fresh = host /\ task.tool # "none" => task.bad \cap Generators = {}
Gated == gated # NoHost => \A f \in Files : AcceptedOf(gated, f)
Vetted == vetted => \A f \in Files : embedded[f] # Absent => embedded[f].kind = "shard"

IInv == Types /\ Whole /\ Underway /\ Fresh /\ NoFault /\ Gated /\ Vetted

LEMMA NoHostIsNone == NoHost \notin Hosts
BY CorpusAssumption DEF NoHost, Hosts

-----------------------------------------------------------------------------
(* A tool's loop *)

\* A tool at work takes one of the files it has left.
LEMMA HereIsLeft ==
  ASSUME Types, task.tool # "none", task.todo # {}
  PROVE  Here \in task.todo /\ Here \in Files
<1>1. task.todo \in SUBSET Files /\ Files \in SUBSET Nat
  BY CorpusAssumption DEF Types, Idle, Files, Generators, Hand
<1>2. PICK m \in task.todo : \A k \in task.todo : ~ (<<k, m>> \in OpToRel(<, Nat))
  BY <1>1, NatLessThanWellFounded, WFMin
<1>3. \A k \in task.todo : m <= k
  <2>1. \A k \in task.todo : ~ (k < m)
    BY <1>1, <1>2 DEF OpToRel
  <2>2. m \in Nat /\ \A k \in task.todo : k \in Nat
    BY <1>1
  <2> QED
    BY <2>1, <2>2
<1>4. Here \in task.todo
  BY <1>3 DEF Here
<1> QED
  BY <1>1, <1>4

\* What Go does to the tool.
LEMMA Went ==
  ASSUME Types, task.tool # "none", task.todo # {}, NEW fault \in SUBSET (Files \cup {Process}), Go(fault)
  PROVE  /\ task' \in [tool : {"generate", "check", "gate"}, todo : SUBSET Files, all : BOOLEAN,
                       bad : SUBSET (Files \cup {Process})]
         /\ task'.tool = task.tool /\ task'.all = task.all
         /\ task'.todo = task.todo \ {Here} /\ task'.bad = task.bad \cup fault
<1>1. task \in [tool : {"generate", "check", "gate"}, todo : SUBSET Files, all : BOOLEAN,
                bad : SUBSET (Files \cup {Process})]
  BY DEF Types, Idle
<1> QED
  BY <1>1 DEF Go

\* A recipe has one answer.
LEMMA OneAnswer ==
  ASSUME Types, NEW h \in Hosts, NEW g \in Generators, NEW a \in Prints[h][recipe[g]], CapturedOf(h, g)
  PROVE  a.exit = 0 /\ disk[g] = Shard(recipe[g], a.exit, a.out, TRUE) /\ AcceptedOf(h, g) /\ Agrees(disk[g], a)
<1>1. recipe[g] \in Recipes
  BY DEF Types
<1>2. PICK c \in Prints[h][recipe[g]] : c.exit = 0 /\ disk[g] = Shard(recipe[g], c.exit, c.out, TRUE)
  BY DEF CapturedOf
<1>3. a = c
  BY <1>1, <1>2, RecipesAreDeterministic
<1>4. a.exit = 0 /\ disk[g] = Shard(recipe[g], a.exit, a.out, TRUE)
  BY <1>2, <1>3
<1>5. disk[g].kind = "shard" /\ disk[g].sql = recipe[g] /\ disk[g].exit = a.exit /\ disk[g].out = a.out
  BY <1>4 DEF Shard
<1>6. Agrees(disk[g], a)
  BY <1>5 DEF Agrees
<1>7. AcceptedOf(h, g)
  BY <1>5, <1>6 DEF AcceptedOf
<1> QED
  BY <1>4, <1>6, <1>7

\* A shard that was captured has all fields, of the shape of a shard.
LEMMA CapturedIsShard ==
  ASSUME Types, Here \in Generators, NEW shard \in Captures
  PROVE  /\ shard \in Shards /\ shard.kind = "shard" /\ shard.loads = TRUE
         /\ \E a \in Prints[host][recipe[Here]] : a.exit = 0 /\ shard = Shard(recipe[Here], a.exit, a.out, TRUE)
<1>1. PICK a \in Prints[host][recipe[Here]] : a.exit = 0 /\ shard = Shard(recipe[Here], a.exit, a.out, TRUE)
  BY DEF Captures, Capture, Executed
<1>2. host \in Hosts /\ recipe[Here] \in Recipes
  BY DEF Types
<1>3. a \in Answers
  BY <1>1, <1>2 DEF Answers
<1>4. a.exit \in Exits /\ a.out \in Outs
  BY <1>3 DEF Exits, Outs
<1> QED
  BY <1>1, <1>2, <1>4 DEF Shard, Shards

-----------------------------------------------------------------------------
(* The invariant is inductive *)

LEMMA Initially ==
  ASSUME Init
  PROVE  IInv
<1>1. disk \in [Files -> Contents]
  BY DEF Init, Contents
<1>2. Types
  BY <1>1 DEF Init, Types
<1>3. Whole
  BY DEF Init, Whole, Absent, Files
<1>4. Underway /\ NoFault
  BY DEF Init, Underway, NoFault, Idle
<1>5. Fresh /\ Gated /\ Vetted
  BY DEF Init, Fresh, Gated, Vetted
<1> QED
  BY <1>2, <1>3, <1>4, <1>5 DEF IInv

\* What a step that leaves the shards and what is known of them alone, and no
\* tool at work, keeps.
LEMMA Stopping ==
  ASSUME IInv, Stop, UNCHANGED <<host, recipe, disk, embedded, fresh, gated, vetted>>
  PROVE  IInv'
<1> USE DEF IInv
<1>1. task'.tool = "none" /\ Types'
  BY DEF Stop, Idle, Types
<1> QED
  BY <1>1 DEF Whole, Underway, Fresh, NoFault, Gated, Vetted, CapturedOf, AcceptedOf

LEMMA HostKeeps ==
  ASSUME IInv, Install \/ ChangeZone
  PROVE  IInv'
<1> USE DEF IInv
<1>1. /\ task.tool = "none" /\ host' \in Hosts
      /\ UNCHANGED <<recipe, disk, embedded, task, fresh, gated, vetted>>
  BY DEF Install, ChangeZone, Change, Types, Hosts
<1>2. Types'
  BY <1>1 DEF Types
<1> QED
  BY <1>1, <1>2 DEF Whole, Underway, Fresh, NoFault, Gated, Vetted, CapturedOf, AcceptedOf

LEMMA EditRecipeKeeps ==
  ASSUME IInv, EditRecipe
  PROVE  IInv'
<1> USE DEF IInv
<1>1. PICK g \in Generators, sql \in Recipes : recipe' = [recipe EXCEPT ![g] = sql]
  BY DEF EditRecipe
<1>2. task.tool = "none" /\ fresh' = NoHost /\ UNCHANGED <<host, disk, embedded, task, gated, vetted>>
  BY DEF EditRecipe, Change
<1>3. Types'
  BY <1>1, <1>2 DEF Types
<1> QED
  BY <1>2, <1>3, CorpusAssumption DEF Whole, Underway, Fresh, NoFault, Gated, Vetted, AcceptedOf

LEMMA AuthorKeeps ==
  ASSUME IInv, Author
  PROVE  IInv'
<1> USE DEF IInv
<1>1. PICK sql \in Authored, loads \in BOOLEAN : \E x \in Expectations(sql) :
        disk' = [disk EXCEPT ![Hand] = Shard(sql, x.exit, x.out, loads)]
  BY DEF Author
<1>2. PICK x \in Expectations(sql) : disk' = [disk EXCEPT ![Hand] = Shard(sql, x.exit, x.out, loads)]
  BY <1>1
<1>3. task.tool = "none" /\ gated' = NoHost /\ UNCHANGED <<host, recipe, embedded, task, fresh, vetted>>
  BY DEF Author, Change
<1>4. x.exit \in Exits /\ x.out \in Outs
  BY DEF Expectations, Exits, Outs, Answers
<1>5. Shard(sql, x.exit, x.out, loads) \in Shards
  BY <1>4 DEF Shard, Shards
<1>6. Types'
  BY <1>2, <1>3, <1>5 DEF Types, Contents
<1>7. \A g \in Generators : disk'[g] = disk[g]
  BY <1>2, CorpusAssumption DEF Types, Generators, Hand, Files
<1> QED
  BY <1>3, <1>6, <1>7, ZenonT(30) DEF Whole, Underway, Fresh, NoFault, Gated, Vetted, CapturedOf

LEMMA BuildKeeps ==
  ASSUME IInv, Build
  PROVE  IInv'
<1> USE DEF IInv
<1>1. /\ task.tool = "none" /\ embedded' = disk /\ vetted' = (gated # NoHost)
      /\ UNCHANGED <<host, recipe, disk, task, fresh, gated>>
  BY DEF Build
<1>2. Types'
  BY <1>1 DEF Types
<1>3. Vetted'
  BY <1>1 DEF Vetted, Gated, AcceptedOf
<1> QED
  BY <1>1, <1>2, <1>3 DEF Whole, Underway, Fresh, NoFault, Gated, CapturedOf, AcceptedOf

LEMMA StartKeeps ==
  ASSUME IInv, Start
  PROVE  IInv'
<1> USE DEF IInv
<1>1. UNCHANGED <<host, recipe, disk, embedded, fresh, gated, vetted>>
  BY DEF Start
<1>2. task'.bad = {} /\ Types' /\ Underway'
  <2>1. CASE \E tool \in {"generate", "check"}, only \in {Generators, {}} \cup {{g} : g \in Generators} :
               task' = [tool |-> tool, todo |-> only, all |-> only = Generators, bad |-> {}]
    <3>1. PICK tool \in {"generate", "check"}, only \in {Generators, {}} \cup {{g} : g \in Generators} :
            task' = [tool |-> tool, todo |-> only, all |-> only = Generators, bad |-> {}]
      BY <2>1
    <3>2. only \subseteq Generators /\ only \in SUBSET Files
      BY DEF Files
    <3>3. Types'
      BY <1>1, <3>1, <3>2 DEF Types
    <3> QED
      BY <3>1, <3>2, <3>3 DEF Underway
  <2>2. CASE \E listed \in {{f \in Files : disk[f] # Absent}} \cup {{f} : f \in {h \in Files : disk[h] # Absent}} :
               task' = [tool |-> "gate", todo |-> listed,
                        all |-> \A f \in Files : disk[f] # Absent => f \in listed, bad |-> {}]
    <3>1. PICK listed \in SUBSET Files :
            task' = [tool |-> "gate", todo |-> listed,
                     all |-> \A f \in Files : disk[f] # Absent => f \in listed, bad |-> {}]
      BY <2>2
    <3>2. Types'
      BY <1>1, <3>1 DEF Types
    <3>3. task'.all => \A f \in Files \ listed : AcceptedOf(host, f)'
      BY <1>1, <3>1 DEF AcceptedOf
    <3> QED
      BY <1>1, <3>1, <3>2, <3>3 DEF Underway
  <2> QED
    BY <2>1, <2>2 DEF Start
<1> QED
  BY <1>1, <1>2 DEF Whole, Fresh, NoFault, Gated, Vetted, CapturedOf, AcceptedOf

\* A shard is written at the place of the tool.
LEMMA Written ==
  ASSUME Types, Here \in Files, NEW shard \in Contents, Put(shard)
  PROVE  /\ disk' \in [Files -> Contents] /\ disk'[Here] = shard
         /\ \A f \in Files : f # Here => disk'[f] = disk[f]
         /\ fresh' = NoHost /\ gated' = NoHost
BY DEF Put, Types

\* A tool stops, by an error or a kill, and may leave a torn shard.
LEMMA TornKeeps ==
  ASSUME IInv, Here \in Files, Put(Torn), Stop, UNCHANGED <<host, recipe, embedded, vetted>>
  PROVE  IInv'
<1> USE DEF IInv
<1>1. /\ disk' \in [Files -> Contents] /\ disk'[Here] = Torn
      /\ \A f \in Files : f # Here => disk'[f] = disk[f]
      /\ fresh' = NoHost /\ gated' = NoHost
  BY Written DEF Contents
<1>2. task'.tool = "none" /\ Types'
  BY <1>1 DEF Stop, Idle, Types
<1>3. Torn.kind # "shard"
  BY DEF Torn
<1>4. Whole'
  BY <1>1, <1>3 DEF Whole, Files
<1> QED
  BY <1>1, <1>2, <1>4 DEF Underway, Fresh, NoFault, Gated, Vetted

LEMMA GenerateShardKeeps ==
  ASSUME IInv, GenerateShard
  PROVE  IInv'
<1> USE DEF IInv
<1>1. /\ task.tool = "generate" /\ task.todo # {}
      /\ UNCHANGED <<host, recipe, embedded, vetted>>
  BY DEF GenerateShard, Running
<1>2. Here \in task.todo /\ Here \in Generators /\ Here \in Files
  BY <1>1, HereIsLeft DEF Underway
<1>3. CASE \E shard \in Captures : Put(shard) /\ Go({})
  <2>1. PICK shard \in Captures : Put(shard) /\ Go({})
    BY <1>3
  <2>2. /\ shard \in Contents /\ shard.kind = "shard" /\ shard.loads = TRUE
        /\ \E a \in Prints[host][recipe[Here]] : a.exit = 0 /\ shard = Shard(recipe[Here], a.exit, a.out, TRUE)
    BY <1>2, CapturedIsShard DEF Contents
  <2>3. /\ disk' \in [Files -> Contents] /\ disk'[Here] = shard
        /\ \A f \in Files : f # Here => disk'[f] = disk[f]
        /\ fresh' = NoHost /\ gated' = NoHost
    BY <1>2, <2>1, <2>2, Written
  <2>4. /\ task' \in [tool : {"generate", "check", "gate"}, todo : SUBSET Files, all : BOOLEAN,
                      bad : SUBSET (Files \cup {Process})]
        /\ task'.tool = task.tool /\ task'.all = task.all
        /\ task'.todo = task.todo \ {Here} /\ task'.bad = task.bad
    <3>1. {} \in SUBSET (Files \cup {Process})
      OBVIOUS
    <3>2. task.tool # "none" /\ task.todo # {} /\ Go({})
      BY <1>1, <2>1
    <3> QED
      BY <3>1, <3>2, Went
  <2>5. Types'
    BY <1>1, <2>3, <2>4 DEF Types
  <2>6. Whole'
    BY <1>1, <2>2, <2>3 DEF Whole, Files
  <2>7. \A g \in Generators : g # Here /\ CapturedOf(host, g) => CapturedOf(host, g)'
    BY <1>1, <2>3 DEF CapturedOf, Files
  <2>8. Underway'
    <3>1. task'.todo \subseteq Generators
      BY <1>1, <2>4 DEF Underway
    <3>2. ASSUME task'.all, task'.bad = {}, NEW g \in Generators \ task'.todo
          PROVE  CapturedOf(host, g)'
      <4>1. CASE g = Here
        BY <1>1, <2>2, <2>3, <4>1 DEF CapturedOf
      <4>2. CASE g # Here
        BY <1>1, <2>4, <2>7, <3>2, <4>2 DEF Underway
      <4> QED
        BY <4>1, <4>2
    <3> QED
      BY <1>1, <2>4, <3>1, <3>2 DEF Underway
  <2>9. host' # NoHost
    BY <1>1, NoHostIsNone DEF Types
  <2> QED
    BY <1>1, <2>3, <2>5, <2>6, <2>8, <2>9 DEF Fresh, NoFault, Gated, Vetted
<1>4. CASE Captures # {} /\ WriteError
  BY <1>1, <1>2, <1>4, TornKeeps DEF WriteError
<1>5. CASE Stop /\ UNCHANGED <<disk, fresh, gated>>
  BY <1>1, <1>5, Stopping
<1> QED
  BY <1>3, <1>4, <1>5 DEF GenerateShard

LEMMA CheckShardKeeps ==
  ASSUME IInv, CheckShard
  PROVE  IInv'
<1> USE DEF IInv
<1>1. /\ task.tool = "check" /\ task.todo # {} /\ task.tool # "none"
      /\ UNCHANGED <<host, recipe, disk, embedded, fresh, gated, vetted>>
  BY DEF CheckShard, Running
<1>2. Here \in task.todo /\ Here \in Generators /\ Here \in Files
  BY <1>1, HereIsLeft DEF Underway
<1>3. CASE \E shard \in Captures : Go(IF disk[Here] = shard THEN {} ELSE {Here})
  <2>1. PICK shard \in Captures : Go(IF disk[Here] = shard THEN {} ELSE {Here})
    BY <1>3
  <2>2. PICK a \in Prints[host][recipe[Here]] : a.exit = 0 /\ shard = Shard(recipe[Here], a.exit, a.out, TRUE)
    BY <1>2, CapturedIsShard
  <2> DEFINE fault == IF disk[Here] = shard THEN {} ELSE {Here}
  <2>3. fault \in SUBSET (Files \cup {Process})
    BY <1>2
  <2>4. /\ task' \in [tool : {"generate", "check", "gate"}, todo : SUBSET Files, all : BOOLEAN,
                      bad : SUBSET (Files \cup {Process})]
        /\ task'.tool = task.tool /\ task'.all = task.all
        /\ task'.todo = task.todo \ {Here} /\ task'.bad = task.bad \cup fault
    BY <1>1, <2>1, <2>3, Went
  <2>5. Types'
    BY <1>1, <2>4 DEF Types
  <2>6. \A g \in Generators : CapturedOf(host, g)' <=> CapturedOf(host, g)
    BY <1>1 DEF CapturedOf
  <2>7. fault = {} => CapturedOf(host, Here)
    BY <2>2 DEF CapturedOf
  <2>8. Underway'
    <3>1. task'.todo \subseteq Generators
      BY <1>1, <2>4 DEF Underway
    <3>2. ASSUME task'.all, task'.bad = {}, NEW g \in Generators \ task'.todo
          PROVE  CapturedOf(host, g)'
      <4>1. task.bad = {} /\ fault = {} /\ task.all
        BY <2>4, <3>2
      <4>2. CASE g = Here
        BY <2>6, <2>7, <4>1, <4>2
      <4>3. CASE g # Here
        BY <1>1, <2>4, <2>6, <3>2, <4>1, <4>3 DEF Underway
      <4> QED
        BY <4>2, <4>3
    <3> QED
      BY <1>1, <2>4, <3>1, <3>2 DEF Underway
  <2>9. NoFault'
    <3> SUFFICES ASSUME fresh' = host'
                 PROVE  task'.bad \cap Generators = {}
      BY DEF NoFault
    <3>1. fresh = host /\ host \in Hosts /\ fresh # NoHost
      BY <1>1, NoHostIsNone DEF Types
    <3>2. CapturedOf(host, Here)
      BY <1>2, <3>1 DEF Fresh
    <3>3. disk[Here] = shard
      BY <1>2, <2>2, <3>1, <3>2, OneAnswer
    <3> QED
      BY <1>1, <2>4, <3>1, <3>3 DEF NoFault
  <2> QED
    BY <1>1, <2>5, <2>8, <2>9 DEF Whole, Fresh, Gated, Vetted, CapturedOf, AcceptedOf
<1>4. CASE Stop
  BY <1>1, <1>4, Stopping
<1> QED
  BY <1>3, <1>4 DEF CheckShard

\* What the gate sees of one file, a fault of that file or of the process.
LEMMA GateShardKeeps ==
  ASSUME IInv, GateShard
  PROVE  IInv'
<1> USE DEF IInv
<1>1. /\ task.tool = "gate" /\ task.todo # {} /\ task.tool # "none"
      /\ UNCHANGED <<host, recipe, disk, embedded, fresh, gated, vetted>>
  BY DEF GateShard, Running
<1>2. Here \in task.todo /\ Here \in Files
  BY <1>1, HereIsLeft
<1>3. CASE disk[Here] = Torn /\ Unreadable
  BY <1>1, <1>3, Stopping DEF Unreadable
<1>4. ASSUME NEW fault \in SUBSET (Files \cup {Process}), Go(fault),
             fault = {} => AcceptedOf(host, Here),
             fresh = host => fault \cap Generators = {}
      PROVE  IInv'
  <2>1. /\ task' \in [tool : {"generate", "check", "gate"}, todo : SUBSET Files, all : BOOLEAN,
                      bad : SUBSET (Files \cup {Process})]
        /\ task'.tool = task.tool /\ task'.all = task.all
        /\ task'.todo = task.todo \ {Here} /\ task'.bad = task.bad \cup fault
    BY <1>1, <1>4, Went
  <2>2. Types'
    BY <1>1, <2>1 DEF Types
  <2>3. \A f \in Files : AcceptedOf(host, f)' <=> AcceptedOf(host, f)
    BY <1>1 DEF AcceptedOf, Agrees
  <2>4. ASSUME task'.all, task'.bad = {}, NEW f \in Files \ task'.todo
        PROVE  AcceptedOf(host, f)'
    <3>1. task.bad = {} /\ fault = {} /\ task.all
      BY <2>1, <2>4
    <3>2. CASE f = Here
      BY <1>4, <2>3, <3>1, <3>2
    <3>3. CASE f # Here
      BY <1>1, <2>1, <2>3, <2>4, <3>1, <3>3 DEF Underway
    <3> QED
      BY <3>2, <3>3
  <2>5. Underway'
    BY <1>1, <2>1, <2>4 DEF Underway
  <2>6. NoFault'
    BY <1>1, <1>4, <2>1 DEF NoFault
  <2> QED
    BY <1>1, <2>2, <2>5, <2>6 DEF Whole, Fresh, Gated, Vetted, CapturedOf, AcceptedOf
<1>5. CASE disk[Here] # Torn /\ \E a \in Executed(disk[Here].sql) :
             Go(IF Agrees(disk[Here], a) THEN {} ELSE {Here})
  <2>1. PICK a \in Prints[host][disk[Here].sql] : Go(IF Agrees(disk[Here], a) THEN {} ELSE {Here})
    BY <1>5 DEF Executed
  <2> DEFINE fault == IF Agrees(disk[Here], a) THEN {} ELSE {Here}
  <2>2. fault \in SUBSET (Files \cup {Process})
    BY <1>2
  <2>3. disk[Here] # Absent => disk[Here].kind = "shard"
    BY <1>2, <1>5 DEF Types, Contents, Shards
  <2>4. fault = {} => AcceptedOf(host, Here)
    BY <2>3 DEF AcceptedOf
  <2>5. ASSUME fresh = host
        PROVE  fault \cap Generators = {}
    <3>1. CASE Here \in Generators
      <4>1. CapturedOf(host, Here) /\ host \in Hosts
        BY <2>5, <3>1, NoHostIsNone DEF Fresh, Types
      <4>2. disk[Here].sql = recipe[Here]
        BY <4>1 DEF CapturedOf, Shard
      <4>3. Agrees(disk[Here], a)
        BY <3>1, <4>1, <4>2, OneAnswer
      <4> QED
        BY <4>3
    <3>2. CASE Here \notin Generators
      BY <3>2
    <3> QED
      BY <3>1, <3>2
  <2>6. Go(fault)
    BY <2>1
  <2> HIDE DEF fault
  <2> QED
    BY <1>4, <2>2, <2>4, <2>5, <2>6
<1>6. CASE Go({Process})
  <2>1. Process \notin Generators
    BY CorpusAssumption DEF Process, Generators
  <2> QED
    BY <1>4, <1>6, <2>1
<1> QED
  BY <1>3, <1>5, <1>6 DEF GateShard

\* A tool ends: what it vouched for is known from now on.
LEMMA FinishKeeps ==
  ASSUME IInv, Finish
  PROVE  IInv'
<1> USE DEF IInv
<1>1. /\ task.tool # "none" /\ task.todo = {} /\ task' = Idle
      /\ UNCHANGED <<host, recipe, disk, embedded, vetted>>
  BY DEF Finish, Stop
<1>2. fresh' = fresh \/ (fresh' = host /\ task.tool # "gate" /\ task.all /\ task.bad = {})
  BY DEF Finish
<1>3. gated' = gated \/ (gated' = host /\ task.tool = "gate" /\ task.all /\ task.bad = {})
  BY DEF Finish
<1>4. task.tool \in {"generate", "check", "gate"} /\ task'.tool = "none"
  BY <1>1 DEF Types, Idle
<1>5. Types'
  BY <1>1, <1>2, <1>3 DEF Types
<1>6. Fresh'
  <2>1. CASE fresh' = fresh
    BY <1>1, <2>1 DEF Fresh, CapturedOf
  <2>2. CASE fresh' = host /\ task.tool # "gate" /\ task.all /\ task.bad = {}
    <3>1. \A g \in Generators : CapturedOf(host, g)
      BY <1>1, <1>4, <2>2 DEF Underway
    <3> QED
      BY <1>1, <2>2, <3>1 DEF Fresh, CapturedOf
  <2> QED
    BY <1>2, <2>1, <2>2
<1>7. Gated'
  <2>1. CASE gated' = gated
    BY <1>1, <2>1 DEF Gated, AcceptedOf
  <2>2. CASE gated' = host /\ task.tool = "gate" /\ task.all /\ task.bad = {}
    <3>1. \A f \in Files : AcceptedOf(host, f)
      BY <1>1, <2>2 DEF Underway
    <3> QED
      BY <1>1, <2>2, <3>1 DEF Gated, AcceptedOf
  <2> QED
    BY <1>3, <2>1, <2>2
<1> QED
  BY <1>1, <1>4, <1>5, <1>6, <1>7 DEF Whole, Underway, NoFault, Vetted

\* A tool is killed, perhaps while it writes.
LEMMA KilledKeeps ==
  ASSUME IInv, Killed
  PROVE  IInv'
<1> USE DEF IInv
<1>1. task.tool # "none" /\ Stop /\ UNCHANGED <<host, recipe, embedded, vetted>>
  BY DEF Killed
<1>2. CASE Running("generate") /\ Put(Torn)
  <2>1. Here \in Files
    BY <1>1, <1>2, HereIsLeft DEF Running
  <2> QED
    BY <1>1, <1>2, <2>1, TornKeeps
<1>3. CASE UNCHANGED <<disk, fresh, gated>>
  BY <1>1, <1>3, Stopping
<1> QED
  BY <1>2, <1>3 DEF Killed

\* The inductive invariant of the corpus and its tools, for any corpus.
THEOREM Invariance == Spec => []IInv
<1>1. ASSUME IInv, UNCHANGED vars
      PROVE  IInv'
  <2>1. UNCHANGED <<host, recipe, disk, embedded, task, fresh, gated, vetted>>
    BY <1>1 DEF vars
  <2>2. Types' /\ Whole' /\ NoFault' /\ Vetted'
    BY <1>1, <2>1 DEF IInv, Types, Whole, NoFault, Vetted
  <2>3. Fresh' /\ Gated'
    BY <1>1, <2>1 DEF IInv, Fresh, Gated, CapturedOf, AcceptedOf, Agrees
  <2>4. Underway'
    BY <1>1, <2>1 DEF IInv, Underway, CapturedOf, AcceptedOf, Agrees
  <2> QED
    BY <2>2, <2>3, <2>4 DEF IInv
<1>2. ASSUME IInv, Next
      PROVE  IInv'
  BY <1>2, HostKeeps, EditRecipeKeeps, AuthorKeeps, BuildKeeps, StartKeeps, GenerateShardKeeps,
     CheckShardKeeps, GateShardKeeps, FinishKeeps, KilledKeeps DEF Next
<1> QED
  BY <1>1, <1>2, Initially, PTL DEF Spec

-----------------------------------------------------------------------------
(* What it says of the corpus *)

\* Once generate or its check ended well for all generators, and until a
\* recipe, a generated shard, sqlite3 or the time zone is changed, no gate and no
\* check finds fault with a generated shard.
THEOREM GeneratedShardsStayGreen == Spec => []GreenByConstruction
<1>1. ASSUME IInv, fresh = host
      PROVE  \A g \in Generators : disk[g].kind = "shard"
  <2>1. \A g \in Generators : CapturedOf(fresh, g)
    BY <1>1, NoHostIsNone DEF IInv, Types, Fresh
  <2> TAKE g \in Generators
  <2>2. PICK a \in Prints[fresh][recipe[g]] : disk[g] = Shard(recipe[g], a.exit, a.out, TRUE)
    BY <2>1 DEF CapturedOf
  <2> QED
    BY <2>2 DEF Shard
<1>2. IInv => GreenByConstruction
  BY <1>1 DEF IInv, NoFault, GreenByConstruction
<1> QED
  BY <1>2, Invariance, PTL

\* While the tree is as the gate accepted it, every shard records what may
\* be answered on the host it was accepted on.
THEOREM GatedTreeIsCurrent == Spec => []GateIsCurrent
<1>1. IInv => GateIsCurrent
  BY DEF IInv, Gated, AcceptedOf, Agrees, GateIsCurrent
<1> QED
  BY <1>1, Invariance, PTL

\* A runner built from a tree the gate accepted loads its corpus, unless a
\* hand-written shard leaves out what only the runner requires.
THEOREM VettedCorpusLoads == Spec => []GateMeansLoads
<1>1. ASSUME IInv, vetted
      PROVE  Loads <=> embedded[Hand] = Absent \/ embedded[Hand].loads
  <2>1. \A f \in Files : embedded[f] # Absent => embedded[f].kind = "shard"
    BY <1>1 DEF IInv, Vetted
  <2>2. \A g \in Generators : embedded[g] # Absent => embedded[g].loads
    BY <1>1, <2>1 DEF IInv, Whole, Files
  <2>3. Hand \in Files /\ \A f \in Files : f = Hand \/ f \in Generators
    BY DEF Files
  <2> QED
    BY <2>1, <2>2, <2>3 DEF Loads
<1>2. IInv => GateMeansLoads
  BY <1>1 DEF GateMeansLoads
<1> QED
  BY <1>2, Invariance, PTL
=============================================================================
