----------------------------- MODULE RqlLowering ----------------------------
(***************************************************************************)
(* rewrite_case of src/sqlite_parity/rql_phase1.rs: the SQL of a case is   *)
(* lowered to RQL JSON for the target, or the case is refused and recorded *)
(* as skipped.  The target then runs the JSON where the reference runs the *)
(* SQL, so what the lowering loses is compared against what it never saw.  *)
(*                                                                         *)
(* The syntax tree and the JSON are trees of                               *)
(*   kind   what the node is                                               *)
(*   value  a name, an operator or a literal                               *)
(*   marks  the clauses and modifiers it has                               *)
(*   parts  its children, each in a role                                   *)
(* and a function of the source is its rule: the marks it refuses, those   *)
(* it writes into the JSON and those it loses.  The parser is external;    *)
(* clauses it knows from other dialects than SQLite's are left out, and    *)
(* spellings SQLite takes as one (ASC or nothing, = or ==) are one tree.   *)
(* DotCommands reads the shell commands before the SQL.                    *)
(***************************************************************************)
EXTENDS DotCommands, SequencesExt

CONSTANTS
  MaxEdits,   \* bounds of the model: changes made to a case,
  MaxLines    \* and lines of its standard input

VARIABLES
  case,      \* the case: a node whose parts are its statements
  outcome,   \* what rewrite_case makes of it
  edits      \* how often it was changed

vars == <<case, lines, stripped, outcome, edits>>

Node(kind, value, marks, parts) ==
  [kind |-> kind, value |-> value, marks |-> marks, parts |-> parts]
Leaf(kind, value) == Node(kind, value, {}, <<>>)
Refused == Leaf("refused", "")
Part(role, node) == [role |-> role, node |-> node]
Rule(refused, kept, lost) == [refused |-> refused, kept |-> kept, lost |-> lost]
Plain == Rule({}, {}, {})

-----------------------------------------------------------------------------
(* The rules *)

CaseRule ==
  Rule({"expected error", "known divergence", "args, files or script", "syntax error"}, {}, {})

\* A name is its ident.value: that it was quoted is lost, wherever it stands.
CreateTable ==
  Rule({"as select", "temporary", "table constraint"},
       {"if not exists", "strict", "without rowid"}, {"quoted"})

\* AUTOINCREMENT and the order of a primary key are dialect specific options, and
\* option.name is not looked at.  ON CONFLICT is an option of its own.
ColumnDef ==
  Rule({"check", "generated", "references", "collate", "conflict clause"},
       {"primary key", "not null", "unique"},
       {"null", "autoincrement", "desc", "constraint name", "quoted"})

CreateIndex ==
  Rule({"unnamed", "where", "nulls distinct"}, {"if not exists", "unique"}, {"quoted"})
IndexColumn == Rule({"expression", "nulls first"}, {"desc"}, {"quoted"})

DropStatement == Rule({"several", "neither table nor index"}, {"if exists", "index"}, {})

\* The rows are taken from the source, its WITH is not.
Insert ==
  Rule({"or", "on conflict", "replace", "returning", "select"}, {"column list"}, {"with"})

Update == Rule({"or", "from", "limit", "returning", "joins", "alias"}, {}, {})
Assignment == Rule({"tuple", "qualified"}, {}, {"quoted"})
Delete == Rule({"order by", "limit", "returning", "alias"}, {}, {})

\* Always written as deferred.
Begin == Rule({}, {}, {"immediate", "exclusive"})
Rollback == Rule({"to savepoint"}, {}, {})

\* Of the query, its SELECT and its GROUP BY.
Select ==
  Rule({"with", "compound", "values", "window", "offset, limit"}, {"distinct"}, {"all"})
OrderItem == Rule({}, {"desc", "nulls first", "nulls last"}, {})
SelectItem == Rule({}, {"alias"}, {"quoted alias"})
Table == Rule({"arguments", "three names"}, {"alias", "schema"}, {"quoted", "quoted alias"})
Join == Rule({"using", "natural"}, {}, {})
CommaTable == Rule({"joins"}, {}, {})

Column == Rule({"other schema"}, {"table"}, {"schema main", "quoted"})
Like == Rule({"escape"}, {"negated"}, {})
Negatable == Rule({}, {"negated"}, {})
Function ==
  Rule({"filter", "over", "within group", "order by", "named argument"}, {"distinct"}, {"all"})

Rules ==
  [case |-> CaseRule,
   create_table |-> CreateTable, column_def |-> ColumnDef,
   create_index |-> CreateIndex, index_column |-> IndexColumn, drop |-> DropStatement,
   insert |-> Insert, row |-> Plain, update |-> Update, assignment |-> Assignment,
   delete |-> Delete, begin |-> Begin, commit |-> Plain, rollback |-> Rollback,
   select |-> Select, order_item |-> OrderItem, select_item |-> SelectItem,
   wildcard |-> Plain, table |-> Table, join |-> Join, comma |-> CommaTable,
   column |-> Column, literal |-> Plain, unary |-> Plain, binary |-> Plain,
   like |-> Like, nested |-> Plain, function |-> Function, star |-> Plain, cast |-> Plain,
   is_null |-> Negatable, between |-> Negatable, in_list |-> Negatable,
   in_subquery |-> Negatable, subquery |-> Plain, exists |-> Negatable]

\* Savepoints, other statements, derived tables, CASE, COLLATE and other
\* expressions have no rule: their kinds are not in DOMAIN Rules.
Syntax(kind) ==
  IF kind \in DOMAIN Rules
    THEN Rules[kind].refused \cup Rules[kind].kept \cup Rules[kind].lost
    ELSE {}

\* Literals and operators outside what can be written, as they appear.
OutOfRange == {"2^63", "odd blob", ":name", "|"}

\* A real too large for a double is infinite, and JSON has no infinity.  The
\* parser takes a hexadecimal integer for a blob literal.
Written(value) ==
  CASE value = "1e999" -> "real null" [] value = "0x10" -> "x'10'" [] OTHER -> value

Limits == {"limit", "offset"}

\* The places where only some expressions can stand.
FitsRole(role, node) ==
  CASE role = "default" -> node.kind = "literal"
    [] role \in Limits -> node.kind = "literal" /\ node.value \in {"1", "2^63"}
    [] OTHER -> TRUE

-----------------------------------------------------------------------------
(* The lowering *)

\* Variant: a later part that can be lowered hides an earlier one that cannot.
FailedLast(results) == results # <<>> /\ Last(results).node = Refused

\* collect::<Result<Vec<_>>> and the ?s.
Failed(results) == \E i \in DOMAIN results : results[i].node = Refused

\* Variant: the order of an ORDER BY item is forgotten.
FlagsSansOrder(node) == node.marks \cap (Rules[node.kind].kept \ {"desc"})
Flags(node) == node.marks \cap Rules[node.kind].kept

StarAt(node) ==
  IF node.kind = "function" THEN {i \in DOMAIN node.parts : node.parts[i].node.kind = "star"} ELSE {}
IsFirst(i, S) == i \in S /\ \A j \in S : i <= j

\* function_expr returns at count(*) and never looks at a later argument.
PartsSeen(node) ==
  IF StarAt(node) = {} THEN node.parts
  ELSE SubSeq(node.parts, 1, CHOOSE i \in DOMAIN node.parts : IsFirst(i, StarAt(node)))

RECURSIVE Lower(_)

\* A limit is an unsigned integer: 2^63 fits there and nowhere else.
LowerPart(part) ==
  [part EXCEPT !.node = CASE ~FitsRole(part.role, @) -> Refused
                          [] part.role \in Limits -> @
                          [] OTHER -> Lower(@)]

Lower(node) ==
  IF \/ node.kind \notin DOMAIN Rules
     \/ node.marks \cap Rules[node.kind].refused # {}
     \/ node.value \in OutOfRange
     \/ StarAt(node) # {} /\ node.value # "count"
    THEN Refused
    ELSE LET parts == [i \in DOMAIN PartsSeen(node) |-> LowerPart(PartsSeen(node)[i])]
         IN  CASE Failed(parts) -> Refused
               [] ~Failed(parts) /\ StarAt(node) # {} -> Leaf("count_star", "")
               [] OTHER -> Node(node.kind, Written(node.value), Flags(node), parts)

-----------------------------------------------------------------------------
(* The case *)

\* The flags follow from the settings; the case also has statements to run.
RewriteCase(of, read) ==
  IF Lower(of) = Refused \/ ~read.ok \/ of.parts = <<>>
    THEN Refused
    ELSE [program |-> Lower(of), shell |-> read.shell]

-----------------------------------------------------------------------------
(* The cases: what stands within MaxEdits changes of one of these *)

X == Leaf("column", "x")
One == Leaf("literal", "1")
From == Part("from", Leaf("table", "t"))
Subselect == Node("select", "", {}, << Part("item", Leaf("wildcard", "")), From >>)
Expression(role) == Part(role, X)
Apply(kind, value, roles) ==
  Node(kind, value, {}, [i \in DOMAIN roles |-> Expression(roles[i])])

Expressions ==
  {X, One, Leaf("other", ""), Apply("unary", "negate", <<"of">>),
   Apply("binary", "eq", <<"left", "right">>), Apply("like", "", <<"left", "right">>),
   Apply("nested", "", <<"of">>), Apply("function", "count", <<"arg", "arg">>),
   Apply("cast", "TEXT", <<"of">>), Apply("is_null", "", <<"of">>),
   Apply("between", "", <<"of", "low", "high">>), Apply("in_list", "", <<"of", "arg">>),
   Node("in_subquery", "", {}, <<Expression("of"), Part("query", Subselect)>>),
   Node("subquery", "", {}, <<Part("query", Subselect)>>),
   Node("exists", "", {}, <<Part("query", Subselect)>>)}

Of(kind, parts) == Node(kind, "", {}, parts)
Statements ==
  {Of("create_table", <<Part("column", Of("column_def", <<Part("default", One)>>))>>),
   Of("create_index", <<Part("column", Leaf("index_column", "x"))>>),
   Of("drop", <<From>>),
   Of("insert", <<From, Part("row", Of("row", <<Expression("cell")>>))>>),
   Of("update", <<From, Part("set", Apply("assignment", "x", <<"of">>)), Expression("filter")>>),
   Of("delete", <<From, Expression("filter")>>),
   Leaf("begin", ""), Leaf("commit", ""), Leaf("rollback", ""), Leaf("savepoint", ""),
   Of("select",
      <<Part("item", Apply("select_item", "", <<"of">>)), From,
        Part("join", Node("join", "inner", {}, <<From, Expression("on")>>)),
        Part("comma", Of("comma", <<From>>)),
        Expression("filter"), Expression("group"), Expression("having"),
        Part("order", Apply("order_item", "", <<"of">>)),
        Part("limit", One), Part("offset", One)>>)}

\* Which roles may be left empty, and which take any expression.
Optional ==
  {"statement", "default", "row", "filter", "join", "comma", "on", "group", "having", "order",
   "limit", "offset", "arg"}
AnyExpression ==
  {"default", "cell", "of", "left", "right", "low", "high", "arg", "filter", "on", "group", "having",
   "limit"}

Values(node) ==
  CASE node.kind \in {"column", "table", "index_column", "assignment"} -> {"x", "t"}
    [] node.kind = "literal" ->
         {"null", "1", "1.5", "1e999", "2^63", "text", "x'10'", "0x10", "odd blob", "?1", ":name"}
    [] node.kind = "unary" -> {"not", "negate"}
    [] node.kind = "binary" -> {"eq", "and", "|"}
    [] node.kind = "function" -> {"count", "sum"}
    [] node.kind = "cast" -> {"TEXT", "REAL"}
    [] node.kind = "join" -> {"inner", "left", "cross"}
    [] OTHER -> {node.value}

\* Marks that exclude one another, and marks that stand only with one of others:
\* main is written before a table, the name of a constraint before one.
Exclusive == {{"immediate", "exclusive"}, {"nulls first", "nulls last"}, {"distinct", "all"}}
Keys == {"primary key", "not null", "unique"}
With ==
  {<<"schema main", {"table"}>>, <<"quoted alias", {"alias"}>>, <<"conflict clause", Keys>>,
   <<"constraint name", Keys \cup {"null", "check", "generated", "references", "collate"}>>}
Parsed(marks) ==
  /\ \A pair \in Exclusive : ~ pair \subseteq marks
  /\ \A pair \in With : pair[1] \in marks => marks \cap pair[2] # {}

Toggled(S, mark) == IF mark \in S THEN S \ {mark} ELSE S \cup {mark}

RECURSIVE Edited(_)
EditedPart(part) ==
  {[part EXCEPT !.node = node] :
     node \in Edited(part.node)
          \cup (IF part.role \in AnyExpression THEN Expressions ELSE {})
          \cup (IF part.role = "arg" THEN {Leaf("star", "")} ELSE {})}

\* The trees one change away from a tree.
Edited(node) ==
  {[node EXCEPT !.marks = Toggled(@, mark)] :
     mark \in {mark \in Syntax(node.kind) : Parsed(Toggled(node.marks, mark))}}
  \cup {[node EXCEPT !.value = value] : value \in Values(node) \ {node.value}}
  \cup {[node EXCEPT !.parts = RemoveAt(@, i)] :
           i \in {i \in DOMAIN node.parts : node.parts[i].role \in Optional}}
  \cup UNION {{[node EXCEPT !.parts[i] = part] : part \in EditedPart(node.parts[i])} :
                i \in DOMAIN node.parts}

Init ==
  /\ case \in {Of("case", <<Part("statement", statement)>>) : statement \in Statements}
  /\ DotInit
  /\ outcome = RewriteCase(case, stripped)
  /\ edits = 0

\* Another case, rewritten.
EditSql ==
  /\ edits < MaxEdits
  /\ lines = <<>>
  /\ case' \in Edited(case)
  /\ outcome' = RewriteCase(case', stripped)
  /\ edits' = edits + 1
  /\ UNCHANGED dotvars

\* The statements and the lines are rewritten apart: one stays as it is.
AddLine ==
  /\ edits = 0
  /\ case.parts[1].node.kind = "commit"
  /\ Len(lines) < MaxLines
  /\ ReadLine
  /\ outcome' = RewriteCase(case, stripped')
  /\ UNCHANGED <<case, edits>>

Next == EditSql \/ AddLine

Spec == Init /\ [][Next]_vars

-----------------------------------------------------------------------------
(* Properties *)

Accepted == outcome # Refused

\* What a reader of the JSON has to do without, whatever the rules say: what SQLite
\* makes of it is the same but for the quotes (it takes a quoted name of nothing
\* for a string), AUTOINCREMENT, the order of a primary key, the mode of BEGIN and
\* a WITH before VALUES.
Unsaid(kind) ==
  CASE kind = "column_def" -> {"null", "autoincrement", "desc", "constraint name", "quoted"}
    [] kind = "insert" -> {"with"}
    [] kind = "begin" -> {"immediate", "exclusive"}
    [] kind \in {"select", "function"} -> {"all"}
    [] kind = "column" -> {"schema main", "quoted"}
    [] OTHER -> {"quoted", "quoted alias"}

\* A statement up to what goes unsaid, to 0x10 for x'10', and to what count(*)
\* makes of a call.
RECURSIVE Meaning(_)
Meaning(node) ==
  IF StarAt(node) # {}
    THEN Leaf("count_star", "")
    ELSE [node EXCEPT !.value = IF @ = "0x10" THEN "x'10'" ELSE @,
                      !.marks = @ \ Unsaid(node.kind),
                      !.parts = [i \in DOMAIN @ |-> [@[i] EXCEPT !.node = Meaning(@)]]]

\* No change of a case goes unnoticed but these: between two cases the rewriter
\* accepts, the JSON differs exactly if the SQL differs in more than the quotes of
\* a name, AUTOINCREMENT, the order of a primary key, the name of a constraint,
\* the mode of BEGIN, a WITH before VALUES, NULL, ALL, main, a hexadecimal
\* integer for the blob of its digits, and what a call says beside count(*).
EveryEditShows ==
  [][Accepted /\ Accepted' =>
       (outcome.program = outcome'.program <=> Meaning(case) = Meaning(case'))]_vars

Outside(part) ==
  \/ ~FitsRole(part.role, part.node)
  \/ part.node.kind \notin DOMAIN Rules
  \/ part.node.marks \cap Rules[part.node.kind].refused # {}
  \/ part.node.value \in OutOfRange /\ part.role \notin Limits
  \/ StarAt(part.node) # {} /\ part.node.value # "count"

RECURSIVE Within(_)
Within(part) ==
  {part} \cup UNION {Within(PartsSeen(part.node)[i]) : i \in DOMAIN PartsSeen(part.node)}

\* A case is refused exactly if something in it, however deep, is outside the
\* rules (all but what follows count(*)), if nothing is left of it, or if
\* a shell command is unknown or comes after SQL.
RefusedForAReason ==
  ~Accepted <=>
    \/ \E part \in Within(Part("case", case)) : Outside(part)
    \/ case.parts = <<>>
    \/ \E j \in DOMAIN lines : Offends(j)
=============================================================================
