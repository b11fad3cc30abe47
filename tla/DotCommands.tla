----------------------------- MODULE DotCommands ----------------------------
(***************************************************************************)
(* strip_dot_commands of src/sqlite_parity/rql_phase1.rs: the commands of  *)
(* the SQLite shell before the SQL of a case are read off its input, line  *)
(* by line, and become the flags the target is started with.  The          *)
(* reference executes them, so the two run the SQL under the same settings *)
(* only if the flags are what the commands come to.                        *)
(***************************************************************************)
EXTENDS Naturals, Sequences

CONSTANT Input   \* the lines an input may hold

\* A line is blank or a comment, SQL, or a command with an argument.  "none"
\* is no argument and "quotes" one of two quotes only.
DotLine(command, argument) == [command |-> command, argument |-> argument]
Silent == DotLine("silent", "none")
Sql == DotLine("sql", "none")

ASSUME InputAssumption ==
  \A line \in Input : line = DotLine(line.command, line.argument)

VARIABLES
  lines,      \* the lines read
  stripped    \* what they come to: no error yet, SQL seen, the ShellOptions

dotvars == <<lines, stripped>>

-----------------------------------------------------------------------------
(* The settings *)

\* split_dot_args keeps no empty argument.
Argument(line, default) ==
  IF line.argument \in {"none", "quotes"} THEN default ELSE line.argument

Off == "not given"
Defaults ==
  [mode |-> "list", headers |-> "off", separator |-> "|", nullvalue |-> "", newline |-> Off]
Reset(mode) ==
  [mode |-> mode, headers |-> Off, separator |-> Off, nullvalue |-> Off, newline |-> Off]

\* Variant: .mode leaves the other settings alone.
ModeSansReset(shell, mode) == [shell EXCEPT !.mode = mode]
SetMode(shell, mode) == Reset(mode)

\* What a command without an argument sets.
DefaultOf ==
  [mode |-> "list", headers |-> "on", separator |-> "|", nullvalue |-> "", newline |-> "line feed"]
Settings == {"headers", "separator", "nullvalue", "newline"}

ApplyDotCommand(shell, line) ==
  CASE line.command = "mode" -> SetMode(shell, Argument(line, DefaultOf.mode))
    [] line.command \in Settings ->
         [shell EXCEPT ![line.command] = Argument(line, DefaultOf[line.command])]
    [] OTHER -> shell

\* Accepted and without effect.
Idle == {"bail", "echo", "timer"}

\* "list" and "csv" stand for the thirteen modes.
Known(line) ==
  /\ line.argument # "unterminated"
  /\ line.command \in {"mode"} \cup Settings \cup Idle
  /\ line.command = "headers" => Argument(line, DefaultOf.headers) \in {"on", "off"}
  /\ line.command = "mode" => Argument(line, DefaultOf.mode) \in {"list", "csv"}

IsCommand(line) == line.command \notin {"silent", "sql"}

-----------------------------------------------------------------------------
(* The loop over the lines *)

Bails(line) == IsCommand(line) /\ (stripped.saw_sql \/ ~Known(line))

DotInit ==
  /\ lines = <<>>
  /\ stripped = [ok |-> TRUE, saw_sql |-> FALSE, shell |-> Defaults]

\* An error is final: the lines after it make no difference.
ReadLine ==
  \E line \in Input :
    /\ lines' = Append(lines, line)
    /\ stripped' =
         [ok |-> stripped.ok /\ ~Bails(line),
          saw_sql |-> stripped.saw_sql \/ line.command = "sql",
          shell |-> IF stripped.ok /\ IsCommand(line) /\ ~Bails(line)
                      THEN ApplyDotCommand(stripped.shell, line)
                      ELSE stripped.shell]

DotSpec == DotInit /\ [][ReadLine]_dotvars

-----------------------------------------------------------------------------
(* Properties *)

\* A line the target could not be given as a flag: a command that is unknown
\* or comes after SQL.
Offends(j) ==
  /\ IsCommand(lines[j])
  /\ ~Known(lines[j]) \/ \E i \in 1 .. j : lines[i].command = "sql"

\* An input is refused exactly if one of its lines offends.
BailsForALine == stripped.ok <=> \A j \in DOMAIN lines : ~Offends(j)

\* The lines that bear on a setting, a .mode on every one, and what they say.
Told(setting) == {i \in DOMAIN lines : lines[i].command \in {setting, "mode"}}
Says(line, setting) ==
  IF line.command = setting THEN Argument(line, DefaultOf[setting]) ELSE Off

\* What a setting is when the SQL runs: what the last command for it said, if
\* no .mode came after it, and the default only if no .mode came at all.  An
\* empty separator cannot be asked for: .separator "" gives the default.
SettingsStand ==
  stripped.ok =>
    \A setting \in Settings \cup {"mode"} :
      \/ /\ Told(setting) = {}
         /\ stripped.shell[setting] = Defaults[setting]
      \/ \E last \in Told(setting) :
           /\ \A j \in Told(setting) : j <= last
           /\ stripped.shell[setting] = Says(lines[last], setting)
=============================================================================
