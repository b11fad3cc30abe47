---------------------------- MODULE MCRqlLowering ---------------------------
(* RqlLowering on small instances; the sizes come from the configurations. *)
EXTENDS RqlLowering

AnyLine ==
  {Silent, Sql, DotLine("other", "none"), DotLine("mode", "insert")}
  \cup {DotLine("mode", argument) : argument \in {"none", "csv", "unterminated"}}
  \cup {DotLine("headers", argument) : argument \in {"none", "off", "maybe"}}
  \cup {DotLine("separator", argument) : argument \in {"none", "quotes", ","}}
  \cup {DotLine("nullvalue", "NULL"), DotLine("newline", "quotes"), DotLine("echo", "on")}
=============================================================================
