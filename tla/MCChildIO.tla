----------------------------- MODULE MCChildIO ------------------------------
(* ChildIO on small instances; the sizes come from the configurations. *)
EXTENDS ChildIO
=============================================================================
