------------------------------ MODULE MCAllRun ------------------------------
(* AllRun on small instances; the sizes come from the configurations. *)
EXTENDS AllRun
=============================================================================
