------------------------------ MODULE MCSuites ------------------------------
(* Suites on small instances; the sizes come from the configuration. *)
EXTENDS Suites
=============================================================================
