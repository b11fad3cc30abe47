---------------------------- MODULE MCReportDrift ---------------------------
(* ReportDrift on small instances; the sizes come from the configurations. *)
EXTENDS ReportDrift, TLC

\* No definition tells one suite from another, nor one raw text.
Symmetry == Permutations(Suites) \cup Permutations(Texts)
=============================================================================
