--------------------------- MODULE MCCapabilities ---------------------------
(* Capabilities on small instances; the sizes come from the configurations. *)
EXTENDS Capabilities, TLC

\* Two capabilities stand for the fourteen.
TwoProbes == <<"fts5", "rtree">>
Kinds ==
  {Case("active", {}, {}), Case("active", {}, {"rtree", "not a capability"}),
   Case("catalog_only", {"fts5"}, {"rtree"}), Case("planned", {"fts5"}, {})}

\* Nothing tells one build of a program from another but what it has.
Symmetry == Permutations(Redlines)
=============================================================================
