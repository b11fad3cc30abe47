------------------------------ MODULE MCCorpus ------------------------------
(* Corpus on a small instance: two builds, and two zones, that differ in   *)
(* what is answered.                                                       *)
EXTENDS Corpus

Answer(exit, out) == [exit |-> exit, out |-> out]

\* "dated" is answered in another way by the newer build, and again in the other
\* zone; "refused" is not answered by the newer; "random" has two answers.
AnswersOf ==
  [h \in Hosts |->
     [dated   |-> {Answer(0, CASE h.zone = "east" -> "z"
                               [] h.zone = "UTC" /\ h.sqlite = "older" -> "x"
                               [] OTHER -> "y")},
      refused |-> {IF h.sqlite = "older" THEN Answer(0, "x") ELSE Answer(1, "error")},
      random  |-> {Answer(0, "x"), Answer(0, "y")}]]
=============================================================================
