-------------------------- MODULE MCNaturalAnswer ---------------------------
(***************************************************************************)
(* A small instance of NaturalAnswer: one question of two parts, or one    *)
(* that only asks what an exam's name means; records that do not fit the    *)
(* target, the room there is, or each other.                               *)
(***************************************************************************)
EXTENDS NaturalAnswer

MCWords == [q \in Question |->
  IF q = "scores" THEN {"TOEIC L&R", "conversion", "JLPT"} ELSE {"TOEIC L&R"}]
MCPacks == LET r(fact, fits, size) == [fact |-> fact, fits |-> fits, size |-> size]
           IN {<<r("f1", FALSE, 1), r("f2", TRUE, 3)>>, <<r("f1", FALSE, 1), r("f2", TRUE, 2), r("f3", TRUE, 1)>>}
=============================================================================
