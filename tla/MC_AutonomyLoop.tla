--------------------------- MODULE MC_AutonomyLoop ---------------------------
(* Small instances of AutonomyLoop: two ideas of one category, one of another. *)
EXTENDS AutonomyLoop
CONSTANTS a1, a2, b1

TwoIdeas == {a1, b1}
ThreeIdeas == {a1, a2, b1}
CategoryOf == [o \in Opp |-> IF o = b1 THEN "b" ELSE "a"]
RankOf == [o \in Opp |-> CASE o = a1 -> 1 [] o = a2 -> 2 [] OTHER -> 3]
NextTo == [o \in Opp |-> IF o = a1 THEN {b1} \cap Opp ELSE {}]
=============================================================================
