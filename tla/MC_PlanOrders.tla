--------------------------- MODULE MC_PlanOrders ---------------------------
(* Small instances of PlanOrders, with the board it extends. *)
EXTENDS PlanOrders
CONSTANTS c1, c2, p1, p2, o1, o2

One == {c1}
Two == {c1, c2}
MCPaidFor == [p \in Pay |-> IF p = p2 /\ c2 \in Cand THEN c2 ELSE c1]
MCCaptureOf == [o \in Order |-> IF o = o2 /\ p2 \in Pay THEN p2 ELSE p1]
Researching == {"research"}
=============================================================================
