------------------------- MODULE MC_SaleToDelivery -------------------------
(* Small instances of SaleToDelivery.                                      *)
EXTENDS SaleToDelivery, TLC
CONSTANTS w1, w2, h1, h2, p1, p2

OneWorker == {w1}
TwoWorkers == {w1, w2}
WorkerSymmetry == Permutations(TwoWorkers)
OneHuman == {h1}
Nobody == {}
Everybody == Worker \cup Human

OnePayment == {p1}
TwoPayments == {p1, p2}
SaleKey == Pay \cup (0..MaxCycles)
=============================================================================
