-------------------------- MODULE MC_AffiliateMoney --------------------------
EXTENDS AffiliateMoney, TLC

CONSTANTS l1, l2, c1, c2

\* Both commissions came through the same link.
BothThrough1 == (c1 :> l1) @@ (c2 :> l1)

\* Threads and references are interchangeable.
Interchangeable == Permutations(Handler) \cup Permutations(Ref)
=============================================================================
