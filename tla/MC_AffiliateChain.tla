-------------------------- MODULE MC_AffiliateChain --------------------------
EXTENDS AffiliateChain, TLC

\* Opportunities are interchangeable.
Interchangeable == Permutations(Opp)
=============================================================================
