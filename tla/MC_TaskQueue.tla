---------------------------- MODULE MC_TaskQueue ----------------------------
(* Small instances of TaskQueue for TLC. *)
EXTENDS TaskQueue

CONSTANTS k1, k2

MCKey == {k1, k2}

\* A plain task, and one that is scheduled for later and gated.
MCRequests ==
    {[key |-> k1, priority |-> 0, approval |-> FALSE, delay |-> 0],
     [key |-> k2, priority |-> 1, approval |-> TRUE, delay |-> MaxDelay]}
=============================================================================
