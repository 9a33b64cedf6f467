---------------------------- MODULE TaskContract ----------------------------
(***************************************************************************)
(* What the task queue promises to the code that fills and drains it,      *)
(* without timers, attempts or the statuses a waiting task moves through:  *)
(* a task starts after everything it needs is done and while its gate is   *)
(* open, at most one task per key is under way or done, and done or        *)
(* dropped is for good.                                                    *)
(***************************************************************************)
CONSTANTS Task, Key, NoKey

VARIABLES
    phase,    \* "absent", "waiting", "running", "done" or "dropped"
    needs,    \* the tasks each task depends on
    key,      \* its idempotency key
    closed    \* its approval gate

vars == <<phase, needs, key, closed>>

Init ==
    /\ phase = [t \in Task |-> "absent"]
    /\ needs = [t \in Task |-> {}]
    /\ key = [t \in Task |-> NoKey]
    /\ closed = [t \in Task |-> FALSE]

Taken(k) == \E u \in Task : key[u] = k /\ phase[u] \in {"waiting", "running", "done"}

Accept(t, k, deps, gate) ==
    /\ phase[t] = "absent"
    /\ k = NoKey \/ ~Taken(k)
    /\ phase' = [phase EXCEPT ![t] = "waiting"]
    /\ needs' = [needs EXCEPT ![t] = deps]
    /\ key' = [key EXCEPT ![t] = k]
    /\ closed' = [closed EXCEPT ![t] = gate]

Start(t) ==
    /\ phase[t] = "waiting"
    /\ ~closed[t]
    /\ \A d \in needs[t] : phase[d] = "done"
    /\ phase' = [phase EXCEPT ![t] = "running"]
    /\ UNCHANGED <<needs, key, closed>>

\* Attempts end without a result (a failure to retry, a lease that expired).
GiveBack(S) ==
    /\ \A t \in S : phase[t] = "running"
    /\ phase' = [t \in Task |-> IF t \in S THEN "waiting" ELSE phase[t]]
    /\ UNCHANGED <<needs, key, closed>>

Finish(t) ==
    /\ phase[t] = "running"
    /\ phase' = [phase EXCEPT ![t] = "done"]
    /\ UNCHANGED <<needs, key, closed>>

\* A task is given up or withdrawn.
Drop(t) ==
    /\ phase[t] \in {"waiting", "running"}
    /\ phase' = [phase EXCEPT ![t] = "dropped"]
    /\ UNCHANGED <<needs, key, closed>>

\* Waiting tasks are dropped because something they need was.
Cascade(S) ==
    /\ \A t \in S : /\ phase[t] = "waiting"
                    /\ \E d \in needs[t] : phase[d] \in {"dropped", "absent"} \/ d \in S
    /\ phase' = [t \in Task |-> IF t \in S THEN "dropped" ELSE phase[t]]
    /\ UNCHANGED <<needs, key, closed>>

CloseGate(t) ==
    /\ phase[t] \in {"waiting", "running"}
    /\ phase' = [phase EXCEPT ![t] = "waiting"]
    /\ closed' = [closed EXCEPT ![t] = TRUE]
    /\ UNCHANGED <<needs, key>>

OpenGate(t) ==
    /\ phase[t] = "waiting"
    /\ closed' = [closed EXCEPT ![t] = FALSE]
    /\ UNCHANGED <<phase, needs, key>>

Next ==
    \/ \E S \in SUBSET Task : GiveBack(S) \/ Cascade(S)
    \/ \E t \in Task :
          \/ Start(t) \/ Finish(t) \/ Drop(t) \/ CloseGate(t) \/ OpenGate(t)
          \/ \E k \in Key \cup {NoKey}, deps \in SUBSET Task, gate \in BOOLEAN :
                Accept(t, k, deps, gate)

Spec == Init /\ [][Next]_vars
=============================================================================
