------------------------------ MODULE TaskQueue ------------------------------
(***************************************************************************)
(* execution.TaskQueue as a state machine: one queue, its callers'         *)
(* operations one at a time.  The callers are acceptance.py (add, unblock, *)
(* cancel) and worker.py (everything else); how their copies of the queue  *)
(* collide on disk is the subject of module Execution.                     *)
(***************************************************************************)
EXTENDS ExecutionTasks

CONSTANT Request   \* the tasks callers ask for: key, priority, approval, delay

RequestRecord ==
    [key : Key \cup {NoKey}, priority : Nat, approval : BOOLEAN, delay : 0..MaxDelay]

ASSUME RequestType == Request \subseteq RequestRecord

VARIABLE q

vars == <<q>>

Init == q = EmptyQueue

-----------------------------------------------------------------------------
\* create / add: dependencies are ids the caller got from earlier calls.
Create(t) ==
    /\ IsFresh(q, t)
    /\ \E r \in Request, deps \in SUBSET Used(q) :
          q' = Add(q, t, NewTask(r.key, deps, r.priority, r.approval, r.delay))

Resolve == q' = ResolveDependencies(q)

Requeue == q' = RequeueDue(q)

Reclaim == q' = ReclaimStale(q)

Tick == q' = Elapse(q)

\* Wrong: claims a task whose dependencies were not looked at.
StartUnresolved(t) ==
    /\ q[t].status \in {"PENDING", "READY"}
    /\ q' = Claim(q, t)

\* claim refuses a task that is not READY.
Start(t) ==
    /\ q[t].status = "READY"
    /\ q' = Claim(q, t)

KeepAlive(t) ==
    /\ q[t].status = "RUNNING"
    /\ q' = Heartbeat(q, t)

Succeed(t) ==
    /\ "SUCCEEDED" \in Legal(q[t].status)
    /\ q' = MarkSucceeded(q, t)

\* The worker reports failures of tasks it runs only.
Fail(t, retryable) ==
    /\ q[t].status = "RUNNING"
    /\ q' = MarkFailed(q, t, retryable)

\* Worker._block: the gate blocks a READY task, an adapter a RUNNING one.
Block(t) ==
    /\ q[t].status \in {"READY", "RUNNING"}
    /\ q' = BlockForApproval(q, t)

Release(t) ==
    /\ q[t].status = "BLOCKED_APPROVAL"
    /\ q' = Unblock(q, t)

Withdraw(t) ==
    /\ q[t].status \in Live
    /\ q' = Cancel(q, t)

Finish(t) == Succeed(t) \/ Fail(t, TRUE) \/ Fail(t, FALSE)

Next ==
    \/ Resolve \/ Requeue \/ Reclaim \/ Tick
    \/ \E t \in Task :
          \/ Create(t) \/ Start(t) \/ KeepAlive(t) \/ Finish(t)
          \/ Block(t) \/ Release(t) \/ Withdraw(t)

Spec == Init /\ [][Next]_vars

(* Every tick of a worker runs the three housekeeping passes, claims what  *)
(* is ready and reports the outcome of what it ran (adapter exceptions     *)
(* included).  An attempt may be lost with its process; that no task loses *)
(* every one of its attempts is the strong fairness of Finish.             *)
Fairness ==
    /\ WF_vars(Tick) /\ WF_vars(Resolve) /\ WF_vars(Requeue) /\ WF_vars(Reclaim)
    /\ \A t \in Task : WF_vars(Start(t)) /\ SF_vars(Finish(t))

FairSpec == Spec /\ Fairness
-----------------------------------------------------------------------------
(* The queue holds well-formed task records.                               *)
TypeOK == q \in Queue

Enabled == {"READY", "RUNNING", "FAILED_RETRYABLE", "SUCCEEDED"}

(* A task is started - and so finished or retried - only after every task  *)
(* it depends on has SUCCEEDED, whatever is cancelled, retried, reclaimed  *)
(* or released meanwhile (resolve_dependencies, execution.py:259).         *)
DependenciesFirst ==
    \A t \in Task : q[t].status \in Enabled => DepsSucceeded(q, t)

(* An idempotency key never has two tasks that are live or SUCCEEDED: no   *)
(* sequence of retries, cancellations and re-creations runs the same unit  *)
(* of work twice (add, execution.py:209).                                  *)
OneTaskPerKey ==
    \A t, u \in Task :
        /\ q[t].idempotency_key = q[u].idempotency_key
        /\ q[t].idempotency_key # NoKey
        /\ q[t].status \in Live \cup {"SUCCEEDED"}
        /\ q[u].status \in Live \cup {"SUCCEEDED"}
        => t = u

(* A task whose gate is closed is never eligible to run, on any path back  *)
(* to the queue (retry, reclaim, unblock, resolve).                        *)
ClosedGateHolds ==
    \A t \in Task : q[t].requires_approval => q[t].status \notin Enabled

(* The gate of a task opens by a human release only, and the release is    *)
(* remembered for good: "a restart or a retry can never turn an approved   *)
(* task back into an un-approved one" (unblock, execution.py:379).         *)
GateStep ==
    \A t \in Task :
        /\ q[t].requires_approval /\ ~q'[t].requires_approval =>
              q[t].status = "BLOCKED_APPROVAL" /\ q'[t].approval_granted
        /\ q[t].approval_granted => q'[t].approval_granted

GateOpensByRelease == [][GateStep]_vars

(* What has SUCCEEDED, failed for good or been cancelled stays as it is:   *)
(* record, key, dependencies and attempts included, but for the timers.    *)
FinalStep ==
    \A t \in Task : q[t].status \in Terminal =>
        /\ q'[t].status = q[t].status
        /\ q'[t].attempt_count = q[t].attempt_count
        /\ q'[t].depends_on = q[t].depends_on
        /\ q'[t].idempotency_key = q[t].idempotency_key

TerminalIsFinal == [][FinalStep]_vars

(* Every status change is one the table _LEGAL allows, so that no call the *)
(* worker or a human makes is refused half way by _set.                    *)
LegalStep ==
    \A t \in Task :
        \/ q'[t].status = q[t].status
        \/ q'[t].status \in Legal(q[t].status)
        \/ q[t].status = "ABSENT" /\ q'[t].status = "PENDING"

OnlyLegalTransitions == [][LegalStep]_vars

(* No task waits for ever without a reason: it ends, or some task waits    *)
(* for a human approval.                                                   *)
Settles ==
    \A t \in Task :
        q[t].status = "PENDING" ~>
            (q[t].status \in Terminal \/ \E u \in Task : q[u].status = "BLOCKED_APPROVAL")

(* A failure reaches everything that was waiting for the failed task.      *)
FailurePropagates ==
    \A t, d \in Task :
        (d \in q[t].depends_on /\ q[d].status \in Dead /\ q[t].status = "PENDING") ~>
            q[t].status \in Dead \cup {"BLOCKED_APPROVAL"}
-----------------------------------------------------------------------------
(* What the callers rely on: TaskContract, of which this queue is an       *)
(* implementation.                                                         *)
PhaseOf(status) ==
    CASE status = "ABSENT"    -> "absent"
      [] status = "RUNNING"   -> "running"
      [] status = "SUCCEEDED" -> "done"
      [] status \in Dead      -> "dropped"
      [] OTHER                -> "waiting"

Contract ==
    INSTANCE TaskContract WITH
        phase  <- [t \in Task |-> PhaseOf(q[t].status)],
        needs  <- [t \in Task |-> q[t].depends_on],
        key    <- [t \in Task |-> q[t].idempotency_key],
        closed <- [t \in Task |-> q[t].requires_approval]

ImplementsContract == Contract!Spec
=============================================================================
