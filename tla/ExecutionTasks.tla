--------------------------- MODULE ExecutionTasks ---------------------------
(***************************************************************************)
(* The value that execution.py keeps in tasks.json and the operations of   *)
(* class TaskQueue as functions from a queue value to a queue value.       *)
(*                                                                         *)
(* A queue is a function from task ids to task records.  Ids are numbered  *)
(* in insertion order (the order of the dict _by_id and of the JSON list); *)
(* an id whose status is "ABSENT" has not been added.  Instants are stored *)
(* as the time that remains until them: lease_until = 0 is a lease that    *)
(* has expired (or the empty string), and Elapse lets one unit pass for    *)
(* every task, which is all that comparing with the wall clock can tell.   *)
(***************************************************************************)
EXTENDS Integers

CONSTANTS
    MaxTasks,      \* bound of the model: ids are 1..MaxTasks
    Key,           \* the idempotency keys callers use
    NoKey,         \* the empty idempotency_key
    MaxAttempts,   \* ExecutionTask.max_attempts
    RetryBase,     \* _RETRY_BASE_SECONDS, in units of the model's clock
    RetryCap,      \* _RETRY_CAP_SECONDS
    LeaseTime,     \* _DEFAULT_LEASE_SECONDS / Worker.lease_seconds
    MaxDelay       \* the largest not_before a caller asks for

ASSUME TaskConstants ==
    /\ MaxTasks \in Nat
    /\ MaxAttempts \in Nat \ {0}
    /\ RetryBase \in Nat \ {0}
    /\ RetryCap \in Nat
    /\ LeaseTime \in Nat
    /\ MaxDelay \in Nat
    /\ NoKey \notin Key

Task == 1..MaxTasks

Terminal == {"SUCCEEDED", "FAILED_FINAL", "CANCELLED"}
Live == {"PENDING", "READY", "RUNNING", "FAILED_RETRYABLE", "BLOCKED_APPROVAL"}
Status == Live \cup Terminal
Dead == {"FAILED_FINAL", "CANCELLED"}

\* The table _LEGAL that _set enforces.
Legal(from) ==
    CASE from = "PENDING" -> {"READY", "BLOCKED_APPROVAL", "CANCELLED", "FAILED_FINAL"}
      [] from = "READY"   -> {"RUNNING", "BLOCKED_APPROVAL", "CANCELLED", "PENDING"}
      [] from = "RUNNING" -> {"SUCCEEDED", "FAILED_RETRYABLE", "FAILED_FINAL",
                              "BLOCKED_APPROVAL", "CANCELLED", "PENDING"}
      [] from = "FAILED_RETRYABLE" -> {"PENDING", "READY", "FAILED_FINAL", "CANCELLED"}
      [] from = "BLOCKED_APPROVAL" -> {"PENDING", "READY", "CANCELLED", "FAILED_FINAL"}
      [] OTHER -> {}

\* attempt_count is compared with max_attempts and nothing else once it has
\* reached it, so the count saturates one above (an exact abstraction).
AttemptCount == 0..(MaxAttempts + 1)

TaskRecord ==
    [status            : Status \cup {"ABSENT"},
     attempt_count     : AttemptCount,
     lease_until       : 0..LeaseTime,
     next_retry_at     : 0..RetryCap,
     not_before        : 0..MaxDelay,
     depends_on        : SUBSET Task,
     idempotency_key   : Key \cup {NoKey},
     priority          : Nat,
     requires_approval : BOOLEAN,
     approval_granted  : BOOLEAN]

Queue == [Task -> TaskRecord]

NoTask ==
    [status |-> "ABSENT", attempt_count |-> 0, lease_until |-> 0,
     next_retry_at |-> 0, not_before |-> 0, depends_on |-> {},
     idempotency_key |-> NoKey, priority |-> 0,
     requires_approval |-> FALSE, approval_granted |-> FALSE]

EmptyQueue == [t \in Task |-> NoTask]

\* A freshly constructed ExecutionTask.
NewTask(key, deps, priority, approval, delay) ==
    [NoTask EXCEPT !.status = "PENDING", !.idempotency_key = key,
                   !.depends_on = deps, !.priority = priority,
                   !.requires_approval = approval, !.not_before = delay]

-----------------------------------------------------------------------------
Used(q) == {t \in Task : q[t].status # "ABSENT"}

ByStatus(q, S) == {t \in Task : q[t].status \in S}

\* The id the next task added will get.
IsFresh(q, t) == q[t].status = "ABSENT" /\ \A u \in 1..(t - 1) : q[u].status # "ABSENT"

\* Wrong: forgets that a SUCCEEDED task keeps its key.
SameKeyLiveOnly(q, key) ==
    {t \in ByStatus(q, Live) : key # NoKey /\ q[t].idempotency_key = key}

\* _find_by_key: the tasks a new one with this key would duplicate.
SameKey(q, key) ==
    {t \in ByStatus(q, Live \cup {"SUCCEEDED"}) :
        key # NoKey /\ q[t].idempotency_key = key}

\* add: at id t, unless the key is taken; then the queue stays as it is.
Add(q, t, task) ==
    IF SameKey(q, task.idempotency_key) # {} THEN q ELSE [q EXCEPT ![t] = task]

-----------------------------------------------------------------------------
(* resolve_dependencies: one pass over the PENDING tasks in insertion      *)
(* order.  A dependency is always added before its dependant, so the pass  *)
(* sees the failures it has just recorded: Doomed is the least set closed  *)
(* under "a dependency is dead, unknown or doomed".                        *)
Unresolved(q) == {t \in Task : q[t].status = "PENDING" /\ ~q[t].requires_approval}

Gated(q) == {t \in Task : q[t].status = "PENDING" /\ q[t].requires_approval}

\* Wrong: a cancelled dependency is not taken for a failed one.
ClosedUnderFailedOnly(q, S) ==
    \A t \in Unresolved(q) :
        (\E d \in q[t].depends_on : q[d].status = "FAILED_FINAL" \/ d \in S) => t \in S

ClosedUnderFailure(q, S) ==
    \A t \in Unresolved(q) :
        (\E d \in q[t].depends_on : q[d].status \in Dead \cup {"ABSENT"} \/ d \in S)
            => t \in S

Doomed(q) ==
    {t \in Unresolved(q) :
        \A S \in SUBSET Unresolved(q) : ClosedUnderFailure(q, S) => t \in S}

DepsSucceeded(q, t) == \A d \in q[t].depends_on : q[d].status = "SUCCEEDED"

\* Wrong: promotes as soon as no dependency has failed.
PromotableUnlessFailed(q) ==
    {t \in Unresolved(q) :
        /\ \A d \in q[t].depends_on : q[d].status \notin Dead
        /\ q[t].not_before = 0}

Promotable(q) ==
    {t \in Unresolved(q) : DepsSucceeded(q, t) /\ q[t].not_before = 0}

ResolveDependencies(q) ==
    [t \in Task |->
        [q[t] EXCEPT !.status = IF t \in Gated(q) THEN "BLOCKED_APPROVAL"
                                ELSE IF t \in Doomed(q) THEN "FAILED_FINAL"
                                ELSE IF t \in Promotable(q) THEN "READY"
                                ELSE q[t].status]]

-----------------------------------------------------------------------------
(* The operations on timers.                                               *)

RetryDue(q) == {t \in Task : q[t].status = "FAILED_RETRYABLE" /\ q[t].next_retry_at = 0}

\* Wrong: never looks at the backoff.
RequeueNone(q) == q

RequeueDue(q) ==
    [t \in Task |-> IF t \in RetryDue(q) THEN [q[t] EXCEPT !.status = "PENDING"] ELSE q[t]]

Stale(q) == {t \in Task : q[t].status = "RUNNING" /\ q[t].lease_until = 0}

\* Wrong: a reclaimed task is rebuilt and loses its human release.
ReclaimForgetsRelease(q) ==
    [t \in Task |-> IF t \in Stale(q)
                    THEN [q[t] EXCEPT !.status = "PENDING", !.approval_granted = FALSE]
                    ELSE q[t]]

ReclaimStale(q) ==
    [t \in Task |-> IF t \in Stale(q) THEN [q[t] EXCEPT !.status = "PENDING"] ELSE q[t]]

Before(n) == IF n > 0 THEN n - 1 ELSE 0

\* Wrong: the backoff of a failed task never runs down.
ElapseFrozenRetry(q) ==
    [t \in Task |-> [q[t] EXCEPT !.lease_until = Before(q[t].lease_until),
                                 !.not_before = Before(q[t].not_before)]]

\* One unit of time passes.
Elapse(q) ==
    [t \in Task |-> [q[t] EXCEPT !.lease_until = Before(q[t].lease_until),
                                 !.next_retry_at = Before(q[t].next_retry_at),
                                 !.not_before = Before(q[t].not_before)]]

-----------------------------------------------------------------------------
(* The transitions of one task.                                            *)

\* ready(): the READY tasks, most urgent first, then oldest.
NextReady(q) ==
    {t \in ByStatus(q, {"READY"}) :
        \A u \in ByStatus(q, {"READY"}) :
            \/ q[t].priority > q[u].priority
            \/ q[t].priority = q[u].priority /\ t <= u}

CountUp(n) == IF n > MaxAttempts THEN n ELSE n + 1

Claim(q, t) ==
    [q EXCEPT ![t] = [q[t] EXCEPT !.status = "RUNNING", !.lease_until = LeaseTime,
                               !.attempt_count = CountUp(q[t].attempt_count)]]

Heartbeat(q, t) == [q EXCEPT ![t] = [q[t] EXCEPT !.lease_until = LeaseTime]]

MarkSucceeded(q, t) ==
    [q EXCEPT ![t] = [q[t] EXCEPT !.status = "SUCCEEDED", !.lease_until = 0]]

\* Wrong: no cap.
BackoffUncapped(n) == RetryBase * 2 ^ (IF n > 1 THEN n - 1 ELSE 0)

\* min(_RETRY_CAP_SECONDS, _RETRY_BASE_SECONDS * 2 ** (attempt_count - 1))
Backoff(n) ==
    LET delay == RetryBase * 2 ^ (IF n > 1 THEN n - 1 ELSE 0)
    IN  IF delay \in 0..RetryCap THEN delay ELSE RetryCap

MarkFailed(q, t, retryable) ==
    IF retryable /\ q[t].attempt_count < MaxAttempts
    THEN [q EXCEPT ![t] = [q[t] EXCEPT !.status = "FAILED_RETRYABLE", !.lease_until = 0,
                                    !.next_retry_at = Backoff(q[t].attempt_count)]]
    ELSE [q EXCEPT ![t] = [q[t] EXCEPT !.status = "FAILED_FINAL", !.lease_until = 0]]

\* Wrong: closes the gate of a running task but lets it run on.
BlockWhileRunning(q, t) ==
    [q EXCEPT ![t] = [q[t] EXCEPT !.status = IF q[t].status = "RUNNING" THEN "RUNNING" ELSE "BLOCKED_APPROVAL",
                               !.requires_approval = TRUE]]

BlockForApproval(q, t) ==
    [q EXCEPT ![t] = [q[t] EXCEPT !.status = "BLOCKED_APPROVAL", !.requires_approval = TRUE]]

Unblock(q, t) ==
    [q EXCEPT ![t] = [q[t] EXCEPT !.status = "PENDING", !.requires_approval = FALSE,
                               !.approval_granted = TRUE]]

Cancel(q, t) == [q EXCEPT ![t] = [q[t] EXCEPT !.status = "CANCELLED"]]
=============================================================================
