--------------------------- MODULE TaskQueueProofs ---------------------------
(***************************************************************************)
(* Theorems about module TaskQueue, for every number of tasks, every set   *)
(* of keys and requests and every value of the timing constants.           *)
(***************************************************************************)
EXTENDS TaskQueue, TLAPS

(***************************************************************************)
(* Each operation maps queues to queues.                                   *)
(***************************************************************************)
LEMMA EmptyQueueType == EmptyQueue \in Queue
BY TaskConstants DEF EmptyQueue, Queue, NoTask, TaskRecord, AttemptCount, Status, Live, Terminal

LEMMA NewTaskType ==
  ASSUME NEW r \in Request, NEW deps \in SUBSET Task
  PROVE  NewTask(r.key, deps, r.priority, r.approval, r.delay) \in TaskRecord
<1>1. r \in RequestRecord
  BY RequestType
<1>2. /\ r.key \in Key \cup {NoKey}
      /\ r.priority \in Nat
      /\ r.approval \in BOOLEAN
      /\ r.delay \in 0..MaxDelay
  BY <1>1 DEF RequestRecord
<1>3. NoTask \in TaskRecord
  BY TaskConstants DEF NoTask, TaskRecord, AttemptCount, Status, Live, Terminal
<1>4. QED
  BY <1>2, <1>3 DEF NewTask, TaskRecord, Status, Live, Terminal

LEMMA AddType ==
  ASSUME NEW p \in Queue, NEW t \in Task, NEW task \in TaskRecord
  PROVE  Add(p, t, task) \in Queue
BY DEF Add, Queue

LEMMA ResolveType ==
  ASSUME NEW p \in Queue
  PROVE  ResolveDependencies(p) \in Queue
<1> SUFFICES ASSUME NEW t \in Task
             PROVE  ResolveDependencies(p)[t] \in TaskRecord
  BY DEF ResolveDependencies, Queue
<1>1. p[t] \in TaskRecord
  BY DEF Queue
<1>2. QED
  BY <1>1 DEF ResolveDependencies, TaskRecord, Status, Live, Terminal

LEMMA TimersType ==
  ASSUME NEW p \in Queue
  PROVE  RequeueDue(p) \in Queue /\ ReclaimStale(p) \in Queue /\ Elapse(p) \in Queue
<1>1. \A t \in Task : p[t] \in TaskRecord
  BY DEF Queue
<1>2. RequeueDue(p) \in Queue
  BY <1>1 DEF RequeueDue, Queue, TaskRecord, Status, Live, Terminal
<1>3. ReclaimStale(p) \in Queue
  BY <1>1 DEF ReclaimStale, Queue, TaskRecord, Status, Live, Terminal
<1>4. \A n \in Nat : \A i \in 0..n : Before(i) \in 0..n
  BY DEF Before
<1>5. Elapse(p) \in Queue
  <2>1. ASSUME NEW t \in Task PROVE Elapse(p)[t] \in TaskRecord
    BY <1>1, <1>4, TaskConstants DEF Elapse, TaskRecord
  <2>2. QED
    BY <2>1 DEF Elapse, Queue
<1>6. QED
  BY <1>2, <1>3, <1>5

LEMMA BackoffType == \A n : Backoff(n) \in 0..RetryCap
BY TaskConstants DEF Backoff

LEMMA PutType ==
  ASSUME NEW p \in Queue, NEW t \in Task, NEW task \in TaskRecord
  PROVE  [p EXCEPT ![t] = task] \in Queue
BY DEF Queue

LEMMA TransitionType ==
  ASSUME NEW p \in Queue, NEW t \in Task
  PROVE  /\ Claim(p, t) \in Queue
         /\ Heartbeat(p, t) \in Queue
         /\ MarkSucceeded(p, t) \in Queue
         /\ \A retryable \in BOOLEAN : MarkFailed(p, t, retryable) \in Queue
         /\ BlockForApproval(p, t) \in Queue
         /\ Unblock(p, t) \in Queue
         /\ Cancel(p, t) \in Queue
<1> DEFINE r == p[t]
<1>1. r \in TaskRecord
  BY DEF Queue
<1>a. 0 \in 0..LeaseTime /\ LeaseTime \in 0..LeaseTime
  BY TaskConstants
<1>b. CountUp(r.attempt_count) \in AttemptCount
  BY <1>1, TaskConstants DEF CountUp, TaskRecord, AttemptCount
<1> HIDE DEF r
<1>2. Claim(p, t) \in Queue
  <2>1. [r EXCEPT !.status = "RUNNING", !.lease_until = LeaseTime,
                  !.attempt_count = CountUp(r.attempt_count)] \in TaskRecord
    BY <1>1, <1>a, <1>b DEF TaskRecord, Status, Live, Terminal
  <2>2. QED
    BY <2>1, PutType DEF Claim, r
<1>3. Heartbeat(p, t) \in Queue
  <2>1. [r EXCEPT !.lease_until = LeaseTime] \in TaskRecord
    BY <1>1, <1>a DEF TaskRecord
  <2>2. QED
    BY <2>1, PutType DEF Heartbeat, r
<1>4. MarkSucceeded(p, t) \in Queue
  <2>1. [r EXCEPT !.status = "SUCCEEDED", !.lease_until = 0] \in TaskRecord
    BY <1>1, <1>a DEF TaskRecord, Status, Live, Terminal
  <2>2. QED
    BY <2>1, PutType DEF MarkSucceeded, r
<1>5. ASSUME NEW retryable \in BOOLEAN PROVE MarkFailed(p, t, retryable) \in Queue
  <2>1. [r EXCEPT !.status = "FAILED_RETRYABLE", !.lease_until = 0,
                  !.next_retry_at = Backoff(r.attempt_count)] \in TaskRecord
    BY <1>1, <1>a, BackoffType DEF TaskRecord, Status, Live, Terminal
  <2>2. [r EXCEPT !.status = "FAILED_FINAL", !.lease_until = 0] \in TaskRecord
    BY <1>1, <1>a DEF TaskRecord, Status, Live, Terminal
  <2>3. QED
    BY <2>1, <2>2, PutType DEF MarkFailed, r
<1>6. BlockForApproval(p, t) \in Queue
  <2>1. [r EXCEPT !.status = "BLOCKED_APPROVAL", !.requires_approval = TRUE] \in TaskRecord
    BY <1>1, <1>a DEF TaskRecord, Status, Live, Terminal
  <2>2. QED
    BY <2>1, PutType DEF BlockForApproval, r
<1>7. Unblock(p, t) \in Queue
  <2>1. [r EXCEPT !.status = "PENDING", !.requires_approval = FALSE,
                  !.approval_granted = TRUE] \in TaskRecord
    BY <1>1, <1>a DEF TaskRecord, Status, Live, Terminal
  <2>2. QED
    BY <2>1, PutType DEF Unblock, r
<1>8. Cancel(p, t) \in Queue
  <2>1. [r EXCEPT !.status = "CANCELLED"] \in TaskRecord
    BY <1>1, <1>a DEF TaskRecord, Status, Live, Terminal
  <2>2. QED
    BY <2>1, PutType DEF Cancel, r
<1>9. QED
  BY <1>2, <1>3, <1>4, <1>5, <1>6, <1>7, <1>8

LEMMA TypeStep == TypeOK /\ [Next]_vars => TypeOK'
<1> SUFFICES ASSUME TypeOK, [Next]_vars PROVE TypeOK'
  OBVIOUS
<1>1. CASE Resolve \/ Requeue \/ Reclaim \/ Tick
  BY <1>1, ResolveType, TimersType DEF TypeOK, Resolve, Requeue, Reclaim, Tick
<1>2. ASSUME NEW t \in Task, Create(t) PROVE TypeOK'
  <2>1. PICK r \in Request, deps \in SUBSET Used(q) :
          q' = Add(q, t, NewTask(r.key, deps, r.priority, r.approval, r.delay))
    BY <1>2 DEF Create
  <2>2. deps \in SUBSET Task
    BY DEF Used
  <2>3. QED
    BY <2>1, <2>2, NewTaskType, AddType DEF TypeOK
<1>3. ASSUME NEW t \in Task,
             Start(t) \/ KeepAlive(t) \/ Finish(t) \/ Block(t) \/ Release(t) \/ Withdraw(t)
      PROVE TypeOK'
  BY <1>3, TransitionType
  DEF TypeOK, Start, KeepAlive, Finish, Succeed, Fail, Block, Release, Withdraw
<1>4. CASE UNCHANGED vars
  BY <1>4 DEF TypeOK, vars
<1>5. QED
  BY <1>1, <1>2, <1>3, <1>4 DEF Next

(* The queue always holds well-formed records.                             *)
THEOREM TypeCorrect == Spec => []TypeOK
<1>1. Init => TypeOK
  BY EmptyQueueType DEF Init, TypeOK
<1>2. QED
  BY <1>1, TypeStep, PTL DEF Spec

(***************************************************************************)
(* What one step may do to one task.  Every invariant and every action     *)
(* property below follows from this case list.                             *)
(***************************************************************************)
SameRequest(r, s) ==
    /\ s.depends_on = r.depends_on
    /\ s.idempotency_key = r.idempotency_key

SameGate(r, s) ==
    /\ s.requires_approval = r.requires_approval
    /\ s.approval_granted = r.approval_granted

SameCount(r, s) == s.attempt_count = r.attempt_count

Keeps(r, s) ==
    s.status = r.status /\ SameRequest(r, s) /\ SameGate(r, s) /\ SameCount(r, s)

Added(u) ==
    /\ q[u].status = "ABSENT"
    /\ q'[u].status = "PENDING"
    /\ SameKey(q, q'[u].idempotency_key) = {}
    /\ \A v \in Task \ {u} : q'[v] = q[v]

Moves(r, s, from, to) ==
    r.status \in from /\ s.status \in to /\ SameRequest(r, s) /\ SameGate(r, s)

Effect(u) ==
    LET r == q[u]
        s == q'[u]
    IN  \/ Keeps(r, s)
        \/ Added(u)
        \/ Moves(r, s, {"PENDING"}, {"BLOCKED_APPROVAL"})
        \/ Moves(r, s, {"PENDING"}, {"FAILED_FINAL"})
        \/ u \in Promotable(q) /\ Moves(r, s, {"PENDING"}, {"READY"})
        \/ Moves(r, s, {"FAILED_RETRYABLE", "RUNNING"}, {"PENDING"})
        \/ Moves(r, s, {"READY"}, {"RUNNING"})
        \/ Moves(r, s, {"RUNNING"}, {"SUCCEEDED", "FAILED_RETRYABLE", "FAILED_FINAL"})
        \/ Moves(r, s, Live, {"CANCELLED"})
        \/ /\ r.status \in {"READY", "RUNNING"} /\ s.status = "BLOCKED_APPROVAL"
           /\ SameRequest(r, s)
           /\ s.requires_approval /\ s.approval_granted = r.approval_granted
        \/ /\ r.status = "BLOCKED_APPROVAL" /\ s.status = "PENDING"
           /\ SameRequest(r, s)
           /\ ~s.requires_approval /\ s.approval_granted

Effects == \A u \in Task : Effect(u)

LEMMA ResolveEffect == TypeOK /\ Resolve => Effects
<1> SUFFICES ASSUME TypeOK, Resolve, NEW u \in Task PROVE Effect(u)
  BY DEF Effects
<1>1. q[u] \in TaskRecord
  BY DEF TypeOK, Queue
<1>2. q'[u] = [q[u] EXCEPT !.status = IF u \in Gated(q) THEN "BLOCKED_APPROVAL"
                                     ELSE IF u \in Doomed(q) THEN "FAILED_FINAL"
                                     ELSE IF u \in Promotable(q) THEN "READY"
                                     ELSE q[u].status]
  BY DEF Resolve, ResolveDependencies
<1>3. SameRequest(q[u], q'[u]) /\ SameGate(q[u], q'[u]) /\ SameCount(q[u], q'[u])
  BY <1>1, <1>2 DEF SameRequest, SameGate, SameCount, TaskRecord
<1>4. CASE u \in Gated(q)
  BY <1>1, <1>2, <1>3, <1>4 DEF Effect, Moves, Gated, TaskRecord
<1>5. CASE u \notin Gated(q) /\ u \in Doomed(q)
  BY <1>1, <1>2, <1>3, <1>5 DEF Effect, Moves, Doomed, Unresolved, TaskRecord
<1>6. CASE u \notin Gated(q) /\ u \notin Doomed(q) /\ u \in Promotable(q)
  BY <1>1, <1>2, <1>3, <1>6 DEF Effect, Moves, Promotable, Unresolved, TaskRecord
<1>7. CASE u \notin Gated(q) /\ u \notin Doomed(q) /\ u \notin Promotable(q)
  BY <1>1, <1>2, <1>3, <1>7 DEF Effect, Keeps, TaskRecord
<1>8. QED
  BY <1>4, <1>5, <1>6, <1>7

LEMMA TimerEffect == TypeOK /\ (Requeue \/ Reclaim \/ Tick) => Effects
<1> SUFFICES ASSUME TypeOK, Requeue \/ Reclaim \/ Tick, NEW u \in Task PROVE Effect(u)
  BY DEF Effects
<1>1. q[u] \in TaskRecord
  BY DEF TypeOK, Queue
<1>2. CASE Requeue
  BY <1>1, <1>2 DEF Requeue, RequeueDue, RetryDue, Effect, Keeps, Moves, SameRequest, SameGate,
     SameCount, TaskRecord
<1>3. CASE Reclaim
  BY <1>1, <1>3 DEF Reclaim, ReclaimStale, Stale, Effect, Keeps, Moves, SameRequest, SameGate,
     SameCount, TaskRecord
<1>4. CASE Tick
  BY <1>1, <1>4 DEF Tick, Elapse, Effect, Keeps, SameRequest, SameGate, SameCount, TaskRecord
<1>5. QED
  BY <1>2, <1>3, <1>4

LEMMA CreateEffect == ASSUME TypeOK, NEW t \in Task, Create(t) PROVE Effects
<1> SUFFICES ASSUME NEW u \in Task PROVE Effect(u)
  BY DEF Effects
<1>1. PICK r \in Request, deps \in SUBSET Used(q) :
        q' = Add(q, t, NewTask(r.key, deps, r.priority, r.approval, r.delay))
  BY DEF Create
<1> DEFINE task == NewTask(r.key, deps, r.priority, r.approval, r.delay)
<1>2. task.status = "PENDING" /\ task.idempotency_key = r.key
  BY DEF NewTask, NoTask
<1> HIDE DEF task
<1>3. CASE SameKey(q, task.idempotency_key) # {}
  <2>1. q' = q
    BY <1>1, <1>3 DEF Add, task
  <2>2. QED
    BY <2>1 DEF Effect, Keeps, SameRequest, SameGate, SameCount
<1>4. CASE SameKey(q, task.idempotency_key) = {}
  <2>1. q' = [q EXCEPT ![t] = task]
    BY <1>1, <1>4 DEF Add, task
  <2>2. CASE u = t
    <3>1. q[t].status = "ABSENT"
      BY DEF Create, IsFresh
    <3>2. q'[t] = task /\ \A v \in Task \ {t} : q'[v] = q[v]
      BY <2>1 DEF TypeOK, Queue
    <3>3. Added(u)
      BY <1>2, <1>4, <2>2, <3>1, <3>2 DEF Added
    <3>4. QED
      BY <3>3 DEF Effect
  <2>3. CASE u # t
    BY <2>1, <2>3 DEF TypeOK, Queue, Effect, Keeps, SameRequest, SameGate, SameCount
  <2>4. QED
    BY <2>2, <2>3
<1>5. QED
  BY <1>3, <1>4

LEMMA TransitionEffect ==
  ASSUME TypeOK, NEW t \in Task,
         Start(t) \/ KeepAlive(t) \/ Finish(t) \/ Block(t) \/ Release(t) \/ Withdraw(t)
  PROVE  Effects
<1> SUFFICES ASSUME NEW u \in Task PROVE Effect(u)
  BY DEF Effects
<1>1. q[t] \in TaskRecord
  BY DEF TypeOK, Queue
<1>2. CASE u # t
  <2>1. q'[u] = q[u]
    BY <1>2 DEF TypeOK, Queue, Start, KeepAlive, Finish, Succeed, Fail, Block, Release,
       Withdraw, Claim, Heartbeat, MarkSucceeded, MarkFailed, BlockForApproval, Unblock, Cancel
  <2>2. QED
    BY <2>1 DEF Effect, Keeps, SameRequest, SameGate, SameCount
<1>3. CASE u = t /\ Start(t)
  <2>1. q'[t] = [q[t] EXCEPT !.status = "RUNNING", !.lease_until = LeaseTime,
                             !.attempt_count = CountUp(q[t].attempt_count)]
    BY <1>3 DEF Start, Claim, TypeOK, Queue
  <2>2. QED
    BY <1>1, <1>3, <2>1 DEF Start, Effect, Moves, SameRequest, SameGate, TaskRecord
<1>4. CASE u = t /\ KeepAlive(t)
  <2>1. q'[t] = [q[t] EXCEPT !.lease_until = LeaseTime]
    BY <1>4 DEF KeepAlive, Heartbeat, TypeOK, Queue
  <2>2. QED
    BY <1>1, <1>4, <2>1 DEF Effect, Keeps, SameRequest, SameGate, SameCount, TaskRecord
<1>5. CASE u = t /\ Succeed(t)
  <2>1. q'[t] = [q[t] EXCEPT !.status = "SUCCEEDED", !.lease_until = 0]
    BY <1>5 DEF Succeed, MarkSucceeded, TypeOK, Queue
  <2>2. q[t].status = "RUNNING"
    BY <1>1, <1>5 DEF Succeed, Legal, TaskRecord, Status, Live, Terminal
  <2>3. QED
    BY <1>1, <1>5, <2>1, <2>2 DEF Effect, Moves, SameRequest, SameGate, TaskRecord
<1>6. CASE u = t /\ (Fail(t, TRUE) \/ Fail(t, FALSE))
  <2>1. \/ q'[t] = [q[t] EXCEPT !.status = "FAILED_RETRYABLE", !.lease_until = 0,
                                !.next_retry_at = Backoff(q[t].attempt_count)]
        \/ q'[t] = [q[t] EXCEPT !.status = "FAILED_FINAL", !.lease_until = 0]
    BY <1>6 DEF Fail, MarkFailed, TypeOK, Queue
  <2>2. q[t].status = "RUNNING"
    BY <1>6 DEF Fail
  <2>3. q'[t].status \in {"FAILED_RETRYABLE", "FAILED_FINAL"}
    BY <1>1, <2>1 DEF TaskRecord
  <2>4. SameRequest(q[t], q'[t]) /\ SameGate(q[t], q'[t])
    BY <1>1, <2>1 DEF SameRequest, SameGate, TaskRecord
  <2>5. QED
    BY <1>6, <2>2, <2>3, <2>4 DEF Effect, Moves
<1>7. CASE u = t /\ Block(t)
  <2>1. q'[t] = [q[t] EXCEPT !.status = "BLOCKED_APPROVAL", !.requires_approval = TRUE]
    BY <1>7 DEF Block, BlockForApproval, TypeOK, Queue
  <2>2. QED
    BY <1>1, <1>7, <2>1 DEF Block, Effect, SameRequest, TaskRecord
<1>8. CASE u = t /\ Release(t)
  <2>1. q'[t] = [q[t] EXCEPT !.status = "PENDING", !.requires_approval = FALSE,
                             !.approval_granted = TRUE]
    BY <1>8 DEF Release, Unblock, TypeOK, Queue
  <2>2. QED
    BY <1>1, <1>8, <2>1 DEF Release, Effect, SameRequest, TaskRecord
<1>9. CASE u = t /\ Withdraw(t)
  <2>1. q'[t] = [q[t] EXCEPT !.status = "CANCELLED"]
    BY <1>9 DEF Withdraw, Cancel, TypeOK, Queue
  <2>2. QED
    BY <1>1, <1>9, <2>1 DEF Withdraw, Effect, Moves, SameRequest, SameGate, TaskRecord
<1>10. QED
  BY <1>2, <1>3, <1>4, <1>5, <1>6, <1>7, <1>8, <1>9 DEF Finish

LEMMA StepEffects == TypeOK /\ [Next]_vars => Effects
<1> SUFFICES ASSUME TypeOK, [Next]_vars PROVE Effects
  OBVIOUS
<1>1. CASE Next
  BY <1>1, ResolveEffect, TimerEffect, CreateEffect, TransitionEffect DEF Next
<1>2. CASE UNCHANGED vars
  BY <1>2 DEF vars, Effects, Effect, Keeps, SameRequest, SameGate, SameCount
<1>3. QED
  BY <1>1, <1>2

-----------------------------------------------------------------------------
(***************************************************************************)
(* The safety invariants.  DependenciesFirst is inductive because a        *)
(* SUCCEEDED dependency stays SUCCEEDED; OneTaskPerKey because no task     *)
(* comes back from FAILED_FINAL or CANCELLED to claim its key again.       *)
(***************************************************************************)
\* An id that has not been given to a task has no gate yet.
AbsentUngated ==
    \A t \in Task : q[t].status = "ABSENT" =>
        ~q[t].requires_approval /\ ~q[t].approval_granted

Inv ==
    /\ TypeOK
    /\ DependenciesFirst
    /\ OneTaskPerKey
    /\ ClosedGateHolds
    /\ AbsentUngated

LEMMA SucceededStays ==
  ASSUME Effects, NEW d \in Task, q[d].status = "SUCCEEDED"
  PROVE  q'[d].status = "SUCCEEDED"
BY DEF Effects, Effect, Keeps, Added, Moves, Promotable, Unresolved, Live

LEMMA DependenciesStep ==
  ASSUME TypeOK, DependenciesFirst, Effects
  PROVE  DependenciesFirst'
<1> SUFFICES ASSUME NEW t \in Task, q'[t].status \in Enabled
             PROVE  DepsSucceeded(q', t)
  BY DEF DependenciesFirst, DepsSucceeded
<1>1. Effect(t)
  BY DEF Effects
<1>2. q'[t].depends_on = q[t].depends_on /\ DepsSucceeded(q, t)
  <2>1. CASE t \in Promotable(q) /\ Moves(q[t], q'[t], {"PENDING"}, {"READY"})
    BY <2>1 DEF Promotable, Moves, SameRequest
  <2>2. CASE q[t].status \in Enabled /\ SameRequest(q[t], q'[t])
    BY <2>2 DEF DependenciesFirst, SameRequest
  <2>3. QED
    BY <1>1, <2>1, <2>2 DEF Effect, Keeps, Added, Moves, Enabled
<1>3. q[t].depends_on \subseteq Task
  BY DEF TypeOK, Queue, TaskRecord
<1>4. QED
  BY <1>2, <1>3, SucceededStays DEF DepsSucceeded

Holds(status) == status \in Live \cup {"SUCCEEDED"}

LEMMA HolderStep ==
  ASSUME Effects, NEW t \in Task, Holds(q'[t].status)
  PROVE  \/ Holds(q[t].status) /\ q'[t].idempotency_key = q[t].idempotency_key
         \/ Added(t)
BY DEF Effects, Effect, Keeps, Moves, SameRequest, Holds, Live

LEMMA OneTaskPerKeyStep ==
  ASSUME OneTaskPerKey, Effects
  PROVE  OneTaskPerKey'
<1> SUFFICES ASSUME NEW t \in Task, NEW u \in Task,
                    q'[t].idempotency_key = q'[u].idempotency_key,
                    q'[t].idempotency_key # NoKey,
                    Holds(q'[t].status), Holds(q'[u].status)
             PROVE  t = u
  BY DEF OneTaskPerKey, Holds
<1>1. ASSUME NEW a \in Task, NEW b \in Task, Added(a), a # b, Holds(q'[b].status),
             q'[a].idempotency_key = q'[b].idempotency_key,
             q'[a].idempotency_key # NoKey
      PROVE  FALSE
  <2>1. q'[b] = q[b]
    BY <1>1 DEF Added
  <2>2. b \in SameKey(q, q'[a].idempotency_key)
    BY <1>1, <2>1 DEF SameKey, ByStatus, Holds
  <2>3. QED
    BY <1>1, <2>2 DEF Added
<1>2. CASE Added(t) \/ Added(u)
  BY <1>1, <1>2
<1>3. CASE ~Added(t) /\ ~Added(u)
  <2>1. /\ Holds(q[t].status) /\ q'[t].idempotency_key = q[t].idempotency_key
        /\ Holds(q[u].status) /\ q'[u].idempotency_key = q[u].idempotency_key
    BY <1>3, HolderStep
  <2>2. QED
    BY <2>1 DEF OneTaskPerKey, Holds
<1>4. QED
  BY <1>2, <1>3

LEMMA ClosedGateStep ==
  ASSUME ClosedGateHolds, Effects
  PROVE  ClosedGateHolds'
<1> SUFFICES ASSUME NEW t \in Task, q'[t].requires_approval
             PROVE  q'[t].status \notin Enabled
  BY DEF ClosedGateHolds
<1>1. Effect(t)
  BY DEF Effects
<1>2. CASE t \in Promotable(q) /\ Moves(q[t], q'[t], {"PENDING"}, {"READY"})
  BY <1>2 DEF Promotable, Unresolved, Moves, SameGate
<1>3. CASE ~(t \in Promotable(q) /\ Moves(q[t], q'[t], {"PENDING"}, {"READY"}))
  BY <1>1, <1>3 DEF ClosedGateHolds, Effect, Keeps, Added, Moves, SameGate, Enabled
<1>4. QED
  BY <1>2, <1>3

LEMMA AbsentUngatedStep ==
  ASSUME AbsentUngated, Effects
  PROVE  AbsentUngated'
BY DEF Effects, Effect, AbsentUngated, Keeps, Added, Moves, SameGate, Live

(* Dependencies first, one task per key and closed gates hold in every     *)
(* reachable state.                                                        *)
THEOREM Safety == Spec => []Inv
<1>1. Init => Inv
  <2>1. Init => \A t \in Task : q[t] = NoTask
    BY DEF Init, EmptyQueue
  <2>2. QED
    BY <2>1, EmptyQueueType
    DEF Init, Inv, TypeOK, DependenciesFirst, OneTaskPerKey, ClosedGateHolds,
        AbsentUngated, NoTask, Enabled, Live
<1>2. Inv /\ [Next]_vars => Inv'
  BY TypeStep, StepEffects, DependenciesStep, OneTaskPerKeyStep, ClosedGateStep,
     AbsentUngatedStep DEF Inv
<1>3. QED
  BY <1>1, <1>2, PTL DEF Spec

(* No task is started before everything it depends on has SUCCEEDED.       *)
THEOREM DependenciesFirstHolds == Spec => []DependenciesFirst
BY Safety, PTL DEF Inv

(* No idempotency key ever has two live or SUCCEEDED tasks.                *)
THEOREM OneTaskPerKeyHolds == Spec => []OneTaskPerKey
BY Safety, PTL DEF Inv

(* No task whose approval gate is closed is ever eligible to run.          *)
THEOREM ClosedGateHoldsAlways == Spec => []ClosedGateHolds
BY Safety, PTL DEF Inv

-----------------------------------------------------------------------------
(***************************************************************************)
(* The action properties: each is a consequence of Effects.                *)
(***************************************************************************)
LEMMA FinalFromEffects == Effects => FinalStep
BY DEF Effects, Effect, FinalStep, Keeps, Added, Moves, Promotable, Unresolved, SameRequest,
   SameCount, Terminal, Live

(* A terminal task keeps its status, attempts, dependencies and key.       *)
THEOREM TerminalStaysFinal == Spec => TerminalIsFinal
<1>1. TypeOK /\ [Next]_vars => [FinalStep]_vars
  BY StepEffects, FinalFromEffects
<1>2. QED
  BY <1>1, TypeCorrect, PTL DEF Spec, TerminalIsFinal

LEMMA GateFromEffects == AbsentUngated /\ Effects => GateStep
BY DEF AbsentUngated, Effects, Effect, GateStep, Keeps, Added, Moves, SameGate

(* A closed gate opens by a human release only, which is never forgotten.  *)
THEOREM GateOpensByReleaseOnly == Spec => GateOpensByRelease
<1>1. Inv /\ [Next]_vars => [GateStep]_vars
  BY StepEffects, GateFromEffects DEF Inv
<1>2. QED
  BY <1>1, Safety, PTL DEF Spec, GateOpensByRelease

LEMMA LegalFromEffects == Effects => LegalStep
BY DEF Effects, Effect, LegalStep, Legal, Keeps, Added, Moves, Live

(* No operation ever asks _set for a status change it would refuse.        *)
THEOREM OnlyLegalTransitionsHold == Spec => OnlyLegalTransitions
<1>1. TypeOK /\ [Next]_vars => [LegalStep]_vars
  BY StepEffects, LegalFromEffects
<1>2. QED
  BY <1>1, TypeCorrect, PTL DEF Spec, OnlyLegalTransitions

-----------------------------------------------------------------------------
(***************************************************************************)
(* TaskQueue implements TaskContract.                                      *)
(***************************************************************************)
\* Doomed is closed under failure, and each of its members has a reason in it.
LEMMA DoomedIsJustified ==
  ASSUME NEW p \in Queue, NEW t \in Doomed(p)
  PROVE  \E d \in p[t].depends_on : p[d].status \in Dead \cup {"ABSENT"} \/ d \in Doomed(p)
<1> DEFINE S == Doomed(p) \ {t}
<1>1. S \in SUBSET Unresolved(p)
  BY DEF Doomed
<1>2. ASSUME ~\E d \in p[t].depends_on :
                  p[d].status \in Dead \cup {"ABSENT"} \/ d \in Doomed(p)
      PROVE  FALSE
  <2>1. SUFFICES ASSUME NEW v \in Unresolved(p), NEW d \in p[v].depends_on,
                        p[d].status \in Dead \cup {"ABSENT"} \/ d \in S
                 PROVE  v \in S
    BY <1>1 DEF ClosedUnderFailure, Doomed
  <2>2. v # t
    BY <1>2, <2>1
  <2>3. ASSUME NEW R \in SUBSET Unresolved(p), ClosedUnderFailure(p, R) PROVE v \in R
    BY <2>1, <2>3 DEF ClosedUnderFailure, Doomed
  <2>4. QED
    BY <2>2, <2>3 DEF Doomed
<1>3. QED
  BY <1>2

LEMMA ResolveRefines == ASSUME Inv, Resolve PROVE [Contract!Next]_Contract!vars
<1> DEFINE D == Doomed(q)
<1>1. \A t \in Task : q[t] \in TaskRecord
  BY DEF Inv, TypeOK, Queue
<1>2. \A t \in Task : /\ q'[t].depends_on = q[t].depends_on
                       /\ q'[t].idempotency_key = q[t].idempotency_key
                       /\ q'[t].requires_approval = q[t].requires_approval
  BY <1>1 DEF Resolve, ResolveDependencies, TaskRecord
<1>3. D \subseteq Unresolved(q) /\ D \subseteq Task
  BY DEF Doomed, Unresolved
<1>4. \A t \in Task : q'[t].status = IF t \in Gated(q) THEN "BLOCKED_APPROVAL"
                                      ELSE IF t \in D THEN "FAILED_FINAL"
                                      ELSE IF t \in Promotable(q) THEN "READY"
                                      ELSE q[t].status
  BY <1>1 DEF Resolve, ResolveDependencies, TaskRecord
<1>5. ASSUME NEW t \in Task
      PROVE  PhaseOf(q'[t].status) = IF t \in D THEN "dropped" ELSE PhaseOf(q[t].status)
  BY <1>3, <1>4 DEF Gated, Promotable, Unresolved, PhaseOf, Dead
<1>6. \A t \in D : PhaseOf(q[t].status) = "waiting"
  BY <1>3 DEF Unresolved, PhaseOf, Dead
<1>7. ASSUME NEW t \in D
      PROVE  \E d \in q[t].depends_on : PhaseOf(q[d].status) \in {"dropped", "absent"} \/ d \in D
  BY DoomedIsJustified DEF Inv, TypeOK, PhaseOf, Dead
<1>8. \A t \in D : q[t].depends_on \subseteq Task
  BY <1>1, <1>3 DEF TaskRecord
<1> HIDE DEF D
<1>9. Contract!Cascade(D)
  BY <1>2, <1>3, <1>5, <1>6, <1>7, <1>8 DEF Contract!Cascade
<1>10. QED
  BY <1>3, <1>9 DEF Contract!Next

\* Steps that keep what the contract sees of every task.
LEMMA StutterRefines ==
  ASSUME \A t \in Task : /\ PhaseOf(q'[t].status) = PhaseOf(q[t].status)
                         /\ SameRequest(q[t], q'[t])
                         /\ q'[t].requires_approval = q[t].requires_approval
  PROVE  UNCHANGED Contract!vars
BY DEF Contract!vars, SameRequest

LEMMA TimerRefines ==
  ASSUME Inv, Requeue \/ Reclaim \/ Tick
  PROVE  [Contract!Next]_Contract!vars
<1>1. \A t \in Task : q[t] \in TaskRecord
  BY DEF Inv, TypeOK, Queue
<1>2. CASE Requeue
  <2>1. UNCHANGED Contract!vars
    BY <1>1, <1>2, StutterRefines
    DEF Requeue, RequeueDue, RetryDue, PhaseOf, Dead, SameRequest, TaskRecord
  <2>2. QED
    BY <2>1
<1>3. CASE Reclaim
  <2> DEFINE S == Stale(q)
  <2>1. S \subseteq Task /\ \A t \in S : q[t].status = "RUNNING"
    BY DEF Stale
  <2>2. \A t \in Task : /\ q'[t].depends_on = q[t].depends_on
                         /\ q'[t].idempotency_key = q[t].idempotency_key
                         /\ q'[t].requires_approval = q[t].requires_approval
                         /\ q'[t].status = IF t \in S THEN "PENDING" ELSE q[t].status
    BY <1>1, <1>3 DEF Reclaim, ReclaimStale, TaskRecord
  <2> HIDE DEF S
  <2>3. /\ \A t \in S : PhaseOf(q[t].status) = "running"
        /\ \A t \in Task : PhaseOf(q'[t].status) =
              IF t \in S THEN "waiting" ELSE PhaseOf(q[t].status)
    BY <2>1, <2>2 DEF PhaseOf, Dead
  <2>4. Contract!GiveBack(S)
    BY <2>1, <2>2, <2>3 DEF Contract!GiveBack
  <2>5. QED
    BY <2>1, <2>4 DEF Contract!Next
<1>4. CASE Tick
  <2>1. ASSUME NEW t \in Task
        PROVE  /\ q'[t].status = q[t].status
               /\ SameRequest(q[t], q'[t])
               /\ q'[t].requires_approval = q[t].requires_approval
    <3>1. q'[t] = [q[t] EXCEPT !.lease_until = Before(q[t].lease_until),
                               !.next_retry_at = Before(q[t].next_retry_at),
                               !.not_before = Before(q[t].not_before)]
      BY <1>4 DEF Tick, Elapse
    <3>2. QED
      BY <1>1, <3>1 DEF SameRequest, TaskRecord
  <2>2. UNCHANGED Contract!vars
    BY <2>1, StutterRefines
  <2>3. QED
    BY <2>2
<1>5. QED
  BY <1>2, <1>3, <1>4

LEMMA CreateRefines ==
  ASSUME Inv, NEW t \in Task, Create(t)
  PROVE  [Contract!Next]_Contract!vars
<1>1. PICK r \in Request, deps \in SUBSET Used(q) :
        q' = Add(q, t, NewTask(r.key, deps, r.priority, r.approval, r.delay))
  BY DEF Create
<1> DEFINE task == NewTask(r.key, deps, r.priority, r.approval, r.delay)
<1>2. /\ r.key \in Key \cup {NoKey} /\ r.approval \in BOOLEAN
      /\ deps \in SUBSET Task
  BY RequestType DEF RequestRecord, Used
<1>3. /\ task.status = "PENDING" /\ task.idempotency_key = r.key
      /\ task.depends_on = deps /\ task.requires_approval = r.approval
  BY DEF NewTask, NoTask
<1> HIDE DEF task
<1>4. CASE SameKey(q, task.idempotency_key) # {}
  <2>1. q' = q
    BY <1>1, <1>4 DEF Add, task
  <2>2. QED
    BY <2>1 DEF Contract!vars
<1>5. CASE SameKey(q, task.idempotency_key) = {}
  <2>1. q' = [q EXCEPT ![t] = task]
    BY <1>1, <1>5 DEF Add, task
  <2>2. q'[t] = task /\ \A u \in Task : u # t => q'[u] = q[u]
    BY <2>1 DEF Inv, TypeOK, Queue
  <2>3. PhaseOf(q[t].status) = "absent" /\ PhaseOf(task.status) = "waiting"
    BY <1>3 DEF Create, IsFresh, PhaseOf, Dead
  <2>4. ASSUME r.key # NoKey, NEW u \in Task, q[u].idempotency_key = r.key
        PROVE  PhaseOf(q[u].status) \notin {"waiting", "running", "done"}
    <3>1. q[u].status \notin Live \cup {"SUCCEEDED"}
      BY <1>3, <1>5, <2>4 DEF SameKey, ByStatus
    <3>2. q[u].status \in Dead \cup {"ABSENT"}
      BY <3>1 DEF Inv, TypeOK, Queue, TaskRecord, Status, Terminal, Dead
    <3>3. QED
      BY <3>2 DEF PhaseOf, Dead
  <2>5. Contract!Accept(t, r.key, deps, r.approval)
    BY <1>3, <2>2, <2>3, <2>4 DEF Contract!Accept, Contract!Taken
  <2>6. QED
    BY <1>2, <2>5 DEF Contract!Next
<1>6. QED
  BY <1>4, <1>5

LEMMA TransitionRefines ==
  ASSUME Inv, NEW t \in Task,
         Start(t) \/ KeepAlive(t) \/ Finish(t) \/ Block(t) \/ Release(t) \/ Withdraw(t)
  PROVE  [Contract!Next]_Contract!vars
<1>1. q[t] \in TaskRecord
  BY DEF Inv, TypeOK, Queue
<1>2. ASSUME NEW u \in Task, u # t PROVE q'[u] = q[u]
  BY <1>2 DEF Inv, TypeOK, Queue, Start, KeepAlive, Finish, Succeed, Fail, Block, Release,
     Withdraw, Claim, Heartbeat, MarkSucceeded, MarkFailed, BlockForApproval, Unblock, Cancel
<1>3. CASE Start(t)
  <2>1. q'[t] = [q[t] EXCEPT !.status = "RUNNING", !.lease_until = LeaseTime,
                             !.attempt_count = CountUp(q[t].attempt_count)]
    BY <1>3 DEF Start, Claim, Inv, TypeOK, Queue
  <2>2. /\ q'[t].status = "RUNNING" /\ SameRequest(q[t], q'[t])
        /\ q'[t].requires_approval = q[t].requires_approval
    BY <1>1, <2>1 DEF SameRequest, TaskRecord
  <2>3. q[t].status = "READY" /\ ~q[t].requires_approval /\ DepsSucceeded(q, t)
    BY <1>3 DEF Start, Inv, ClosedGateHolds, DependenciesFirst, Enabled
  <2>4. \A d \in q[t].depends_on : d \in Task /\ PhaseOf(q[d].status) = "done"
    BY <1>1, <2>3 DEF DepsSucceeded, TaskRecord, PhaseOf, Dead
  <2>5. PhaseOf(q[t].status) = "waiting" /\ PhaseOf(q'[t].status) = "running"
    BY <2>2, <2>3 DEF PhaseOf, Dead
  <2>6. Contract!Start(t)
    BY <1>2, <2>2, <2>3, <2>4, <2>5 DEF Contract!Start, SameRequest
  <2>7. QED
    BY <2>6 DEF Contract!Next
<1>4. CASE KeepAlive(t)
  <2>1. q'[t] = [q[t] EXCEPT !.lease_until = LeaseTime]
    BY <1>4 DEF KeepAlive, Heartbeat, Inv, TypeOK, Queue
  <2>2. /\ q'[t].status = q[t].status /\ SameRequest(q[t], q'[t])
        /\ q'[t].requires_approval = q[t].requires_approval
    BY <1>1, <2>1 DEF SameRequest, TaskRecord
  <2>3. UNCHANGED Contract!vars
    BY <1>2, <2>2, StutterRefines DEF SameRequest
  <2>4. QED
    BY <2>3
<1>5. CASE Succeed(t)
  <2>1. q'[t] = [q[t] EXCEPT !.status = "SUCCEEDED", !.lease_until = 0]
    BY <1>5 DEF Succeed, MarkSucceeded, Inv, TypeOK, Queue
  <2>2. /\ q'[t].status = "SUCCEEDED" /\ SameRequest(q[t], q'[t])
        /\ q'[t].requires_approval = q[t].requires_approval
    BY <1>1, <2>1 DEF SameRequest, TaskRecord
  <2>3. q[t].status = "RUNNING"
    BY <1>1, <1>5 DEF Succeed, Legal, TaskRecord, Status, Live, Terminal
  <2>4. PhaseOf(q[t].status) = "running" /\ PhaseOf(q'[t].status) = "done"
    BY <2>2, <2>3 DEF PhaseOf, Dead
  <2>5. Contract!Finish(t)
    BY <1>2, <2>2, <2>4 DEF Contract!Finish, SameRequest
  <2>6. QED
    BY <2>5 DEF Contract!Next
<1>6. CASE Fail(t, TRUE) \/ Fail(t, FALSE)
  <2>1. \/ q'[t] = [q[t] EXCEPT !.status = "FAILED_RETRYABLE", !.lease_until = 0,
                                !.next_retry_at = Backoff(q[t].attempt_count)]
        \/ q'[t] = [q[t] EXCEPT !.status = "FAILED_FINAL", !.lease_until = 0]
    BY <1>6 DEF Fail, MarkFailed, Inv, TypeOK, Queue
  <2>2. /\ q'[t].status \in {"FAILED_RETRYABLE", "FAILED_FINAL"}
        /\ SameRequest(q[t], q'[t])
        /\ q'[t].requires_approval = q[t].requires_approval
    BY <1>1, <2>1 DEF SameRequest, TaskRecord
  <2>3. q[t].status = "RUNNING" /\ PhaseOf(q[t].status) = "running"
    BY <1>6 DEF Fail, PhaseOf, Dead
  <2>4. CASE q'[t].status = "FAILED_RETRYABLE"
    <3>1. PhaseOf(q'[t].status) = "waiting"
      BY <2>4 DEF PhaseOf, Dead
    <3>2. Contract!GiveBack({t})
      BY <1>2, <2>2, <2>3, <3>1 DEF Contract!GiveBack, SameRequest
    <3>3. QED
      BY <3>2 DEF Contract!Next
  <2>5. CASE q'[t].status = "FAILED_FINAL"
    <3>1. PhaseOf(q'[t].status) = "dropped"
      BY <2>5 DEF PhaseOf, Dead
    <3>2. Contract!Drop(t)
      BY <1>2, <2>2, <2>3, <3>1 DEF Contract!Drop, SameRequest
    <3>3. QED
      BY <3>2 DEF Contract!Next
  <2>6. QED
    BY <2>2, <2>4, <2>5
<1>7. CASE Block(t)
  <2>1. q'[t] = [q[t] EXCEPT !.status = "BLOCKED_APPROVAL", !.requires_approval = TRUE]
    BY <1>7 DEF Block, BlockForApproval, Inv, TypeOK, Queue
  <2>2. /\ q'[t].status = "BLOCKED_APPROVAL" /\ SameRequest(q[t], q'[t])
        /\ q'[t].requires_approval = TRUE
    BY <1>1, <2>1 DEF SameRequest, TaskRecord
  <2>3. PhaseOf(q[t].status) \in {"waiting", "running"} /\ PhaseOf(q'[t].status) = "waiting"
    BY <1>7, <2>2 DEF Block, PhaseOf, Dead
  <2>4. Contract!CloseGate(t)
    BY <1>2, <2>2, <2>3 DEF Contract!CloseGate, SameRequest
  <2>5. QED
    BY <2>4 DEF Contract!Next
<1>8. CASE Release(t)
  <2>1. q'[t] = [q[t] EXCEPT !.status = "PENDING", !.requires_approval = FALSE,
                             !.approval_granted = TRUE]
    BY <1>8 DEF Release, Unblock, Inv, TypeOK, Queue
  <2>2. /\ q'[t].status = "PENDING" /\ SameRequest(q[t], q'[t])
        /\ q'[t].requires_approval = FALSE
    BY <1>1, <2>1 DEF SameRequest, TaskRecord
  <2>3. PhaseOf(q[t].status) = "waiting" /\ PhaseOf(q'[t].status) = "waiting"
    BY <1>8, <2>2 DEF Release, PhaseOf, Dead
  <2>4. Contract!OpenGate(t)
    BY <1>2, <2>2, <2>3 DEF Contract!OpenGate, SameRequest
  <2>5. QED
    BY <2>4 DEF Contract!Next
<1>9. CASE Withdraw(t)
  <2>1. q'[t] = [q[t] EXCEPT !.status = "CANCELLED"]
    BY <1>9 DEF Withdraw, Cancel, Inv, TypeOK, Queue
  <2>2. /\ q'[t].status = "CANCELLED" /\ SameRequest(q[t], q'[t])
        /\ q'[t].requires_approval = q[t].requires_approval
    BY <1>1, <2>1 DEF SameRequest, TaskRecord
  <2>3. PhaseOf(q[t].status) \in {"waiting", "running"} /\ PhaseOf(q'[t].status) = "dropped"
    BY <1>9, <2>2 DEF Withdraw, Live, PhaseOf, Dead
  <2>4. Contract!Drop(t)
    BY <1>2, <2>2, <2>3 DEF Contract!Drop, SameRequest
  <2>5. QED
    BY <2>4 DEF Contract!Next
<1>10. QED
  BY <1>3, <1>4, <1>5, <1>6, <1>7, <1>8, <1>9 DEF Finish

LEMMA StepRefines == Inv /\ [Next]_vars => [Contract!Next]_Contract!vars
<1> SUFFICES ASSUME Inv, [Next]_vars PROVE [Contract!Next]_Contract!vars
  OBVIOUS
<1>1. CASE UNCHANGED vars
  BY <1>1 DEF vars, Contract!vars
<1>2. CASE Next
  BY <1>2, ResolveRefines, TimerRefines, CreateRefines, TransitionRefines DEF Next
<1>3. QED
  BY <1>1, <1>2

(* The queue keeps every promise of TaskContract.                          *)
THEOREM QueueImplementsContract == Spec => ImplementsContract
<1>1. Init => Contract!Init
  <2>1. ASSUME Init, NEW t \in Task
        PROVE  /\ PhaseOf(q[t].status) = "absent" /\ q[t].depends_on = {}
               /\ q[t].idempotency_key = NoKey /\ q[t].requires_approval = FALSE
    <3>1. q[t] = NoTask
      BY <2>1 DEF Init, EmptyQueue
    <3>2. /\ NoTask.status = "ABSENT" /\ NoTask.depends_on = {}
          /\ NoTask.idempotency_key = NoKey /\ NoTask.requires_approval = FALSE
      BY DEF NoTask
    <3>3. PhaseOf("ABSENT") = "absent"
      BY DEF PhaseOf, Dead
    <3>4. QED
      BY <3>1, <3>2, <3>3
  <2>2. QED
    BY <2>1 DEF Contract!Init
<1>2. QED
  BY <1>1, StepRefines, Safety, PTL DEF Spec, ImplementsContract, Contract!Spec
=============================================================================
