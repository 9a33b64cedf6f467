--------------------------- MODULE ExecutionProofs ---------------------------
(***************************************************************************)
(* Theorems about module Execution, for every set of workers and humans,   *)
(* every set of tasks and keys and every value of the timing constants:    *)
(* however the processes overwrite each other's files, every version of    *)
(* the queue is sound and no unreleased DEPLOY of the chain is executed.   *)
(* Where the commands and the ticks do not overlap, ABANDONED is final and *)
(* quiet, and a chain whose DEPLOY has SUCCEEDED is LIVE.                  *)
(***************************************************************************)
EXTENDS Execution, FiniteSetTheorems, TLAPS

(***************************************************************************)
(* Part 1.  The operations on a queue, one after the other: each maps      *)
(* queues to queues, and changes every task in a way described once, by    *)
(* Evolves, whichever version of the queue it is applied to.               *)
(***************************************************************************)
Eligible == {"READY", "RUNNING", "FAILED_RETRYABLE", "SUCCEEDED"}

\* What an operation may do to one task: from record a to record b.
TaskEvolves(a, b, promotable, opened) ==
    /\ b.depends_on = a.depends_on
    /\ b.idempotency_key = a.idempotency_key
    /\ a.status = "SUCCEEDED" => b.status = "SUCCEEDED"
    /\ a.status = "ABSENT" <=> b.status = "ABSENT"
    /\ b.status \in Live => a.status \in Live
    /\ b.status = "SUCCEEDED" => a.status \in Live \cup {"SUCCEEDED"}
    /\ b.status \in Eligible =>
          \/ a.status \in Eligible /\ b.requires_approval = a.requires_approval
          \/ promotable /\ ~b.requires_approval
    /\ a.requires_approval => b.requires_approval \/ opened

\* An operation from queue p to queue r that opens the gates in opened.
Evolves(p, r, opened) ==
    \A t \in Task : TaskEvolves(p[t], r[t], t \in Promotable(p), t \in opened)

LEMMA RecordOfTask == ASSUME NEW p \in Queue, NEW t \in Task PROVE p[t] \in TaskRecord
BY DEF Queue

LEMMA EmptyQueueType == EmptyQueue \in Queue
BY TaskConstants DEF EmptyQueue, Queue, NoTask, TaskRecord, AttemptCount, Status, Live, Terminal

LEMMA ResolveEvolves ==
  ASSUME NEW p \in Queue
  PROVE  ResolveDependencies(p) \in Queue /\ Evolves(p, ResolveDependencies(p), {})
<1> DEFINE r == ResolveDependencies(p)
<1>1. ASSUME NEW t \in Task
      PROVE  r[t] \in TaskRecord /\ TaskEvolves(p[t], r[t], t \in Promotable(p), t \in {})
  <2>1. p[t] \in TaskRecord
    BY RecordOfTask
  <2>2. r[t] = [p[t] EXCEPT !.status = IF t \in Gated(p) THEN "BLOCKED_APPROVAL"
                                       ELSE IF t \in Doomed(p) THEN "FAILED_FINAL"
                                       ELSE IF t \in Promotable(p) THEN "READY"
                                       ELSE p[t].status]
    BY DEF ResolveDependencies
  <2>3. \/ t \in Gated(p) /\ r[t].status = "BLOCKED_APPROVAL" /\ p[t].status = "PENDING"
        \/ r[t].status = "FAILED_FINAL" /\ p[t].status = "PENDING"
        \/ /\ t \in Promotable(p) /\ r[t].status = "READY" /\ p[t].status = "PENDING"
           /\ ~p[t].requires_approval
        \/ r[t].status = p[t].status
    BY <2>1, <2>2 DEF Gated, Doomed, Promotable, Unresolved, TaskRecord
  <2>4. r[t] \in TaskRecord
    BY <2>1, <2>2 DEF TaskRecord, Status, Live, Terminal
  <2>5. /\ r[t].depends_on = p[t].depends_on
        /\ r[t].idempotency_key = p[t].idempotency_key
        /\ r[t].requires_approval = p[t].requires_approval
    BY <2>1, <2>2 DEF TaskRecord
  <2> HIDE DEF r
  <2>6. QED
    BY <2>3, <2>4, <2>5 DEF TaskEvolves, Eligible, Live
<1>2. r = [t \in Task |-> r[t]]
  BY DEF ResolveDependencies
<1> HIDE DEF r
<1>3. QED
  BY <1>1, <1>2 DEF Queue, Evolves, r

LEMMA RequeueEvolves ==
  ASSUME NEW p \in Queue
  PROVE  RequeueDue(p) \in Queue /\ Evolves(p, RequeueDue(p), {})
<1>1. ASSUME NEW t \in Task PROVE p[t] \in TaskRecord
  BY RecordOfTask
<1>2. RequeueDue(p) \in Queue
  BY <1>1 DEF RequeueDue, Queue, TaskRecord, Status, Live, Terminal
<1>3. ASSUME NEW t \in Task
      PROVE  TaskEvolves(p[t], RequeueDue(p)[t], t \in Promotable(p), t \in {})
  BY <1>1 DEF RequeueDue, RetryDue, TaskEvolves, Eligible, TaskRecord, Live
<1>4. QED
  BY <1>2, <1>3 DEF Evolves

LEMMA ReclaimEvolves ==
  ASSUME NEW p \in Queue
  PROVE  ReclaimStale(p) \in Queue /\ Evolves(p, ReclaimStale(p), {})
<1>1. ASSUME NEW t \in Task PROVE p[t] \in TaskRecord
  BY RecordOfTask
<1>2. ReclaimStale(p) \in Queue
  BY <1>1 DEF ReclaimStale, Queue, TaskRecord, Status, Live, Terminal
<1>3. ASSUME NEW t \in Task
      PROVE  TaskEvolves(p[t], ReclaimStale(p)[t], t \in Promotable(p), t \in {})
  BY <1>1 DEF ReclaimStale, Stale, TaskEvolves, Eligible, TaskRecord, Live
<1>4. QED
  BY <1>2, <1>3 DEF Evolves

LEMMA CancelEvolves ==
  ASSUME NEW p \in Queue
  PROVE  /\ CancelAll(p) \in Queue /\ Evolves(p, CancelAll(p), {})
         /\ \A t \in Task : CancelAll(p)[t].status \notin Live
<1>1. ASSUME NEW t \in Task PROVE p[t] \in TaskRecord
  BY RecordOfTask
<1>2. CancelAll(p) \in Queue
  BY <1>1 DEF CancelAll, Queue, TaskRecord, Status, Live, Terminal
<1>3. ASSUME NEW t \in Task
      PROVE  /\ TaskEvolves(p[t], CancelAll(p)[t], t \in Promotable(p), t \in {})
             /\ CancelAll(p)[t].status \notin Live
  BY <1>1 DEF CancelAll, TaskEvolves, Eligible, TaskRecord, Live
<1>4. QED
  BY <1>2, <1>3 DEF Evolves

LEMMA ElapseEvolves ==
  ASSUME NEW p \in Queue
  PROVE  /\ Elapse(p) \in Queue /\ Evolves(p, Elapse(p), {})
         /\ \A t \in Task : Elapse(p)[t].status = p[t].status
<1>1. ASSUME NEW t \in Task PROVE p[t] \in TaskRecord
  BY RecordOfTask
<1>2. \A n \in Nat : \A i \in 0..n : Before(i) \in 0..n
  BY DEF Before
<1>3. ASSUME NEW t \in Task
      PROVE  Elapse(p)[t] = [p[t] EXCEPT !.lease_until = Before(p[t].lease_until),
                                         !.next_retry_at = Before(p[t].next_retry_at),
                                         !.not_before = Before(p[t].not_before)]
  BY DEF Elapse
<1>4. ASSUME NEW t \in Task PROVE Elapse(p)[t] \in TaskRecord
  BY <1>1, <1>2, TaskConstants DEF Elapse, TaskRecord
<1>5. ASSUME NEW t \in Task
      PROVE  /\ TaskEvolves(p[t], Elapse(p)[t], t \in Promotable(p), t \in {})
             /\ Elapse(p)[t].status = p[t].status
  BY <1>1, <1>3 DEF TaskEvolves, Eligible, TaskRecord, Live
<1>6. Elapse(p) \in Queue
  BY <1>4 DEF Elapse, Queue
<1>7. QED
  BY <1>5, <1>6 DEF Evolves

\* Operations that replace the record of one task.
LEMMA PutEvolves ==
  ASSUME NEW p \in Queue, NEW t \in Task, NEW b \in TaskRecord, NEW opened,
         TaskEvolves(p[t], b, t \in Promotable(p), t \in opened)
  PROVE  /\ [p EXCEPT ![t] = b] \in Queue
         /\ Evolves(p, [p EXCEPT ![t] = b], opened)
         /\ [p EXCEPT ![t] = b][t] = b
<1> DEFINE r == [p EXCEPT ![t] = b]
<1>1. r \in Queue /\ r[t] = b /\ \A u \in Task \ {t} : r[u] = p[u]
  BY DEF Queue
<1> HIDE DEF r
<1>2. ASSUME NEW u \in Task
      PROVE  TaskEvolves(p[u], r[u], u \in Promotable(p), u \in opened)
  <2>1. CASE u = t
    BY <1>1, <2>1
  <2>2. CASE u # t
    <3>1. r[u] = p[u]
      BY <1>1, <2>2
    <3>2. p[u] \in TaskRecord
      BY RecordOfTask
    <3>3. QED
      BY <3>1, <3>2 DEF TaskEvolves, Live, Eligible, TaskRecord
  <2>3. QED
    BY <2>1, <2>2
<1>3. QED
  BY <1>1, <1>2 DEF Evolves, r

LEMMA ClaimEvolves ==
  ASSUME NEW p \in Queue, NEW t \in Task, p[t].status = "READY"
  PROVE  /\ Claim(p, t) \in Queue /\ Evolves(p, Claim(p, t), {})
         /\ Claim(p, t)[t].status = "RUNNING"
<1> DEFINE b == [p[t] EXCEPT !.status = "RUNNING", !.lease_until = LeaseTime,
                             !.attempt_count = CountUp(p[t].attempt_count)]
<1>1. p[t] \in TaskRecord
  BY RecordOfTask
<1>2. CountUp(p[t].attempt_count) \in AttemptCount /\ LeaseTime \in 0..LeaseTime
  BY <1>1, TaskConstants DEF CountUp, TaskRecord, AttemptCount
<1>3. b \in TaskRecord
  BY <1>1, <1>2 DEF TaskRecord, Status, Live, Terminal
<1>4. TaskEvolves(p[t], b, t \in Promotable(p), t \in {}) /\ b.status = "RUNNING"
  BY <1>1 DEF TaskEvolves, Eligible, TaskRecord, Live
<1>5. Claim(p, t) = [p EXCEPT ![t] = b]
  BY DEF Claim
<1> HIDE DEF b
<1>6. /\ [p EXCEPT ![t] = b] \in Queue /\ Evolves(p, [p EXCEPT ![t] = b], {})
      /\ [p EXCEPT ![t] = b][t] = b
  BY <1>3, <1>4, PutEvolves
<1>7. QED
  BY <1>4, <1>5, <1>6

LEMMA SucceedEvolves ==
  ASSUME NEW p \in Queue, NEW t \in Task, p[t].status = "RUNNING"
  PROVE  MarkSucceeded(p, t) \in Queue /\ Evolves(p, MarkSucceeded(p, t), {})
<1> DEFINE b == [p[t] EXCEPT !.status = "SUCCEEDED", !.lease_until = 0]
<1>1. p[t] \in TaskRecord
  BY RecordOfTask
<1>a. 0 \in 0..LeaseTime
  BY TaskConstants
<1>2. b \in TaskRecord
  BY <1>1, <1>a DEF TaskRecord, Status, Live, Terminal
<1>3. TaskEvolves(p[t], b, t \in Promotable(p), t \in {})
  BY <1>1 DEF TaskEvolves, Eligible, TaskRecord, Live
<1> HIDE DEF b
<1>4. QED
  BY <1>2, <1>3, PutEvolves DEF MarkSucceeded, b

LEMMA BackoffType == \A n : Backoff(n) \in 0..RetryCap
BY TaskConstants DEF Backoff

LEMMA FailEvolves ==
  ASSUME NEW p \in Queue, NEW t \in Task, NEW retryable \in BOOLEAN, p[t].status = "RUNNING"
  PROVE  /\ MarkFailed(p, t, retryable) \in Queue
         /\ Evolves(p, MarkFailed(p, t, retryable), {})
<1> DEFINE b == [p[t] EXCEPT !.status = "FAILED_RETRYABLE", !.lease_until = 0,
                             !.next_retry_at = Backoff(p[t].attempt_count)]
           c == [p[t] EXCEPT !.status = "FAILED_FINAL", !.lease_until = 0]
<1>1. p[t] \in TaskRecord
  BY RecordOfTask
<1>a. 0 \in 0..LeaseTime
  BY TaskConstants
<1>2. b \in TaskRecord /\ c \in TaskRecord
  BY <1>1, <1>a, BackoffType DEF TaskRecord, Status, Live, Terminal
<1>3. /\ TaskEvolves(p[t], b, t \in Promotable(p), t \in {})
      /\ TaskEvolves(p[t], c, t \in Promotable(p), t \in {})
  BY <1>1 DEF TaskEvolves, Eligible, TaskRecord, Live
<1>4. MarkFailed(p, t, retryable) \in {[p EXCEPT ![t] = b], [p EXCEPT ![t] = c]}
  BY DEF MarkFailed
<1> HIDE DEF b, c
<1>5. QED
  BY <1>2, <1>3, <1>4, PutEvolves

LEMMA BlockEvolves ==
  ASSUME NEW p \in Queue, NEW t \in Task, p[t].status \in {"READY", "RUNNING"}
  PROVE  BlockForApproval(p, t) \in Queue /\ Evolves(p, BlockForApproval(p, t), {})
<1> DEFINE b == [p[t] EXCEPT !.status = "BLOCKED_APPROVAL", !.requires_approval = TRUE]
<1>1. p[t] \in TaskRecord
  BY RecordOfTask
<1>2. b \in TaskRecord
  BY <1>1 DEF TaskRecord, Status, Live, Terminal
<1>3. TaskEvolves(p[t], b, t \in Promotable(p), t \in {})
  BY <1>1 DEF TaskEvolves, Eligible, TaskRecord, Live
<1> HIDE DEF b
<1>4. QED
  BY <1>2, <1>3, PutEvolves DEF BlockForApproval, b

LEMMA UnblockEvolves ==
  ASSUME NEW p \in Queue, NEW t \in Task, p[t].status = "BLOCKED_APPROVAL"
  PROVE  Unblock(p, t) \in Queue /\ Evolves(p, Unblock(p, t), {t})
<1> DEFINE b == [p[t] EXCEPT !.status = "PENDING", !.requires_approval = FALSE,
                             !.approval_granted = TRUE]
<1>1. p[t] \in TaskRecord
  BY RecordOfTask
<1>2. b \in TaskRecord
  BY <1>1 DEF TaskRecord, Status, Live, Terminal
<1>3. TaskEvolves(p[t], b, t \in Promotable(p), t \in {t})
  BY <1>1 DEF TaskEvolves, Eligible, TaskRecord, Live
<1> HIDE DEF b
<1>4. QED
  BY <1>2, <1>3, PutEvolves DEF Unblock, b

-----------------------------------------------------------------------------
(***************************************************************************)
(* Part 2.  What every version of the queue keeps, on disk and in memory:  *)
(* order, keys, gates; no task beyond the ids given out; and DEPLOY tasks  *)
(* only behind a closed gate or a release.                                 *)
(***************************************************************************)
Ordered(p) == \A t \in Task : p[t].status \in Eligible => DepsSucceeded(p, t)

Unique(p) ==
    \A t, u \in Task :
        /\ p[t].idempotency_key = p[u].idempotency_key
        /\ p[t].idempotency_key # NoKey
        /\ p[t].status \in Live \cup {"SUCCEEDED"}
        /\ p[u].status \in Live \cup {"SUCCEEDED"}
        => t = u

GatesShut(p) == \A t \in Task : p[t].requires_approval => p[t].status \notin Eligible

Given(p, last) == \A t \in Task : t > last => p[t].status = "ABSENT"

DeployGated(p, opened) ==
    \A t \in Task :
        p[t].status # "ABSENT" /\ p[t].idempotency_key = "DEPLOY" =>
            p[t].requires_approval \/ t \in opened

Sound(p, last, opened) ==
    Ordered(p) /\ Unique(p) /\ GatesShut(p) /\ Given(p, last) /\ DeployGated(p, opened)

\* No task of the chain is left to run.
Quiet(p) == \A t \in Task : p[t].status \in Live => p[t].idempotency_key \in Enqueued

LEMMA EvolvesSound ==
  ASSUME NEW p \in Queue, NEW r \in Queue, NEW last, NEW opened, NEW more,
         Evolves(p, r, more), Sound(p, last, opened)
  PROVE  Sound(r, last, opened \cup more)
<1>1. ASSUME NEW t \in Task
      PROVE  /\ p[t] \in TaskRecord
             /\ TaskEvolves(p[t], r[t], t \in Promotable(p), t \in more)
  BY RecordOfTask DEF Evolves
<1>2. Ordered(r)
  <2> SUFFICES ASSUME NEW t \in Task, r[t].status \in Eligible
               PROVE  DepsSucceeded(r, t)
    BY DEF Ordered
  <2>1. DepsSucceeded(p, t) /\ r[t].depends_on = p[t].depends_on
    BY <1>1 DEF TaskEvolves, Sound, Ordered, Promotable
  <2>2. p[t].depends_on \subseteq Task
    BY <1>1 DEF TaskRecord
  <2>3. \A d \in p[t].depends_on : r[d].status = "SUCCEEDED"
    BY <1>1, <2>1, <2>2 DEF DepsSucceeded, TaskEvolves
  <2>4. QED
    BY <2>1, <2>3 DEF DepsSucceeded
<1>3. Unique(r)
  BY <1>1 DEF TaskEvolves, Sound, Unique
<1>4. GatesShut(r)
  BY <1>1 DEF TaskEvolves, Sound, GatesShut
<1>5. Given(r, last)
  BY <1>1 DEF TaskEvolves, Sound, Given
<1>6. DeployGated(r, opened \cup more)
  BY <1>1 DEF TaskEvolves, Sound, DeployGated
<1>7. QED
  BY <1>2, <1>3, <1>4, <1>5, <1>6 DEF Sound

LEMMA EvolvesQuiet ==
  ASSUME NEW p, NEW r, NEW more, Evolves(p, r, more), Quiet(p)
  PROVE  Quiet(r)
BY DEF Evolves, TaskEvolves, Quiet

\* What holds of a version goes on holding as ids and releases are given out.
LEMMA SoundLater ==
  ASSUME NEW p, NEW last \in Nat, NEW later \in Nat, NEW opened, NEW more,
         Sound(p, last, opened), last <= later, opened \subseteq more
  PROVE  Sound(p, later, more)
<1>1. Given(p, later)
  BY DEF Sound, Given, Task
<1>2. DeployGated(p, more)
  BY DEF Sound, DeployGated
<1>3. QED
  BY <1>1, <1>2 DEF Sound

LEMMA EmptySound == \A last, opened : Sound(EmptyQueue, last, opened) /\ Quiet(EmptyQueue)
<1>1. \A t \in Task : EmptyQueue[t].status = "ABSENT" /\ ~EmptyQueue[t].requires_approval
  BY DEF EmptyQueue, NoTask
<1>2. QED
  BY <1>1 DEF Sound, Ordered, Unique, GatesShut, Given, DeployGated, Quiet, Eligible, Live

\* An operation that opens no gate.
LEMMA EvolvesSame ==
  ASSUME NEW p \in Queue, NEW r \in Queue, NEW last, NEW opened,
         Evolves(p, r, {}), Sound(p, last, opened)
  PROVE  Sound(r, last, opened)
<1>1. Sound(r, last, opened \cup {})
  BY EvolvesSound
<1>2. opened \cup {} = opened
  OBVIOUS
<1>3. QED
  BY <1>1, <1>2

LEMMA ResolveSound ==
  ASSUME NEW p \in Queue, NEW last, NEW opened, Sound(p, last, opened)
  PROVE  /\ ResolveDependencies(p) \in Queue
         /\ Sound(ResolveDependencies(p), last, opened)
         /\ Quiet(p) => Quiet(ResolveDependencies(p))
BY ResolveEvolves, EvolvesSame, EvolvesQuiet

\* The three passes at the start of a tick.
LEMMA HousekeptSound ==
  ASSUME NEW p \in Queue, NEW last, NEW opened, Sound(p, last, opened)
  PROVE  /\ Housekept(p) \in Queue
         /\ Sound(Housekept(p), last, opened)
         /\ Quiet(p) => Quiet(Housekept(p))
<1> DEFINE p1 == ReclaimStale(p)
           p2 == RequeueDue(p1)
<1>1. p1 \in Queue /\ Sound(p1, last, opened) /\ (Quiet(p) => Quiet(p1))
  BY ReclaimEvolves, EvolvesSame, EvolvesQuiet
<1> HIDE DEF p1
<1>2. p2 \in Queue /\ Sound(p2, last, opened) /\ (Quiet(p1) => Quiet(p2))
  BY <1>1, RequeueEvolves, EvolvesSame, EvolvesQuiet
<1>3. Housekept(p) = ResolveDependencies(p2)
  BY DEF Housekept, p1
<1> HIDE DEF p2
<1>4. QED
  BY <1>1, <1>2, <1>3, ResolveSound

\* What a task that is executed looks like in a sound version.
LEMMA RunningIsReleased ==
  ASSUME NEW p, NEW last, NEW opened, NEW t \in Task, Sound(p, last, opened),
         p[t].status = "RUNNING", p[t].idempotency_key = "DEPLOY"
  PROVE  t \in opened
BY DEF Sound, GatesShut, DeployGated, Eligible

\* create, at the next id: a task that is new to every version.
LEMMA CreateSound ==
  ASSUME NEW p \in Queue, NEW last \in Nat, NEW opened, Sound(p, last, opened),
         last + 1 <= MaxTasks, NEW key \in Key, NEW needs, NEW approval \in BOOLEAN,
         key = "DEPLOY" => approval
  PROVE  /\ CreateTask(p, last + 1, key, needs, approval) \in Queue
         /\ Sound(CreateTask(p, last + 1, key, needs, approval), last + 1, opened)
         /\ Quiet(p) /\ key \in Enqueued =>
               Quiet(CreateTask(p, last + 1, key, needs, approval))
         /\ SameKey(p, key) = {} =>
               \A k \in Key : (SameKey(CreateTask(p, last + 1, key, needs, approval), k) = {})
                                 <=> (SameKey(p, k) = {} /\ k # key)
<1> DEFINE t == last + 1
           deps == UNION {SameKey(p, d) : d \in needs}
           task == NewTask(key, deps, 5, approval, 0)
           r == CreateTask(p, t, key, needs, approval)
<1>1. t \in Task /\ key # NoKey
  BY TaskConstants DEF Task
<1>2. deps \subseteq Task
  BY DEF SameKey, ByStatus
<1>3. /\ task.status = "PENDING" /\ task.idempotency_key = key
      /\ task.requires_approval = approval
  BY DEF NewTask, NoTask
<1>4. task \in TaskRecord
  <2>1. NoTask \in TaskRecord
    BY TaskConstants DEF NoTask, TaskRecord, AttemptCount, Status, Live, Terminal
  <2>2. 0 \in 0..MaxDelay /\ 5 \in Nat
    BY TaskConstants
  <2> HIDE DEF deps
  <2>3. QED
    BY <1>2, <2>1, <2>2 DEF NewTask, TaskRecord, Status, Live, Terminal
<1>5. r = IF SameKey(p, task.idempotency_key) # {} THEN p ELSE [p EXCEPT ![t] = task]
  BY DEF CreateTask, Add
<1> HIDE DEF deps, task, r
<1>6. CASE SameKey(p, key) # {}
  <2>1. r = p
    BY <1>3, <1>5, <1>6
  <2>2. Sound(p, t, opened)
    BY SoundLater
  <2>3. QED
    BY <1>6, <2>1, <2>2 DEF r
<1>7. CASE SameKey(p, key) = {}
  <2>1. r = [p EXCEPT ![t] = task]
    BY <1>3, <1>5, <1>7
  <2>2. r \in Queue /\ r[t] = task /\ \A u \in Task \ {t} : r[u] = p[u]
    BY <1>1, <1>4, <2>1 DEF Queue
  <2>3. p[t].status = "ABSENT"
    BY <1>1 DEF Sound, Given
  <2>4. ASSUME NEW u \in Task, p[u].idempotency_key = key
        PROVE  p[u].status \notin Live \cup {"SUCCEEDED"}
    BY <1>1, <1>7, <2>4 DEF SameKey, ByStatus
  <2>5. Ordered(r)
    <3> SUFFICES ASSUME NEW u \in Task, r[u].status \in Eligible
                 PROVE  DepsSucceeded(r, u)
      BY DEF Ordered
    <3>1. u # t /\ r[u] = p[u]
      BY <1>3, <2>2 DEF Eligible
    <3>2. DepsSucceeded(p, u)
      BY <3>1 DEF Sound, Ordered
    <3>3. p[u].depends_on \subseteq Task \ {t}
      BY <2>3, <3>2, RecordOfTask DEF DepsSucceeded, TaskRecord
    <3>4. QED
      BY <2>2, <3>1, <3>2, <3>3 DEF DepsSucceeded
  <2>6. Unique(r)
    BY <1>3, <2>2, <2>4 DEF Sound, Unique
  <2>7. GatesShut(r)
    BY <1>3, <2>2 DEF Sound, GatesShut, Eligible
  <2>8. Given(r, t)
    BY <1>1, <2>2 DEF Sound, Given, Task
  <2>9. DeployGated(r, opened)
    BY <1>3, <2>2 DEF Sound, DeployGated
  <2>10. Quiet(p) /\ key \in Enqueued => Quiet(r)
    BY <1>3, <2>2 DEF Quiet
  <2>11. ASSUME NEW k \in Key
         PROVE  SameKey(r, k) = {} <=> SameKey(p, k) = {} /\ k # key
    <3>1. CASE k = key
      <4>1. t \in SameKey(r, k)
        BY <1>1, <1>3, <2>2, <3>1 DEF SameKey, ByStatus, Live
      <4>2. QED
        BY <3>1, <4>1
    <3>2. CASE k # key
      <4>1. t \notin SameKey(r, k) /\ t \notin SameKey(p, k)
        BY <1>1, <1>3, <2>2, <2>3, <3>2 DEF SameKey, ByStatus, Live
      <4>2. SameKey(r, k) = SameKey(p, k)
        BY <2>2, <4>1 DEF SameKey, ByStatus
      <4>3. QED
        BY <3>2, <4>2
    <3>3. QED
      BY <3>1, <3>2
  <2>12. QED
    BY <2>2, <2>5, <2>6, <2>7, <2>8, <2>9, <2>10, <2>11 DEF Sound, r
<1>8. QED
  BY <1>6, <1>7

(***************************************************************************)
(* accept's loop along the chain.  Its guard counts the tasks that are     *)
(* missing before the loop starts, so every round finds an id to give.     *)
(***************************************************************************)
ChainKeys == Key \cap ChainTypes

LEMMA ChainTypesFinite == IsFiniteSet(ChainTypes)
<1> DEFINE A == {"PLAN"} B == A \cup {"BUILD_PRODUCT"} C == B \cup {"BUILD_PAGE"}
           D == C \cup {"VALIDATE_PRODUCT"} E == D \cup {"VALIDATE_PAGE"} F == E \cup {"DEPLOY"}
<1>1. IsFiniteSet({})
  BY FS_EmptySet
<1>2. {} \cup {"PLAN"} = A
  OBVIOUS
<1>3. IsFiniteSet(A)
  BY <1>1, <1>2, FS_AddElement
<1> HIDE DEF A
<1>4. IsFiniteSet(B)
  BY <1>3, FS_AddElement
<1> HIDE DEF B
<1>5. IsFiniteSet(C)
  BY <1>4, FS_AddElement
<1> HIDE DEF C
<1>6. IsFiniteSet(D)
  BY <1>5, FS_AddElement
<1> HIDE DEF D
<1>7. IsFiniteSet(E)
  BY <1>6, FS_AddElement
<1> HIDE DEF E
<1>8. IsFiniteSet(F)
  BY <1>7, FS_AddElement
<1>9. ChainTypes = F
  BY DEF ChainTypes, Needs, A, B, C, D, E
<1> HIDE DEF F
<1>10. QED
  BY <1>8, <1>9

LEMMA MissingFinite ==
  \A p : /\ IsFiniteSet(Missing(p, ChainKeys)) /\ Missing(p, ChainKeys) \subseteq ChainTypes
         /\ Cardinality(Missing(p, ChainKeys)) \in Nat
<1> TAKE p
<1>1. Missing(p, ChainKeys) \subseteq ChainTypes
  BY DEF Missing, ChainKeys
<1>2. IsFiniteSet(Missing(p, ChainKeys))
  BY <1>1, ChainTypesFinite, FS_Subset
<1>3. QED
  BY <1>1, <1>2, FS_CardinalityType

\* A sound queue and last id with room for what the chain still misses.
Roomy(s, opened) ==
    /\ s.queue \in Queue /\ s.last \in Nat /\ Sound(s.queue, s.last, opened)
    /\ s.last + Cardinality(Missing(s.queue, ChainKeys)) <= MaxTasks

LEMMA ExtendRoomy ==
  ASSUME NEW s, NEW opened, NEW type \in ChainTypes, Roomy(s, opened)
  PROVE  Roomy(Extend(s, type), opened) /\ Extend(s, type).last >= s.last
<1>1. CASE type \notin Missing(s.queue, Key)
  BY <1>1 DEF Extend, Roomy
<1>2. CASE type \in Missing(s.queue, Key)
  <2> DEFINE M == Missing(s.queue, ChainKeys)
             approval == (type = "DEPLOY")
             r == CreateTask(s.queue, s.last + 1, type, Needs[type] \cap Key, approval)
  <2>1. type \in Key /\ SameKey(s.queue, type) = {} /\ type \in M
    BY <1>2 DEF Missing, ChainKeys
  <2>2. Extend(s, type) = [queue |-> r, last |-> s.last + 1]
    BY <1>2 DEF Extend
  <2>3. /\ IsFiniteSet(M) /\ Cardinality(M) \in Nat
        /\ IsFiniteSet(M \ {type}) /\ Cardinality(M \ {type}) = Cardinality(M) - 1
    BY <2>1, MissingFinite, FS_RemoveElement
  <2>4. Cardinality(M \ {type}) \in Nat
    BY <2>3, FS_CardinalityType
  <2>5. s.last + 1 <= MaxTasks /\ s.last + 1 + Cardinality(M \ {type}) <= MaxTasks
    BY <2>3, <2>4, TaskConstants DEF Roomy
  <2>6. /\ r \in Queue /\ Sound(r, s.last + 1, opened)
        /\ \A k \in Key : SameKey(r, k) = {} <=> SameKey(s.queue, k) = {} /\ k # type
    <3>1. approval \in BOOLEAN /\ (type = "DEPLOY" => approval)
      OBVIOUS
    <3> HIDE DEF approval
    <3>2. QED
      BY <2>1, <2>5, <3>1, CreateSound DEF Roomy
  <2>7. Missing(r, ChainKeys) = M \ {type}
    BY <2>6 DEF Missing, ChainKeys
  <2>8. Extend(s, type).queue = r /\ Extend(s, type).last = s.last + 1
    BY <2>2
  <2>9. s.last \in Nat /\ s.last + 1 \in Nat /\ s.last + 1 >= s.last
    BY DEF Roomy
  <2> HIDE DEF M, r
  <2>10. QED
    BY <2>5, <2>6, <2>7, <2>8, <2>9 DEF Roomy
<1>3. QED
  BY <1>1, <1>2

LEMMA ExtendedSound ==
  ASSUME NEW p \in Queue, NEW last \in Nat, NEW opened, Sound(p, last, opened),
         last + Cardinality(Missing(p, ChainKeys)) <= MaxTasks
  PROVE  /\ Extended(p, last).queue \in Queue
         /\ Extended(p, last).last \in last..MaxTasks
         /\ Sound(Extended(p, last).queue, Extended(p, last).last, opened)
<1> DEFINE s0 == [queue |-> p, last |-> last]
           s1 == Extend(s0, Chain[1])
           s2 == Extend(s1, Chain[2])
           s3 == Extend(s2, Chain[3])
           s4 == Extend(s3, Chain[4])
           s5 == Extend(s4, Chain[5])
           s6 == Extend(s5, Chain[6])
<1>1. Extended(p, last) = s6
  BY DEF Extended
<1>2. \A i \in 1..6 : Chain[i] \in ChainTypes
  BY DEF Chain, ChainTypes, Needs
<1>3. Roomy(s0, opened) /\ s0.last = last
  BY DEF Roomy
<1> HIDE DEF s0
<1>4. Roomy(s1, opened) /\ s1.last >= s0.last
  BY <1>2, <1>3, ExtendRoomy
<1> HIDE DEF s1
<1>5. Roomy(s2, opened) /\ s2.last >= s1.last
  BY <1>2, <1>4, ExtendRoomy
<1> HIDE DEF s2
<1>6. Roomy(s3, opened) /\ s3.last >= s2.last
  BY <1>2, <1>5, ExtendRoomy
<1> HIDE DEF s3
<1>7. Roomy(s4, opened) /\ s4.last >= s3.last
  BY <1>2, <1>6, ExtendRoomy
<1> HIDE DEF s4
<1>8. Roomy(s5, opened) /\ s5.last >= s4.last
  BY <1>2, <1>7, ExtendRoomy
<1> HIDE DEF s5
<1>9. Roomy(s6, opened) /\ s6.last >= s5.last
  BY <1>2, <1>8, ExtendRoomy
<1> HIDE DEF s6
<1>10. s6.last <= MaxTasks
  <2>1. Cardinality(Missing(s6.queue, ChainKeys)) \in Nat
    BY MissingFinite
  <2>2. QED
    BY <1>9, <2>1, TaskConstants DEF Roomy
<1>11. s6.last \in last..MaxTasks
  BY <1>3, <1>4, <1>5, <1>6, <1>7, <1>8, <1>9, <1>10, TaskConstants DEF Roomy
<1>12. QED
  BY <1>1, <1>9, <1>11 DEF Roomy

-----------------------------------------------------------------------------
(***************************************************************************)
(* Part 3.  The inductive invariant: every version of the queue is sound   *)
(* for the ids given out and the releases made so far, and what a worker   *)
(* executes is RUNNING in its own copy.                                    *)
(***************************************************************************)
WorkerPc == {"idle", "loaded", "claimed", "started", "ran", "recorded"}
HumanPc == {"idle", "accepting", "abandoning"}

ProcessesInPlace ==
    /\ \A w \in Worker : pc[w] \in WorkerPc
    /\ \A h \in Human : pc[h] \in HumanPc

VersionsSound ==
    /\ Sound(tasks, lastId, released)
    /\ \A w \in Worker : Sound(wq[w], lastId, released)

ExecutingRuns ==
    \A w \in Worker :
        Executing(w) => wtask[w] \in Task /\ wq[w][wtask[w]].status = "RUNNING"

IInv == TypeOK /\ ProcessesInPlace /\ VersionsSound /\ ExecutingRuns

LEMMA InitIInv == Init => IInv
<1> SUFFICES ASSUME Init PROVE IInv
  OBVIOUS
<1>1. TypeOK
  <2>1. opp \in OppRecord
    <3>1. {"DISCOVERED", "SCORED"} \subseteq OppState
      BY DEF OppState, Forward
    <3>2. QED
      BY <3>1 DEF Init, OppRecord
  <2>2. NoRecord \in OppRecord
    BY DEF NoRecord, OppRecord, OppState, Forward
  <2>3. QED
    BY <2>1, <2>2, EmptyQueueType, TaskConstants DEF Init, TypeOK, Outcome
<1>2. VersionsSound
  BY EmptySound DEF Init, VersionsSound
<1>3. ProcessesInPlace /\ ExecutingRuns
  BY DEF Init, ProcessesInPlace, ExecutingRuns, Executing, Process, WorkerPc, HumanPc
<1>4. QED
  BY <1>1, <1>2, <1>3 DEF IInv

\* A step of worker w that leaves the other processes' copies alone.
LEMMA WorkerFrame ==
  ASSUME IInv, NEW w \in Worker, NEW c \in WorkerPc, NEW x \in Queue, NEW k \in Task \cup {NoneTask},
         NEW result \in Outcome,
         pc' = [pc EXCEPT ![w] = c],
         wq' = [wq EXCEPT ![w] = x], Sound(x, lastId, released),
         wtask' = [wtask EXCEPT ![w] = k],
         outcome' = [outcome EXCEPT ![w] = result],
         c \in {"claimed", "started", "ran"} => k \in Task /\ x[k].status = "RUNNING",
         tasks' \in Queue, Sound(tasks', lastId, released),
         opp' \in OppRecord,
         UNCHANGED <<hopp, lastId, released>>
  PROVE  IInv'
<1>1. w \in Process /\ w \notin Human /\ Worker \subseteq Process
  BY ExecutionConstants DEF Process
<1>2. TypeOK'
  BY <1>1 DEF IInv, TypeOK, WorkerPc
<1>3. ProcessesInPlace'
  BY <1>1 DEF IInv, TypeOK, ProcessesInPlace, Process
<1>4. VersionsSound'
  BY DEF IInv, TypeOK, VersionsSound
<1>5. ExecutingRuns'
  BY <1>1 DEF IInv, TypeOK, ExecutingRuns, Executing
<1>6. QED
  BY <1>2, <1>3, <1>4, <1>5 DEF IInv

\* A step of human h that leaves the workers alone.
LEMMA HumanFrame ==
  ASSUME IInv, NEW h \in Human, NEW c \in HumanPc, NEW record \in OppRecord,
         pc' = [pc EXCEPT ![h] = c],
         hopp' = [hopp EXCEPT ![h] = record],
         tasks' \in Queue, Sound(tasks', lastId', released'),
         lastId' \in 0..MaxTasks, lastId <= lastId',
         released' \subseteq Task, released \subseteq released',
         opp' \in OppRecord,
         UNCHANGED <<wq, wtask, outcome>>
  PROVE  IInv'
<1>1. h \in Process /\ h \notin Worker
  BY ExecutionConstants DEF Process
<1>2. TypeOK'
  BY <1>1 DEF IInv, TypeOK, HumanPc
<1>3. ProcessesInPlace'
  BY <1>1 DEF IInv, TypeOK, ProcessesInPlace, Process
<1>4. VersionsSound'
  <2>1. lastId \in Nat /\ lastId' \in Nat
    BY TaskConstants DEF IInv, TypeOK
  <2>2. ASSUME NEW w \in Worker PROVE Sound(wq'[w], lastId', released')
    BY <2>1, SoundLater DEF IInv, VersionsSound
  <2>3. QED
    BY <2>2 DEF VersionsSound
<1>5. ExecutingRuns'
  <2>1. \A w \in Worker : pc'[w] = pc[w]
    BY <1>1 DEF IInv, TypeOK, Process
  <2>2. QED
    BY <2>1 DEF IInv, ExecutingRuns, Executing
<1>6. QED
  BY <1>2, <1>3, <1>4, <1>5 DEF IInv

\* The lifecycle moves stay within the lifecycle, and none leads out of
\* ABANDONED or into it.
LEMMA MoveType ==
  ASSUME NEW state \in OppState, NEW to \in OppState \ {"ABANDONED"}
  PROVE  /\ MoveIfLegal(state, to) \in OppState
         /\ MoveIfLegal(state, to) = "ABANDONED" <=> state = "ABANDONED"
BY DEF MoveIfLegal, CanTransition

LEMMA LifecycleType ==
  ASSUME NEW state \in OppState, NEW type
  PROVE  /\ StartState(state, type) \in OppState
         /\ SuccessState(state, type) \in OppState
         /\ Selected(state) \in OppState
         /\ StartState(state, type) = "ABANDONED" <=> state = "ABANDONED"
         /\ SuccessState(state, type) = "ABANDONED" <=> state = "ABANDONED"
         /\ Selected(state) = "ABANDONED" <=> state = "ABANDONED"
<1>1. {"PLANNING", "BUILDING", "VALIDATING", "DEPLOYING", "READY_TO_DEPLOY", "LIVE", "SELECTED"}
        \subseteq OppState \ {"ABANDONED"}
  BY DEF OppState, Forward
<1>2. /\ StartState(state, type) \in OppState
      /\ StartState(state, type) = "ABANDONED" <=> state = "ABANDONED"
  BY <1>1, MoveType DEF StartState
<1>3. /\ SuccessState(state, type) \in OppState
      /\ SuccessState(state, type) = "ABANDONED" <=> state = "ABANDONED"
  BY <1>1, MoveType DEF SuccessState
<1>4. /\ Selected(state) \in OppState
      /\ Selected(state) = "ABANDONED" <=> state = "ABANDONED"
  BY <1>1 DEF Selected, Recoverable
<1>5. QED
  BY <1>2, <1>3, <1>4

\* What IInv says of worker w.
LEMMA WorkerFacts ==
  ASSUME IInv, NEW w \in Worker
  PROVE  /\ tasks \in Queue /\ Sound(tasks, lastId, released)
         /\ wq[w] \in Queue /\ Sound(wq[w], lastId, released)
         /\ wtask[w] \in Task \cup {NoneTask} /\ outcome[w] \in Outcome
         /\ opp \in OppRecord /\ opp.state \in OppState
         /\ Executing(w) => wtask[w] \in Task /\ wq[w][wtask[w]].status = "RUNNING"
         /\ wq = [wq EXCEPT ![w] = wq[w]]
         /\ wtask = [wtask EXCEPT ![w] = wtask[w]]
         /\ outcome = [outcome EXCEPT ![w] = outcome[w]]
BY DEF IInv, TypeOK, VersionsSound, ExecutingRuns, OppRecord

\* The end of a tick: the worker has saved a sound queue and forgets its copy.
LEMMA TickEnds ==
  ASSUME IInv, NEW w \in Worker, Forget(w), tasks' \in Queue, Sound(tasks', lastId, released),
         UNCHANGED <<opp, hopp, lastId, released>>
  PROVE  IInv'
<1>1. opp' \in OppRecord
  BY WorkerFacts
<1>2. "idle" \in WorkerPc /\ "none" \in Outcome /\ NoneTask \in Task \cup {NoneTask}
  BY DEF WorkerPc, Outcome
<1>3. QED
  BY <1>1, <1>2, EmptyQueueType, EmptySound, WorkerFrame DEF Forget

LEMMA LoadQueueStep == ASSUME IInv, NEW w \in Worker, LoadQueue(w) PROVE IInv'
<1>1. Housekept(tasks) \in Queue /\ Sound(Housekept(tasks), lastId, released)
  BY WorkerFacts, HousekeptSound
<1>2. "loaded" \in WorkerPc
  BY DEF WorkerPc
<1>3. /\ tasks' \in Queue /\ Sound(tasks', lastId, released) /\ opp' \in OppRecord
      /\ wtask' = [wtask EXCEPT ![w] = wtask[w]]
      /\ outcome' = [outcome EXCEPT ![w] = outcome[w]]
      /\ wtask[w] \in Task \cup {NoneTask} /\ outcome[w] \in Outcome
  BY WorkerFacts DEF LoadQueue
<1>4. QED
  BY <1>1, <1>2, <1>3, WorkerFrame DEF LoadQueue

LEMMA NothingReadyStep == ASSUME IInv, NEW w \in Worker, NothingReady(w) PROVE IInv'
BY WorkerFacts, TickEnds DEF NothingReady

LEMMA NextReadyIsReady ==
  ASSUME NEW p, NEW t \in NextReady(p) PROVE t \in Task /\ p[t].status = "READY"
BY DEF NextReady, ByStatus

LEMMA GateStopsStep == ASSUME IInv, NEW w \in Worker, GateStops(w) PROVE IInv'
<1>1. PICK t \in NextReady(wq[w]) :
        \/ tasks' = ResolveDependencies(BlockForApproval(wq[w], t))
        \/ tasks' = ResolveDependencies(MarkFailed(Claim(wq[w], t), t, FALSE))
  BY DEF GateStops
<1> DEFINE p == wq[w]
<1>2. p \in Queue /\ Sound(p, lastId, released) /\ t \in Task /\ p[t].status = "READY"
  BY WorkerFacts, NextReadyIsReady
<1> HIDE DEF p
<1>3. BlockForApproval(p, t) \in Queue /\ Sound(BlockForApproval(p, t), lastId, released)
  BY <1>2, BlockEvolves, EvolvesSame
<1>4. MarkFailed(Claim(p, t), t, FALSE) \in Queue
      /\ Sound(MarkFailed(Claim(p, t), t, FALSE), lastId, released)
  <2> DEFINE c == Claim(p, t)
  <2>1. c \in Queue /\ c[t].status = "RUNNING" /\ Sound(c, lastId, released)
    BY <1>2, ClaimEvolves, EvolvesSame
  <2> HIDE DEF c
  <2>2. MarkFailed(c, t, FALSE) \in Queue /\ Sound(MarkFailed(c, t, FALSE), lastId, released)
    BY <1>2, <2>1, FailEvolves, EvolvesSame
  <2>3. QED
    BY <2>2 DEF c
<1>5. tasks' \in Queue /\ Sound(tasks', lastId, released)
  BY <1>1, <1>3, <1>4, ResolveSound DEF p
<1>6. QED
  BY <1>5, TickEnds DEF GateStops

LEMMA ClaimReadyStep == ASSUME IInv, NEW w \in Worker, ClaimReady(w) PROVE IInv'
<1>1. PICK t \in NextReady(wq[w]) : /\ wq' = [wq EXCEPT ![w] = Claim(wq[w], t)]
                                    /\ tasks' = Claim(wq[w], t)
                                    /\ wtask' = [wtask EXCEPT ![w] = t]
  BY DEF ClaimReady
<1>2. /\ wq[w] \in Queue /\ Sound(wq[w], lastId, released)
      /\ t \in Task /\ wq[w][t].status = "READY"
  BY WorkerFacts, NextReadyIsReady
<1>3. /\ Claim(wq[w], t) \in Queue /\ Sound(Claim(wq[w], t), lastId, released)
      /\ Claim(wq[w], t)[t].status = "RUNNING"
  BY <1>2, ClaimEvolves, EvolvesSame
<1>4. /\ "claimed" \in WorkerPc /\ opp' \in OppRecord /\ outcome[w] \in Outcome
      /\ outcome' = [outcome EXCEPT ![w] = outcome[w]]
  BY WorkerFacts DEF ClaimReady, WorkerPc
<1>5. QED
  BY <1>1, <1>2, <1>3, <1>4, WorkerFrame DEF ClaimReady

LEMMA EnterStateStep == ASSUME IInv, NEW w \in Worker, EnterState(w) PROVE IInv'
<1>1. opp' \in OppRecord
  <2>1. StartState(opp.state, TypeOf(wq[w], wtask[w])) \in OppState
    BY WorkerFacts, LifecycleType
  <2>2. QED
    BY <2>1, WorkerFacts DEF EnterState, OppRecord
<1>2. Executing(w) /\ "started" \in WorkerPc
  BY DEF EnterState, Executing, WorkerPc
<1>3. QED
  <2>1. /\ pc' = [pc EXCEPT ![w] = "started"]
        /\ UNCHANGED <<tasks, wq, wtask, outcome, hopp, lastId, released>>
    BY DEF EnterState
  <2>2. /\ wq' = [wq EXCEPT ![w] = wq[w]] /\ wtask' = [wtask EXCEPT ![w] = wtask[w]]
        /\ outcome' = [outcome EXCEPT ![w] = outcome[w]]
        /\ wq[w] \in Queue /\ Sound(wq[w], lastId, released)
        /\ wtask[w] \in Task \cup {NoneTask} /\ outcome[w] \in Outcome
        /\ wtask[w] \in Task /\ wq[w][wtask[w]].status = "RUNNING"
        /\ tasks' \in Queue /\ Sound(tasks', lastId, released)
    BY <1>2, <2>1, WorkerFacts
  <2>3. QED
    BY <1>1, <1>2, <2>1, <2>2, WorkerFrame

LEMMA RunAdapterStep == ASSUME IInv, NEW w \in Worker, RunAdapter(w) PROVE IInv'
<1>1. PICK result \in Outcome : outcome' = [outcome EXCEPT ![w] = result]
  BY DEF RunAdapter
<1>2. Executing(w) /\ "ran" \in WorkerPc
  BY DEF RunAdapter, Executing, WorkerPc
<1>3. QED
  BY <1>1, <1>2, WorkerFacts, WorkerFrame DEF RunAdapter

LEMMA RecordSuccessStep == ASSUME IInv, NEW w \in Worker, RecordSuccess(w) PROVE IInv'
<1> DEFINE type == TypeOf(wq[w], wtask[w])
<1>1. opp' \in OppRecord
  <2>1. SuccessState(opp.state, type) \in OppState
    BY WorkerFacts, LifecycleType
  <2>2. (opp.deployment \/ type = "DEPLOY") \in BOOLEAN
    OBVIOUS
  <2>3. opp' = [opp EXCEPT !.state = SuccessState(opp.state, type),
                           !.deployment = opp.deployment \/ type = "DEPLOY"]
    BY DEF RecordSuccess
  <2> HIDE DEF type
  <2>4. QED
    BY <2>1, <2>2, <2>3, WorkerFacts DEF OppRecord
<1>2. Executing(w) /\ "recorded" \in WorkerPc
  BY DEF RecordSuccess, Executing, WorkerPc
<1>3. /\ MarkSucceeded(wq[w], wtask[w]) \in Queue
      /\ Sound(MarkSucceeded(wq[w], wtask[w]), lastId, released)
  BY <1>2, WorkerFacts, SucceedEvolves, EvolvesSame
<1>4. QED
  <2>1. /\ pc' = [pc EXCEPT ![w] = "recorded"]
        /\ wq' = [wq EXCEPT ![w] = MarkSucceeded(wq[w], wtask[w])]
        /\ UNCHANGED <<tasks, wtask, outcome, hopp, lastId, released>>
    BY DEF RecordSuccess
  <2>2. /\ wtask' = [wtask EXCEPT ![w] = wtask[w]]
        /\ outcome' = [outcome EXCEPT ![w] = outcome[w]]
        /\ wtask[w] \in Task \cup {NoneTask} /\ outcome[w] \in Outcome
        /\ tasks' \in Queue /\ Sound(tasks', lastId, released)
    BY <2>1, WorkerFacts
  <2>3. QED
    BY <1>1, <1>2, <1>3, <2>1, <2>2, WorkerFrame

LEMMA RecordFailureStep == ASSUME IInv, NEW w \in Worker, RecordFailure(w) PROVE IInv'
<1> DEFINE blocked == BlockForApproval(wq[w], wtask[w])
           retry == (outcome[w] = "retry")
           failed == MarkFailed(wq[w], wtask[w], retry)
<1>1. Executing(w) /\ "recorded" \in WorkerPc /\ retry \in BOOLEAN
  BY DEF RecordFailure, Executing, WorkerPc
<1>2. wq' = [wq EXCEPT ![w] = IF outcome[w] = "approval" THEN blocked ELSE failed]
  BY DEF RecordFailure
<1> HIDE DEF retry
<1>3. blocked \in Queue /\ Sound(blocked, lastId, released)
  BY <1>1, WorkerFacts, BlockEvolves, EvolvesSame
<1>4. failed \in Queue /\ Sound(failed, lastId, released)
  BY <1>1, WorkerFacts, FailEvolves, EvolvesSame
<1> HIDE DEF blocked, failed
<1>5. PICK x \in {blocked, failed} : wq' = [wq EXCEPT ![w] = x]
  BY <1>2
<1>6. /\ pc' = [pc EXCEPT ![w] = "recorded"]
      /\ UNCHANGED <<tasks, opp, wtask, outcome, hopp, lastId, released>>
  BY DEF RecordFailure
<1>7. /\ wtask' = [wtask EXCEPT ![w] = wtask[w]]
      /\ outcome' = [outcome EXCEPT ![w] = outcome[w]]
      /\ wtask[w] \in Task \cup {NoneTask} /\ outcome[w] \in Outcome
      /\ tasks' \in Queue /\ Sound(tasks', lastId, released) /\ opp' \in OppRecord
  BY <1>6, WorkerFacts
<1>8. QED
  BY <1>1, <1>3, <1>4, <1>5, <1>6, <1>7, WorkerFrame

LEMMA SaveQueueStep == ASSUME IInv, NEW w \in Worker, SaveQueue(w) PROVE IInv'
BY WorkerFacts, ResolveSound, TickEnds DEF SaveQueue

LEMMA CrashWorkerStep == ASSUME IInv, NEW w \in Worker, CrashWorker(w) PROVE IInv'
BY WorkerFacts, TickEnds DEF CrashWorker

LEMMA PassStep == ASSUME IInv, Pass PROVE IInv'
<1>1. ASSUME NEW p \in Queue, Sound(p, lastId, released)
      PROVE  /\ Elapse(p) \in Queue /\ Sound(Elapse(p), lastId, released)
             /\ \A t \in Task : Elapse(p)[t].status = p[t].status
  BY <1>1, ElapseEvolves, EvolvesSame
<1>2. TypeOK'
  BY <1>1 DEF IInv, TypeOK, VersionsSound, Pass
<1>3. VersionsSound'
  BY <1>1 DEF IInv, TypeOK, VersionsSound, Pass
<1>4. ExecutingRuns'
  BY <1>1 DEF IInv, TypeOK, VersionsSound, ExecutingRuns, Executing, Pass
<1>5. ProcessesInPlace'
  BY DEF IInv, ProcessesInPlace, Pass
<1>6. QED
  BY <1>2, <1>3, <1>4, <1>5 DEF IInv

\* What IInv says of human h.
LEMMA HumanFacts ==
  ASSUME IInv, NEW h \in Human
  PROVE  /\ tasks \in Queue /\ Sound(tasks, lastId, released)
         /\ opp \in OppRecord /\ opp.state \in OppState /\ hopp[h] \in OppRecord
         /\ lastId \in 0..MaxTasks /\ lastId \in Nat /\ released \subseteq Task
         /\ pc = [pc EXCEPT ![h] = pc[h]] /\ pc[h] \in HumanPc
         /\ hopp = [hopp EXCEPT ![h] = hopp[h]]
         /\ NoRecord \in OppRecord
<1>1. NoRecord \in OppRecord
  BY DEF NoRecord, OppRecord, OppState, Forward
<1>2. lastId \in Nat
  BY TaskConstants DEF IInv, TypeOK
<1>3. QED
  BY <1>1, <1>2 DEF IInv, TypeOK, VersionsSound, ProcessesInPlace, OppRecord

\* A command that ends, with the queue as it is on disk.
LEMMA CommandEnds ==
  ASSUME IInv, NEW h \in Human, Return(h), opp' \in OppRecord,
         UNCHANGED <<tasks, wq, wtask, outcome, lastId, released>>
  PROVE  IInv'
<1>1. "idle" \in HumanPc
  BY DEF HumanPc
<1>2. /\ tasks' \in Queue /\ Sound(tasks', lastId', released')
      /\ lastId' \in 0..MaxTasks /\ lastId <= lastId' /\ released' \subseteq Task
      /\ released \subseteq released' /\ NoRecord \in OppRecord
  BY HumanFacts
<1>3. QED
  BY <1>1, <1>2, HumanFrame DEF Return

LEMMA AcceptStep == ASSUME IInv, NEW h \in Human, Accept(h) PROVE IInv'
<1> DEFINE e == Extended(tasks, lastId)
<1>1. /\ e.queue \in Queue /\ e.last \in lastId..MaxTasks
      /\ Sound(e.queue, e.last, released)
  BY HumanFacts, ExtendedSound DEF Accept, ChainKeys
<1>2. tasks' = ResolveDependencies(e.queue) /\ lastId' = e.last
  BY DEF Accept
<1> HIDE DEF e
<1>3. tasks' \in Queue /\ Sound(tasks', lastId', released)
  BY <1>1, <1>2, ResolveSound
<1>4. [opp EXCEPT !.state = Selected(opp.state)] \in OppRecord
  BY HumanFacts, LifecycleType DEF OppRecord
<1>5. lastId' \in 0..MaxTasks /\ lastId <= lastId'
  BY <1>1, <1>2, HumanFacts
<1>6. /\ pc' = [pc EXCEPT ![h] = "accepting"] /\ "accepting" \in HumanPc
      /\ hopp' = [hopp EXCEPT ![h] = [opp EXCEPT !.state = Selected(opp.state)]]
      /\ UNCHANGED <<opp, wq, wtask, outcome, released>>
  BY DEF Accept, HumanPc
<1>7. opp' \in OppRecord /\ released' \subseteq Task /\ Sound(tasks', lastId', released')
  BY <1>3, <1>6, HumanFacts
<1>8. QED
  BY <1>3, <1>4, <1>5, <1>6, <1>7, HumanFrame

LEMMA MarkAcceptedStep == ASSUME IInv, NEW h \in Human, MarkAccepted(h) PROVE IInv'
<1>1. opp' \in OppRecord
  BY HumanFacts DEF MarkAccepted, OppRecord
<1>2. QED
  BY <1>1, CommandEnds DEF MarkAccepted

LEMMA AbandonStep == ASSUME IInv, NEW h \in Human, Abandon(h) PROVE IInv'
<1>1. CancelAll(tasks) \in Queue /\ Sound(CancelAll(tasks), lastId, released)
  BY HumanFacts, CancelEvolves, EvolvesSame
<1>2. /\ pc' = [pc EXCEPT ![h] = "abandoning"] /\ "abandoning" \in HumanPc
      /\ hopp' = [hopp EXCEPT ![h] = opp] /\ tasks' = CancelAll(tasks)
      /\ UNCHANGED <<opp, wq, wtask, outcome, lastId, released>>
  BY DEF Abandon, HumanPc
<1>3. /\ tasks' \in Queue /\ Sound(tasks', lastId', released')
      /\ lastId' \in 0..MaxTasks /\ lastId <= lastId' /\ released' \subseteq Task
      /\ released \subseteq released' /\ opp' \in OppRecord /\ opp \in OppRecord
  BY <1>1, <1>2, HumanFacts
<1>4. QED
  BY <1>2, <1>3, HumanFrame

LEMMA MarkAbandonedStep == ASSUME IInv, NEW h \in Human, MarkAbandoned(h) PROVE IInv'
<1>1. "ABANDONED" \in OppState
  BY DEF OppState
<1>2. opp' \in OppRecord
  BY <1>1, HumanFacts DEF MarkAbandoned, OppRecord
<1>3. QED
  BY <1>2, CommandEnds DEF MarkAbandoned

LEMMA ReleaseStep == ASSUME IInv, NEW h \in Human, NEW t \in Task, Release(h, t) PROVE IInv'
<1>1. Unblock(tasks, t) \in Queue /\ Sound(Unblock(tasks, t), lastId, released \cup {t})
  BY HumanFacts, UnblockEvolves, EvolvesSound DEF Release
<1>2. /\ tasks' = ResolveDependencies(Unblock(tasks, t)) /\ released' = released \cup {t}
      /\ UNCHANGED <<opp, pc, wq, wtask, outcome, hopp, lastId>>
  BY DEF Release
<1>3. tasks' \in Queue /\ Sound(tasks', lastId', released')
  BY <1>1, <1>2, ResolveSound
<1>4. /\ lastId' \in 0..MaxTasks /\ lastId <= lastId' /\ released' \subseteq Task
      /\ released \subseteq released' /\ opp' \in OppRecord
      /\ pc' = [pc EXCEPT ![h] = pc[h]] /\ pc[h] \in HumanPc
      /\ hopp' = [hopp EXCEPT ![h] = hopp[h]] /\ hopp[h] \in OppRecord
  BY <1>2, HumanFacts
<1>5. QED
  BY <1>2, <1>3, <1>4, HumanFrame

LEMMA EnqueueStep ==
  ASSUME IInv, NEW h \in Human, NEW key \in Key \cap Enqueued, Enqueue(h, key)
  PROVE  IInv'
<1>1. lastId + 1 <= MaxTasks /\ lastId + 1 \in 0..MaxTasks /\ lastId <= lastId + 1
  BY HumanFacts, TaskConstants DEF Enqueue
<1>2. key # "DEPLOY"
  BY DEF Enqueued
<1>3. /\ CreateTask(tasks, lastId + 1, key, {}, FALSE) \in Queue
      /\ Sound(CreateTask(tasks, lastId + 1, key, {}, FALSE), lastId + 1, released)
  BY <1>1, <1>2, HumanFacts, CreateSound
<1>4. /\ tasks' = CreateTask(tasks, lastId + 1, key, {}, FALSE) /\ lastId' = lastId + 1
      /\ UNCHANGED <<opp, pc, wq, wtask, outcome, hopp, released>>
  BY DEF Enqueue
<1>5. tasks' \in Queue /\ Sound(tasks', lastId', released')
  BY <1>3, <1>4
<1>6. /\ lastId' \in 0..MaxTasks /\ lastId <= lastId' /\ released' \subseteq Task
      /\ released \subseteq released' /\ opp' \in OppRecord
      /\ pc' = [pc EXCEPT ![h] = pc[h]] /\ pc[h] \in HumanPc
      /\ hopp' = [hopp EXCEPT ![h] = hopp[h]] /\ hopp[h] \in OppRecord
  BY <1>1, <1>4, HumanFacts
<1>7. QED
  BY <1>4, <1>5, <1>6, HumanFrame

LEMMA CrashHumanStep == ASSUME IInv, NEW h \in Human, CrashHuman(h) PROVE IInv'
BY HumanFacts, CommandEnds DEF CrashHuman

LEMMA StepIInv == IInv /\ [Next]_vars => IInv'
<1> SUFFICES ASSUME IInv, [Next]_vars PROVE IInv'
  OBVIOUS
<1>1. CASE Pass
  BY <1>1, PassStep
<1>2. ASSUME NEW w \in Worker, LoadQueue(w) \/ TickSteps(w) \/ CrashWorker(w) PROVE IInv'
  BY <1>2, LoadQueueStep, NothingReadyStep, GateStopsStep, ClaimReadyStep, EnterStateStep,
     RunAdapterStep, RecordSuccessStep, RecordFailureStep, SaveQueueStep, CrashWorkerStep
  DEF TickSteps
<1>3. ASSUME NEW h \in Human, Command(h) \/ CrashHuman(h) PROVE IInv'
  BY <1>3, AcceptStep, MarkAcceptedStep, AbandonStep, MarkAbandonedStep, ReleaseStep,
     EnqueueStep, CrashHumanStep DEF Command
<1>4. CASE UNCHANGED vars
  BY <1>4 DEF vars, IInv, TypeOK, ProcessesInPlace, VersionsSound, ExecutingRuns, Executing
<1>5. QED
  BY <1>1, <1>2, <1>3, <1>4 DEF Next

(* Every version of the queue is sound in every reachable state.           *)
THEOREM VersionsStaySound == Spec => []IInv
BY InitIInv, StepIInv, PTL DEF Spec

(* The files, the copies and the program counters are well formed.         *)
THEOREM TypeCorrect == Spec => []TypeOK
BY VersionsStaySound, PTL DEF IInv

(* A DEPLOY of the chain that a worker executes has been released by a     *)
(* human, whatever was lost, repeated, reclaimed or accepted again.        *)
THEOREM DeployOnlyReleasedHolds == Spec => []DeployOnlyReleased
<1>1. IInv => DeployOnlyReleased
  <2> SUFFICES ASSUME IInv, NEW w \in Worker, Executing(w),
                      wq[w][wtask[w]].idempotency_key = "DEPLOY"
               PROVE  wtask[w] \in released
    BY DEF DeployOnlyReleased
  <2>1. QED
    BY WorkerFacts, RunningIsReleased
<1>2. QED
  BY <1>1, VersionsStaySound, PTL

(* Dependencies first, one task per key and closed gates hold of the file  *)
(* and of every worker's copy, however stale.                              *)
THEOREM EveryCopySoundHolds == Spec => []EveryCopySound
<1>1. IInv => EveryCopySound
  <2> SUFFICES ASSUME IInv PROVE EveryCopySound
    OBVIOUS
  <2>1. Disk!DependenciesFirst /\ Disk!OneTaskPerKey /\ Disk!ClosedGateHolds
    BY DEF IInv, VersionsSound, Sound, Ordered, Unique, GatesShut, Eligible, DepsSucceeded, Live,
       Task, Disk!DependenciesFirst, Disk!OneTaskPerKey, Disk!ClosedGateHolds, Disk!Enabled,
       Disk!DepsSucceeded, Disk!Live, Disk!Task
  <2>2. ASSUME NEW w \in Worker
        PROVE  Copy(w)!DependenciesFirst /\ Copy(w)!OneTaskPerKey /\ Copy(w)!ClosedGateHolds
    BY DEF IInv, VersionsSound, Sound, Ordered, Unique, GatesShut, Eligible, DepsSucceeded, Live,
       Task, Copy!DependenciesFirst, Copy!OneTaskPerKey, Copy!ClosedGateHolds, Copy!Enabled,
       Copy!DepsSucceeded, Copy!Live, Copy!Task
  <2>3. QED
    BY <2>1, <2>2 DEF EveryCopySound
<1>2. QED
  BY <1>1, VersionsStaySound, PTL

-----------------------------------------------------------------------------
(***************************************************************************)
(* Part 4.  Processes that do not overlap.  Between the two saves of a     *)
(* command nobody else moves, so an acceptance under way is one of an      *)
(* opportunity that is still not ABANDONED, and once an abandonment has    *)
(* begun no version of the queue holds a live task of the chain.           *)
(***************************************************************************)
Serial == \A a, b \in Process : pc[a] # "idle" /\ pc[b] # "idle" => a = b

Withdrawn == opp.state = "ABANDONED" \/ \E h \in Human : pc[h] = "abandoning"

AcceptingOpen ==
    \A h \in Human :
        pc[h] = "accepting" => opp.state # "ABANDONED" /\ hopp[h].state # "ABANDONED"

QuietInv ==
    /\ Serial
    /\ AcceptingOpen
    /\ \A w \in Worker : pc[w] = "idle" => Quiet(wq[w])
    /\ Withdrawn => Quiet(tasks) /\ \A w \in Worker : Quiet(wq[w])

\* Who moves was under way already, or is the only one.
MovesAlone(p) ==
    \/ pc' = pc
    \/ /\ pc[p] # "idle" \/ \A o \in Process : pc[o] = "idle"
       /\ \E c : pc' = [pc EXCEPT ![p] = c]

LEMMA SerialStep ==
  ASSUME TypeOK, Serial, NEW p \in Process, MovesAlone(p)
  PROVE  Serial'
BY DEF TypeOK, Serial, MovesAlone

\* A worker's step keeps what is quiet quiet, and leaves or enters ABANDONED
\* never.
WorkerKeepsQuiet(w) ==
    /\ Quiet(tasks) /\ Quiet(wq[w]) => Quiet(tasks') /\ Quiet(wq'[w])
    /\ \A v \in Worker \ {w} : wq'[v] = wq[v]
    /\ pc'[w] = "idle" => Quiet(wq'[w])
    /\ opp'.state = "ABANDONED" <=> opp.state = "ABANDONED"

LEMMA ForgetQuiet ==
  ASSUME IInv, NEW w \in Worker, Forget(w), UNCHANGED opp,
         Quiet(tasks) /\ Quiet(wq[w]) => Quiet(tasks')
  PROVE  WorkerKeepsQuiet(w)
<1>1. Quiet(EmptyQueue)
  BY EmptySound
<1>2. wq'[w] = EmptyQueue /\ \A v \in Worker \ {w} : wq'[v] = wq[v]
  BY DEF Forget, IInv, TypeOK
<1>3. QED
  BY <1>1, <1>2 DEF WorkerKeepsQuiet

\* A step that leaves the worker under way and changes its copy to x.
LEMMA CopyQuiet ==
  ASSUME IInv, NEW w \in Worker, NEW c, c # "idle", NEW x,
         pc' = [pc EXCEPT ![w] = c], wq' = [wq EXCEPT ![w] = x],
         Quiet(tasks) /\ Quiet(wq[w]) => Quiet(tasks') /\ Quiet(x),
         opp'.state = "ABANDONED" <=> opp.state = "ABANDONED"
  PROVE  WorkerKeepsQuiet(w)
<1>1. pc'[w] # "idle" /\ wq'[w] = x /\ \A v \in Worker \ {w} : wq'[v] = wq[v]
  BY DEF IInv, TypeOK, Process
<1>2. QED
  BY <1>1 DEF WorkerKeepsQuiet

LEMMA LoadQuiet ==
  ASSUME IInv, NEW w \in Worker, LoadQueue(w) PROVE WorkerKeepsQuiet(w)
<1>1. Quiet(tasks) => Quiet(Housekept(tasks))
  BY WorkerFacts, HousekeptSound
<1>2. QED
  BY <1>1, CopyQuiet DEF LoadQueue

LEMMA GateStopsQuiet ==
  ASSUME IInv, NEW w \in Worker, GateStops(w) PROVE WorkerKeepsQuiet(w)
<1>1. PICK t \in NextReady(wq[w]) :
        \/ tasks' = ResolveDependencies(BlockForApproval(wq[w], t))
        \/ tasks' = ResolveDependencies(MarkFailed(Claim(wq[w], t), t, FALSE))
  BY DEF GateStops
<1> DEFINE p == wq[w]
           c == Claim(p, t)
           b == BlockForApproval(p, t)
           f == MarkFailed(c, t, FALSE)
<1>2. p \in Queue /\ Sound(p, lastId, released) /\ t \in Task /\ p[t].status = "READY"
  BY WorkerFacts, NextReadyIsReady
<1> HIDE DEF p
<1>3. b \in Queue /\ Sound(b, lastId, released) /\ (Quiet(p) => Quiet(b))
  BY <1>2, BlockEvolves, EvolvesSame, EvolvesQuiet
<1>4. /\ c \in Queue /\ Sound(c, lastId, released) /\ (Quiet(p) => Quiet(c))
      /\ c[t].status = "RUNNING"
  BY <1>2, ClaimEvolves, EvolvesSame, EvolvesQuiet
<1> HIDE DEF c
<1>5. f \in Queue /\ Sound(f, lastId, released) /\ (Quiet(c) => Quiet(f))
  BY <1>2, <1>4, FailEvolves, EvolvesSame, EvolvesQuiet
<1>6. tasks' = ResolveDependencies(b) \/ tasks' = ResolveDependencies(f)
  BY <1>1 DEF p, c
<1> HIDE DEF b, f
<1>7. Quiet(p) => Quiet(tasks')
  BY <1>3, <1>4, <1>5, <1>6, ResolveSound
<1>8. QED
  BY <1>7, ForgetQuiet DEF GateStops, p

LEMMA ClaimQuiet ==
  ASSUME IInv, NEW w \in Worker, ClaimReady(w) PROVE WorkerKeepsQuiet(w)
<1>1. PICK t \in NextReady(wq[w]) : /\ wq' = [wq EXCEPT ![w] = Claim(wq[w], t)]
                                    /\ tasks' = Claim(wq[w], t)
  BY DEF ClaimReady
<1>2. Quiet(wq[w]) => Quiet(Claim(wq[w], t))
  BY WorkerFacts, NextReadyIsReady, ClaimEvolves, EvolvesQuiet
<1>3. pc' = [pc EXCEPT ![w] = "claimed"] /\ UNCHANGED opp
  BY DEF ClaimReady
<1>4. QED
  BY <1>1, <1>2, <1>3, CopyQuiet

LEMMA EnterStateQuiet ==
  ASSUME IInv, NEW w \in Worker, EnterState(w) PROVE WorkerKeepsQuiet(w)
<1>1. opp'.state = StartState(opp.state, TypeOf(wq[w], wtask[w]))
  BY WorkerFacts DEF EnterState, OppRecord
<1>2. opp'.state = "ABANDONED" <=> opp.state = "ABANDONED"
  BY <1>1, WorkerFacts, LifecycleType
<1>3. /\ pc' = [pc EXCEPT ![w] = "started"] /\ tasks' = tasks
      /\ wq' = [wq EXCEPT ![w] = wq[w]]
  BY WorkerFacts DEF EnterState
<1>4. QED
  BY <1>2, <1>3, CopyQuiet

LEMMA RunAdapterQuiet ==
  ASSUME IInv, NEW w \in Worker, RunAdapter(w) PROVE WorkerKeepsQuiet(w)
<1>1. /\ pc' = [pc EXCEPT ![w] = "ran"] /\ UNCHANGED <<tasks, opp>>
      /\ wq' = [wq EXCEPT ![w] = wq[w]]
  BY WorkerFacts DEF RunAdapter
<1>2. QED
  BY <1>1, CopyQuiet

LEMMA RecordSuccessQuiet ==
  ASSUME IInv, NEW w \in Worker, RecordSuccess(w) PROVE WorkerKeepsQuiet(w)
<1> DEFINE type == TypeOf(wq[w], wtask[w])
           x == MarkSucceeded(wq[w], wtask[w])
<1>1. opp' = [opp EXCEPT !.state = SuccessState(opp.state, type),
                         !.deployment = opp.deployment \/ type = "DEPLOY"]
  BY DEF RecordSuccess
<1>2. Executing(w)
  BY DEF RecordSuccess, Executing
<1>3. Quiet(wq[w]) => Quiet(x)
  BY <1>2, WorkerFacts, SucceedEvolves, EvolvesQuiet
<1>4. pc' = [pc EXCEPT ![w] = "recorded"] /\ wq' = [wq EXCEPT ![w] = x] /\ tasks' = tasks
  BY DEF RecordSuccess
<1> HIDE DEF type, x
<1>5. opp'.state = SuccessState(opp.state, type)
  BY <1>1, WorkerFacts DEF OppRecord
<1>6. opp'.state = "ABANDONED" <=> opp.state = "ABANDONED"
  BY <1>5, WorkerFacts, LifecycleType
<1>7. QED
  BY <1>3, <1>4, <1>6, CopyQuiet

LEMMA RecordFailureQuiet ==
  ASSUME IInv, NEW w \in Worker, RecordFailure(w) PROVE WorkerKeepsQuiet(w)
<1> DEFINE retry == (outcome[w] = "retry")
           blocked == BlockForApproval(wq[w], wtask[w])
           failed == MarkFailed(wq[w], wtask[w], retry)
<1>1. Executing(w) /\ retry \in BOOLEAN
  BY DEF RecordFailure, Executing
<1>2. wq' = [wq EXCEPT ![w] = IF outcome[w] = "approval" THEN blocked ELSE failed]
  BY DEF RecordFailure
<1> HIDE DEF retry
<1>3. (Quiet(wq[w]) => Quiet(blocked)) /\ (Quiet(wq[w]) => Quiet(failed))
  BY <1>1, WorkerFacts, BlockEvolves, FailEvolves, EvolvesQuiet
<1> HIDE DEF blocked, failed
<1>4. PICK x \in {blocked, failed} : wq' = [wq EXCEPT ![w] = x]
  BY <1>2
<1>5. pc' = [pc EXCEPT ![w] = "recorded"] /\ UNCHANGED <<tasks, opp>>
  BY DEF RecordFailure
<1>6. QED
  BY <1>3, <1>4, <1>5, CopyQuiet

LEMMA WorkerQuiet ==
  ASSUME IInv, NEW w \in Worker, LoadQueue(w) \/ TickSteps(w) \/ CrashWorker(w)
  PROVE  WorkerKeepsQuiet(w) /\ UNCHANGED hopp /\ \E c : pc' = [pc EXCEPT ![w] = c]
<1>1. WorkerKeepsQuiet(w)
  <2>1. CASE NothingReady(w)
    BY <2>1, ForgetQuiet DEF NothingReady
  <2>2. CASE SaveQueue(w)
    <3>1. Quiet(wq[w]) => Quiet(ResolveDependencies(wq[w]))
      BY WorkerFacts, ResolveSound
    <3>2. QED
      BY <2>2, <3>1, ForgetQuiet DEF SaveQueue
  <2>3. CASE CrashWorker(w)
    BY <2>3, ForgetQuiet DEF CrashWorker
  <2>4. QED
    BY <2>1, <2>2, <2>3, LoadQuiet, GateStopsQuiet, ClaimQuiet, EnterStateQuiet,
       RunAdapterQuiet, RecordSuccessQuiet, RecordFailureQuiet DEF TickSteps
<1>2. UNCHANGED hopp /\ \E c : pc' = [pc EXCEPT ![w] = c]
  BY DEF TickSteps, LoadQueue, NothingReady, GateStops, ClaimReady, EnterState, RunAdapter,
     RecordSuccess, RecordFailure, SaveQueue, CrashWorker, Forget
<1>3. QED
  BY <1>1, <1>2

LEMMA WorkerQuietStep ==
  ASSUME ~Overlap, IInv, QuietInv, NEW w \in Worker, LoadQueue(w) \/ TickSteps(w) \/ CrashWorker(w)
  PROVE  QuietInv' /\ (opp.state = "ABANDONED" => opp'.state = "ABANDONED")
<1>1. WorkerKeepsQuiet(w) /\ UNCHANGED hopp
  BY WorkerQuiet
<1>2. PICK c : pc' = [pc EXCEPT ![w] = c]
  BY WorkerQuiet
<1>3. pc[w] # "idle" \/ \A o \in Process : pc[o] = "idle"
  BY DEF LoadQueue, MayStart, TickSteps, NothingReady, GateStops, ClaimReady, EnterState,
     RunAdapter, RecordSuccess, RecordFailure, SaveQueue, CrashWorker
<1>4. /\ w \in Process /\ w \notin Human /\ \A o \in Process \ {w} : pc'[o] = pc[o]
      /\ \A h \in Human : h \in Process /\ pc'[h] = pc[h]
      /\ \A v \in Worker : v \in Process
  BY <1>2, ExecutionConstants DEF Process, IInv, TypeOK
<1>5. Serial'
  BY <1>2, <1>3, <1>4, SerialStep DEF MovesAlone, IInv, QuietInv
<1>6. AcceptingOpen'
  BY <1>1, <1>4 DEF QuietInv, AcceptingOpen, WorkerKeepsQuiet
<1>7. \A v \in Worker : pc'[v] = "idle" => Quiet(wq'[v])
  BY <1>1, <1>4 DEF QuietInv, WorkerKeepsQuiet
<1>8. Withdrawn' => Withdrawn
  BY <1>1, <1>4 DEF Withdrawn, WorkerKeepsQuiet
<1>9. Withdrawn' => Quiet(tasks') /\ \A v \in Worker : Quiet(wq'[v])
  BY <1>1, <1>8 DEF QuietInv, WorkerKeepsQuiet
<1>10. QED
  BY <1>1, <1>5, <1>6, <1>7, <1>9 DEF QuietInv, WorkerKeepsQuiet

\* A human's step leaves every worker and its copy alone.
LEMMA HumanQuietFrame ==
  ASSUME IInv, QuietInv, NEW h \in Human, MovesAlone(h), UNCHANGED wq,
         AcceptingOpen', Withdrawn' => Quiet(tasks') /\ \A v \in Worker : Quiet(wq[v])
  PROVE  QuietInv'
<1>1. h \in Process /\ h \notin Worker /\ \A v \in Worker : v \in Process
  BY ExecutionConstants DEF Process
<1>2. Serial'
  BY <1>1, SerialStep DEF IInv, QuietInv
<1>3. \A v \in Worker : pc'[v] = pc[v]
  BY <1>1 DEF MovesAlone, IInv, TypeOK
<1>4. QED
  BY <1>2, <1>3 DEF QuietInv

\* A command under way is the only process that is.
LEMMA CommandAlone ==
  ASSUME IInv, QuietInv, NEW h \in Human, pc[h] # "idle", Return(h)
  PROVE  /\ MovesAlone(h)
         /\ \A x \in Human : pc'[x] = "idle"
<1>1. h \in Process /\ \A x \in Human : x \in Process
  BY DEF Process
<1>2. \A x \in Human : pc'[x] = "idle"
  BY <1>1 DEF Return, IInv, TypeOK, QuietInv, Serial
<1>3. QED
  BY <1>2 DEF Return, MovesAlone

LEMMA AcceptQuiet ==
  ASSUME ~Overlap, IInv, QuietInv, NEW h \in Human, Accept(h)
  PROVE  QuietInv' /\ UNCHANGED opp
<1>1. /\ \A o \in Process : pc[o] = "idle"
      /\ opp.state # "ABANDONED" /\ UNCHANGED <<opp, wq>>
      /\ pc' = [pc EXCEPT ![h] = "accepting"]
      /\ hopp' = [hopp EXCEPT ![h] = [opp EXCEPT !.state = Selected(opp.state)]]
  BY DEF Accept, MayStart
<1>2. h \in Process /\ \A x \in Human : x \in Process
  BY DEF Process
<1>3. pc'[h] = "accepting" /\ \A x \in Human \ {h} : pc'[x] = "idle"
  BY <1>1, <1>2 DEF IInv, TypeOK
<1>4. hopp'[h].state # "ABANDONED"
  <2>1. Selected(opp.state) # "ABANDONED"
    BY <1>1, HumanFacts, LifecycleType
  <2>2. hopp'[h].state = Selected(opp.state)
    BY <1>1, HumanFacts DEF IInv, TypeOK, OppRecord
  <2>3. QED
    BY <2>1, <2>2
<1>5. AcceptingOpen'
  BY <1>1, <1>3, <1>4 DEF AcceptingOpen
<1>6. ~Withdrawn'
  BY <1>1, <1>3 DEF Withdrawn
<1>7. MovesAlone(h)
  BY <1>1 DEF MovesAlone
<1>8. QED
  BY <1>1, <1>5, <1>6, <1>7, HumanQuietFrame

LEMMA MarkAcceptedQuiet ==
  ASSUME IInv, QuietInv, NEW h \in Human, MarkAccepted(h)
  PROVE  QuietInv' /\ opp.state # "ABANDONED"
<1>1. /\ pc[h] = "accepting" /\ Return(h) /\ UNCHANGED wq
      /\ opp'.state = hopp[h].state
  BY DEF MarkAccepted
<1>2. opp.state # "ABANDONED" /\ opp'.state # "ABANDONED"
  BY <1>1 DEF QuietInv, AcceptingOpen
<1>3. MovesAlone(h) /\ \A x \in Human : pc'[x] = "idle"
  BY <1>1, CommandAlone
<1>4. AcceptingOpen' /\ ~Withdrawn'
  BY <1>2, <1>3 DEF AcceptingOpen, Withdrawn
<1>5. QED
  BY <1>1, <1>2, <1>3, <1>4, HumanQuietFrame

LEMMA AbandonQuiet ==
  ASSUME ~Overlap, IInv, QuietInv, NEW h \in Human, Abandon(h)
  PROVE  QuietInv' /\ UNCHANGED opp
<1>1. /\ \A o \in Process : pc[o] = "idle"
      /\ UNCHANGED <<opp, wq>>
      /\ pc' = [pc EXCEPT ![h] = "abandoning"] /\ tasks' = CancelAll(tasks)
  BY DEF Abandon, MayStart
<1>2. h \in Process /\ (\A x \in Human : x \in Process) /\ (\A v \in Worker : v \in Process)
  BY DEF Process
<1>3. pc'[h] = "abandoning" /\ \A x \in Human \ {h} : pc'[x] = "idle"
  BY <1>1, <1>2 DEF IInv, TypeOK
<1>4. AcceptingOpen'
  BY <1>3 DEF AcceptingOpen
<1>5. Quiet(tasks') /\ \A v \in Worker : Quiet(wq[v])
  BY <1>1, <1>2, HumanFacts, CancelEvolves DEF Quiet, QuietInv
<1>6. MovesAlone(h) /\ UNCHANGED wq /\ UNCHANGED opp
  BY <1>1 DEF MovesAlone
<1>7. QED
  BY <1>4, <1>5, <1>6, HumanQuietFrame

LEMMA MarkAbandonedQuiet ==
  ASSUME IInv, QuietInv, NEW h \in Human, MarkAbandoned(h)
  PROVE  QuietInv' /\ (opp.state = "ABANDONED" => opp'.state = "ABANDONED")
<1>1. pc[h] = "abandoning" /\ Return(h) /\ UNCHANGED <<tasks, wq>>
  BY DEF MarkAbandoned
<1>2. Quiet(tasks) /\ \A v \in Worker : Quiet(wq[v])
  BY <1>1 DEF QuietInv, Withdrawn
<1>3. MovesAlone(h) /\ \A x \in Human : pc'[x] = "idle"
  BY <1>1, CommandAlone
<1>4. AcceptingOpen'
  BY <1>3 DEF AcceptingOpen
<1>5. opp.state = "ABANDONED" => opp'.state = "ABANDONED"
  BY HumanFacts DEF MarkAbandoned, OppRecord
<1>6. QED
  BY <1>1, <1>2, <1>3, <1>4, <1>5, HumanQuietFrame

\* Release and Enqueue: commands of one save.
LEMMA OneSaveQuiet ==
  ASSUME IInv, QuietInv, NEW h \in Human, UNCHANGED <<opp, pc, wq, hopp>>,
         Quiet(tasks) => Quiet(tasks')
  PROVE  QuietInv'
<1>1. MovesAlone(h)
  BY DEF MovesAlone
<1>2. AcceptingOpen' /\ (Withdrawn' => Withdrawn)
  BY DEF QuietInv, AcceptingOpen, Withdrawn
<1>3. Withdrawn' => Quiet(tasks') /\ \A v \in Worker : Quiet(wq[v])
  BY <1>2 DEF QuietInv
<1>4. QED
  BY <1>1, <1>2, <1>3, HumanQuietFrame

LEMMA ReleaseQuiet ==
  ASSUME IInv, QuietInv, NEW h \in Human, NEW t \in Task, Release(h, t)
  PROVE  QuietInv' /\ UNCHANGED opp
<1> DEFINE u == Unblock(tasks, t)
<1>1. u \in Queue /\ Sound(u, lastId, released \cup {t}) /\ (Quiet(tasks) => Quiet(u))
  BY HumanFacts, UnblockEvolves, EvolvesSound, EvolvesQuiet DEF Release
<1>2. tasks' = ResolveDependencies(u) /\ UNCHANGED <<opp, pc, wq, hopp>>
  BY DEF Release
<1> HIDE DEF u
<1>3. Quiet(tasks) => Quiet(tasks')
  BY <1>1, <1>2, ResolveSound
<1>4. QED
  BY <1>2, <1>3, OneSaveQuiet

LEMMA EnqueueQuiet ==
  ASSUME IInv, QuietInv, NEW h \in Human, NEW key \in Key \cap Enqueued, Enqueue(h, key)
  PROVE  QuietInv' /\ UNCHANGED opp
<1>1. lastId + 1 <= MaxTasks /\ key # "DEPLOY"
  BY HumanFacts, TaskConstants DEF Enqueue, Enqueued
<1>2. /\ tasks' = CreateTask(tasks, lastId + 1, key, {}, FALSE)
      /\ UNCHANGED <<opp, pc, wq, hopp>>
  BY DEF Enqueue
<1>3. Quiet(tasks) => Quiet(tasks')
  BY <1>1, <1>2, HumanFacts, CreateSound
<1>4. QED
  BY <1>2, <1>3, OneSaveQuiet

LEMMA CrashHumanQuiet ==
  ASSUME IInv, QuietInv, NEW h \in Human, CrashHuman(h)
  PROVE  QuietInv' /\ UNCHANGED opp
<1>1. pc[h] # "idle" /\ Return(h) /\ UNCHANGED <<tasks, opp, wq>>
  BY DEF CrashHuman
<1>2. MovesAlone(h) /\ \A x \in Human : pc'[x] = "idle"
  BY <1>1, CommandAlone
<1>3. AcceptingOpen' /\ (Withdrawn' => Withdrawn)
  BY <1>1, <1>2 DEF AcceptingOpen, Withdrawn
<1>4. Withdrawn' => Quiet(tasks') /\ \A v \in Worker : Quiet(wq[v])
  BY <1>1, <1>3 DEF QuietInv
<1>5. QED
  BY <1>1, <1>2, <1>3, <1>4, HumanQuietFrame

LEMMA PassQuiet == ASSUME IInv, QuietInv, Pass PROVE QuietInv' /\ UNCHANGED opp
<1>1. ASSUME NEW p \in Queue, Quiet(p) PROVE Quiet(Elapse(p))
  BY <1>1, ElapseEvolves, EvolvesQuiet
<1>2. \A v \in Worker : wq[v] \in Queue /\ wq'[v] = Elapse(wq[v])
  BY DEF Pass, IInv, TypeOK
<1>3. tasks \in Queue /\ tasks' = Elapse(tasks) /\ UNCHANGED <<opp, pc, hopp>>
  BY DEF Pass, IInv, TypeOK
<1>4. Serial' /\ AcceptingOpen' /\ (Withdrawn' => Withdrawn)
  BY <1>3 DEF QuietInv, Serial, AcceptingOpen, Withdrawn
<1>5. QED
  BY <1>1, <1>2, <1>3, <1>4 DEF QuietInv

AbandonedStep == opp.state = "ABANDONED" => opp'.state = "ABANDONED"

LEMMA StepQuiet ==
  ~Overlap /\ IInv /\ QuietInv /\ [Next]_vars => QuietInv' /\ [AbandonedStep]_vars
<1> SUFFICES ASSUME ~Overlap, IInv, QuietInv, [Next]_vars
             PROVE  QuietInv' /\ [AbandonedStep]_vars
  OBVIOUS
<1>1. CASE Pass
  BY <1>1, PassQuiet DEF AbandonedStep
<1>2. ASSUME NEW w \in Worker, LoadQueue(w) \/ TickSteps(w) \/ CrashWorker(w)
      PROVE  QuietInv' /\ AbandonedStep
  BY <1>2, WorkerQuietStep DEF AbandonedStep
<1>3. ASSUME NEW h \in Human, Command(h) \/ CrashHuman(h)
      PROVE  QuietInv' /\ AbandonedStep
  BY <1>3, AcceptQuiet, MarkAcceptedQuiet, AbandonQuiet, MarkAbandonedQuiet, ReleaseQuiet,
     EnqueueQuiet, CrashHumanQuiet DEF Command, AbandonedStep
<1>4. CASE UNCHANGED vars
  BY <1>4 DEF vars, QuietInv, Serial, AcceptingOpen, Withdrawn
<1>5. QED
  BY <1>1, <1>2, <1>3, <1>4 DEF Next

LEMMA InitQuiet == Init => QuietInv
<1> SUFFICES ASSUME Init PROVE QuietInv
  OBVIOUS
<1>1. Serial /\ AcceptingOpen
  BY DEF Init, Serial, AcceptingOpen, Process
<1>2. Quiet(tasks) /\ \A w \in Worker : Quiet(wq[w])
  BY EmptySound DEF Init
<1>3. QED
  BY <1>1, <1>2 DEF QuietInv

LEMMA QuietAlways == ASSUME ~Overlap PROVE Spec => [](IInv /\ QuietInv)
<1>1. Init => IInv /\ QuietInv
  BY InitIInv, InitQuiet
<1>2. IInv /\ QuietInv /\ [Next]_vars => (IInv /\ QuietInv)'
  BY StepIInv, StepQuiet
<1>3. QED
  BY <1>1, <1>2, PTL DEF Spec

(* Where processes do not overlap, an ABANDONED opportunity has no task of *)
(* its chain left to run, on disk or in memory, whoever died on the way.   *)
THEOREM AbandonedIsQuietHolds == ASSUME ~Overlap PROVE Spec => []AbandonedIsQuiet
<1>1. IInv /\ QuietInv => AbandonedIsQuiet
  BY DEF QuietInv, Withdrawn, AbandonedIsQuiet, Quiet, ByStatus
<1>2. QED
  BY <1>1, QuietAlways, PTL

(* Where processes do not overlap, nothing revives an ABANDONED            *)
(* opportunity: no late task, no enqueued task, no second command.         *)
THEOREM AbandonedStaysHolds == ASSUME ~Overlap PROVE Spec => AbandonedStays
<1>1. IInv /\ QuietInv /\ [Next]_vars => [AbandonedStep]_vars
  BY StepQuiet
<1>2. Spec => [][AbandonedStep]_vars
  BY <1>1, QuietAlways, PTL DEF Spec
<1>3. QED
  BY <1>2 DEF AbandonedStays, AbandonedStep

-----------------------------------------------------------------------------
(***************************************************************************)
(* Part 5.  The lifecycle follows the chain.  A state move is only made    *)
(* when it is legal, so what has SUCCEEDED says where the opportunity has  *)
(* got to only because each task's state was reached from the one its      *)
(* dependency had reached.  The argument goes through PLAN, BUILD_PAGE,    *)
(* VALIDATE_PAGE and DEPLOY; a command that is not cut off between its two *)
(* saves is what makes PLAN start from SELECTED.                           *)
(***************************************************************************)
Main == {"PLAN", "BUILD_PAGE", "VALIDATE_PAGE", "DEPLOY"}

\* The main task that a main task waits for.
Earlier == [BUILD_PAGE |-> "PLAN", VALIDATE_PAGE |-> "BUILD_PAGE", DEPLOY |-> "VALIDATE_PAGE"]

Taken == {"SELECTED", "PLANNING", "BUILDING", "VALIDATING", "READY_TO_DEPLOY", "DEPLOYING",
          "LIVE", "ABANDONED"}

Known == Taken \cup {"DISCOVERED", "SCORED"}

\* Where the opportunity is at least while a task of the type runs.
Entered(type) ==
    CASE type = "PLAN"          -> Taken \ {"SELECTED"}
      [] type = "BUILD_PAGE"    -> Taken \ {"SELECTED", "PLANNING"}
      [] type = "VALIDATE_PAGE" -> Taken \ {"SELECTED", "PLANNING", "BUILDING"}
      [] type = "DEPLOY"        -> {"DEPLOYING", "LIVE", "ABANDONED"}
      [] OTHER                  -> Known

\* Where it is at least once one has SUCCEEDED.
Reached(type) ==
    CASE type = "PLAN"          -> Taken \ {"SELECTED"}
      [] type = "BUILD_PAGE"    -> Taken \ {"SELECTED", "PLANNING"}
      [] type = "VALIDATE_PAGE" -> {"READY_TO_DEPLOY", "DEPLOYING", "LIVE", "ABANDONED"}
      [] type = "DEPLOY"        -> {"LIVE", "ABANDONED"}
      [] OTHER                  -> Known

\* Every main task but the first depends on one of the task before it.
Wired(p) ==
    \A t \in Task :
        p[t].status # "ABSENT" /\ p[t].idempotency_key \in DOMAIN Earlier =>
            \E d \in p[t].depends_on :
                p[d].status # "ABSENT" /\ p[d].idempotency_key = Earlier[p[t].idempotency_key]

Followed(p, state) ==
    \A t \in Task : p[t].status = "SUCCEEDED" => state \in Reached(p[t].idempotency_key)

\* There is no PLAN before the opportunity is SELECTED.
InHand(p, state) ==
    \A t \in Task :
        p[t].status # "ABSENT" /\ p[t].idempotency_key = "PLAN" => state \in Taken

Faithful(p, state) == Wired(p) /\ Followed(p, state)

Accepting == \E h \in Human : pc[h] = "accepting"

\* A command's copy of the record is the record it is about to write.
CommandsCurrent ==
    \A h \in Human :
        /\ pc[h] = "accepting" => hopp[h].state = Selected(opp.state)
        /\ pc[h] = "abandoning" => hopp[h].state = opp.state

FollowInv ==
    /\ opp.state \in Known
    /\ Faithful(tasks, opp.state) /\ (InHand(tasks, opp.state) \/ Accepting)
    /\ \A w \in Worker : Faithful(wq[w], opp.state) /\ InHand(wq[w], opp.state)
    /\ CommandsCurrent
    /\ \A w \in Worker :
          pc[w] \in {"started", "ran"} => opp.state \in Entered(wq[w][wtask[w]].idempotency_key)

\* The worker's moves, from the states an accepted chain goes through.
LEMMA MovesOfChain ==
  ASSUME NEW s \in Known
  PROVE  /\ MoveIfLegal(s, "PLANNING") = IF s = "SELECTED" THEN "PLANNING" ELSE s
         /\ MoveIfLegal(s, "BUILDING") = IF s \in {"PLANNING", "VALIDATING"} THEN "BUILDING" ELSE s
         /\ MoveIfLegal(s, "VALIDATING") = IF s = "BUILDING" THEN "VALIDATING" ELSE s
         /\ MoveIfLegal(s, "READY_TO_DEPLOY") =
               IF s \in {"VALIDATING", "DEPLOYING"} THEN "READY_TO_DEPLOY" ELSE s
         /\ MoveIfLegal(s, "DEPLOYING") = IF s = "READY_TO_DEPLOY" THEN "DEPLOYING" ELSE s
         /\ MoveIfLegal(s, "LIVE") = IF s = "DEPLOYING" THEN "LIVE" ELSE s
<1>1. /\ Forward["DISCOVERED"] = {"RESEARCHING", "SCORED"}
      /\ Forward["SCORED"] = {"SELECTED"}
      /\ Forward["SELECTED"] = {"PLANNING"}
      /\ Forward["PLANNING"] = {"BUILDING", "FAILED"}
      /\ Forward["BUILDING"] = {"VALIDATING", "FAILED"}
      /\ Forward["VALIDATING"] = {"READY_TO_DEPLOY", "BUILDING", "FAILED", "FIRST_SALE"}
      /\ Forward["READY_TO_DEPLOY"] = {"DEPLOYING"}
      /\ Forward["DEPLOYING"] = {"LIVE", "READY_TO_DEPLOY", "FAILED"}
      /\ Forward["LIVE"] = {"ACQUIRING_TRAFFIC", "MEASURING", "FIRST_SALE"}
      /\ Known \ {"ABANDONED"} \subseteq DOMAIN Forward
      /\ Recoverable \cap Known = {}
  BY DEF Forward, Known, Taken, Recoverable
<1>2. ASSUME NEW to, to \notin {"ABANDONED", "BLOCKED"}
      PROVE  CanTransition(s, to) <=> s # to /\ s # "ABANDONED" /\ to \in Forward[s]
  BY <1>1, <1>2 DEF CanTransition
<1>3. QED
  BY <1>1, <1>2 DEF MoveIfLegal, Known, Taken

\* A move that loses nothing of what has been reached.
Advances(s, to) ==
    /\ to \in Known /\ (s \in Taken => to \in Taken)
    /\ \A type : s \in Reached(type) => to \in Reached(type)

LEMMA StartAdvances ==
  ASSUME NEW s \in Known, NEW type PROVE Advances(s, StartState(s, type))
<1>1. \/ StartState(s, type) = s
      \/ s = "SELECTED" /\ StartState(s, type) = "PLANNING"
      \/ s \in {"PLANNING", "VALIDATING"} /\ StartState(s, type) = "BUILDING"
      \/ s = "BUILDING" /\ StartState(s, type) = "VALIDATING"
      \/ s = "READY_TO_DEPLOY" /\ StartState(s, type) = "DEPLOYING"
  BY MovesOfChain DEF StartState
<1>2. QED
  BY <1>1 DEF Advances, Known, Taken, Reached

LEMMA SuccessAdvances ==
  ASSUME NEW s \in Known, NEW type PROVE Advances(s, SuccessState(s, type))
<1>1. \/ SuccessState(s, type) = s
      \/ s \in {"VALIDATING", "DEPLOYING"} /\ SuccessState(s, type) = "READY_TO_DEPLOY"
      \/ s = "DEPLOYING" /\ SuccessState(s, type) = "LIVE"
  BY MovesOfChain DEF SuccessState
<1>2. QED
  BY <1>1 DEF Advances, Known, Taken, Reached

LEMMA SelectedAdvances ==
  ASSUME NEW s \in Known PROVE Advances(s, Selected(s)) /\ Selected(s) \in Taken
<1>1. \/ s \in {"DISCOVERED", "SCORED"} /\ Selected(s) = "SELECTED"
      \/ s \in Taken /\ Selected(s) = s
  BY DEF Selected, Recoverable, Known, Taken
<1>2. QED
  BY <1>1 DEF Advances, Known, Taken, Reached

LEMMA AbandonAdvances == ASSUME NEW s \in Known PROVE Advances(s, "ABANDONED")
BY DEF Advances, Known, Taken, Reached

LEMMA StayAdvances == ASSUME NEW s \in Known PROVE Advances(s, s)
BY DEF Advances

\* The move at the start of a main task whose dependency has SUCCEEDED, and the
\* one at its success, arrive.
LEMMA MainArrives ==
  ASSUME NEW s \in Known, NEW type
  PROVE  /\ type = "PLAN" /\ s \in Taken => StartState(s, type) \in Entered(type)
         /\ type \in DOMAIN Earlier /\ s \in Reached(Earlier[type]) =>
               StartState(s, type) \in Entered(type)
         /\ s \in Entered(type) => SuccessState(s, type) \in Reached(type)
<1>1. CASE type = "PLAN"
  <2>1. StartState(s, type) = (IF s = "SELECTED" THEN "PLANNING" ELSE s)
        /\ SuccessState(s, type) = s
    BY <1>1, MovesOfChain DEF StartState, SuccessState
  <2>2. QED
    BY <1>1, <2>1 DEF Entered, Reached, Earlier, Taken
<1>2. CASE type = "BUILD_PAGE"
  <2>1. StartState(s, type) = (IF s \in {"PLANNING", "VALIDATING"} THEN "BUILDING" ELSE s)
        /\ SuccessState(s, type) = s /\ Earlier[type] = "PLAN"
    BY <1>2, MovesOfChain DEF StartState, SuccessState, Earlier
  <2>2. QED
    BY <1>2, <2>1 DEF Entered, Reached, Taken
<1>3. CASE type = "VALIDATE_PAGE"
  <2>1. /\ StartState(s, type) = IF s = "BUILDING" THEN "VALIDATING" ELSE s
        /\ SuccessState(s, type) =
              IF s \in {"VALIDATING", "DEPLOYING"} THEN "READY_TO_DEPLOY" ELSE s
        /\ Earlier[type] = "BUILD_PAGE"
    BY <1>3, MovesOfChain DEF StartState, SuccessState, Earlier
  <2>2. QED
    BY <1>3, <2>1 DEF Entered, Reached, Taken
<1>4. CASE type = "DEPLOY"
  <2>1. /\ StartState(s, type) = IF s = "READY_TO_DEPLOY" THEN "DEPLOYING" ELSE s
        /\ SuccessState(s, type) = IF s = "DEPLOYING" THEN "LIVE" ELSE s
        /\ Earlier[type] = "VALIDATE_PAGE"
    BY <1>4, MovesOfChain DEF StartState, SuccessState, Earlier
  <2>2. QED
    BY <1>4, <2>1 DEF Entered, Reached, Taken
<1>5. CASE type \notin Main
  <2>1. type \notin DOMAIN Earlier /\ Reached(type) = Known /\ type # "PLAN"
    BY <1>5 DEF Main, Earlier, Reached
  <2>2. SuccessState(s, type) \in Known
    BY SuccessAdvances DEF Advances
  <2>3. QED
    BY <2>1, <2>2
<1>6. QED
  BY <1>1, <1>2, <1>3, <1>4, <1>5 DEF Main

LEMMA FaithfulAdvances ==
  ASSUME NEW p, NEW s \in Known, NEW to, Advances(s, to)
  PROVE  /\ Faithful(p, s) => Faithful(p, to)
         /\ InHand(p, s) => InHand(p, to)
BY DEF Advances, Faithful, Followed, InHand

LEMMA EmptyFaithful == \A s : Faithful(EmptyQueue, s) /\ InHand(EmptyQueue, s)
<1>1. \A t \in Task : EmptyQueue[t].status = "ABSENT"
  BY DEF EmptyQueue, NoTask
<1>2. QED
  BY <1>1 DEF Faithful, Wired, Followed, InHand

\* An operation that lets no task succeed.
NoneSucceeds(p, r) == \A t \in Task : r[t].status = "SUCCEEDED" => p[t].status = "SUCCEEDED"

LEMMA EvolvesWired ==
  ASSUME NEW p \in Queue, NEW r, NEW opened, Evolves(p, r, opened), Wired(p)
  PROVE  Wired(r)
<1> SUFFICES ASSUME NEW t \in Task, r[t].status # "ABSENT",
                    r[t].idempotency_key \in DOMAIN Earlier
             PROVE  \E d \in r[t].depends_on :
                       r[d].status # "ABSENT" /\ r[d].idempotency_key = Earlier[r[t].idempotency_key]
  BY DEF Wired
<1>1. \A u \in Task : /\ r[u].depends_on = p[u].depends_on
                      /\ r[u].idempotency_key = p[u].idempotency_key
                      /\ p[u].status = "ABSENT" <=> r[u].status = "ABSENT"
  BY DEF Evolves, TaskEvolves
<1>2. PICK d \in p[t].depends_on :
         p[d].status # "ABSENT" /\ p[d].idempotency_key = Earlier[p[t].idempotency_key]
  BY <1>1 DEF Wired
<1>3. d \in Task
  BY <1>2, RecordOfTask DEF TaskRecord
<1>4. QED
  BY <1>1, <1>2, <1>3

LEMMA EvolvesFaithful ==
  ASSUME NEW p \in Queue, NEW r, NEW opened, NEW s, Evolves(p, r, opened), NoneSucceeds(p, r)
  PROVE  /\ Faithful(p, s) => Faithful(r, s)
         /\ InHand(p, s) => InHand(r, s)
<1>1. Faithful(p, s) => Followed(r, s)
  BY DEF Evolves, TaskEvolves, NoneSucceeds, Faithful, Followed
<1>2. InHand(p, s) => InHand(r, s)
  BY DEF Evolves, TaskEvolves, InHand
<1>3. QED
  BY <1>1, <1>2, EvolvesWired DEF Faithful


LEMMA ResolveFaithful ==
  ASSUME NEW p \in Queue, NEW s
  PROVE  /\ Faithful(p, s) => Faithful(ResolveDependencies(p), s)
         /\ InHand(p, s) => InHand(ResolveDependencies(p), s)
<1>1. NoneSucceeds(p, ResolveDependencies(p))
  <2> SUFFICES ASSUME NEW t \in Task, ResolveDependencies(p)[t].status = "SUCCEEDED"
               PROVE  p[t].status = "SUCCEEDED"
    BY DEF NoneSucceeds
  <2>1. QED
    BY RecordOfTask DEF ResolveDependencies, TaskRecord
<1>2. QED
  BY <1>1, ResolveEvolves, EvolvesFaithful

LEMMA TimersFaithful ==
  ASSUME NEW p \in Queue, NEW s
  PROVE  /\ Faithful(p, s) => Faithful(ReclaimStale(p), s) /\ Faithful(RequeueDue(p), s)
                              /\ Faithful(Elapse(p), s)
         /\ InHand(p, s) => InHand(ReclaimStale(p), s) /\ InHand(RequeueDue(p), s)
                            /\ InHand(Elapse(p), s)
<1>1. \A t \in Task : p[t] \in TaskRecord
  BY RecordOfTask
<1>2. NoneSucceeds(p, ReclaimStale(p)) /\ NoneSucceeds(p, RequeueDue(p))
  BY <1>1 DEF NoneSucceeds, ReclaimStale, RequeueDue, TaskRecord
<1>3. NoneSucceeds(p, Elapse(p))
  BY ElapseEvolves DEF NoneSucceeds
<1>4. QED
  BY <1>2, <1>3, ReclaimEvolves, RequeueEvolves, ElapseEvolves, EvolvesFaithful

LEMMA HousekeptFaithful ==
  ASSUME NEW p \in Queue, NEW s, Faithful(p, s), InHand(p, s)
  PROVE  Faithful(Housekept(p), s) /\ InHand(Housekept(p), s)
<1> DEFINE p1 == ReclaimStale(p)
           p2 == RequeueDue(p1)
<1>1. p1 \in Queue /\ Faithful(p1, s) /\ InHand(p1, s)
  BY ReclaimEvolves, TimersFaithful
<1> HIDE DEF p1
<1>2. p2 \in Queue /\ Faithful(p2, s) /\ InHand(p2, s)
  BY <1>1, RequeueEvolves, TimersFaithful
<1>3. Housekept(p) = ResolveDependencies(p2)
  BY DEF Housekept, p1
<1> HIDE DEF p2
<1>4. QED
  BY <1>2, <1>3, ResolveFaithful

LEMMA OneTaskFaithful ==
  ASSUME NEW p \in Queue, NEW t \in Task, NEW s
  PROVE  /\ p[t].status = "READY" => NoneSucceeds(p, Claim(p, t))
         /\ NoneSucceeds(p, BlockForApproval(p, t)) /\ NoneSucceeds(p, Unblock(p, t))
         /\ \A retryable \in BOOLEAN : NoneSucceeds(p, MarkFailed(p, t, retryable))
         /\ NoneSucceeds(p, CancelAll(p))
<1>1. \A u \in Task : p[u] \in TaskRecord
  BY RecordOfTask
<1>2. NoneSucceeds(p, Claim(p, t))
  BY <1>1 DEF NoneSucceeds, Claim, Queue, TaskRecord
<1>3. NoneSucceeds(p, BlockForApproval(p, t)) /\ NoneSucceeds(p, Unblock(p, t))
  BY <1>1 DEF NoneSucceeds, BlockForApproval, Unblock, Queue, TaskRecord
<1>4. ASSUME NEW retryable \in BOOLEAN PROVE NoneSucceeds(p, MarkFailed(p, t, retryable))
  BY <1>1 DEF NoneSucceeds, MarkFailed, Queue, TaskRecord
<1>5. NoneSucceeds(p, CancelAll(p))
  BY <1>1 DEF NoneSucceeds, CancelAll, TaskRecord
<1>6. QED
  BY <1>2, <1>3, <1>4, <1>5

LEMMA ClaimFaithful ==
  ASSUME NEW p \in Queue, NEW t \in Task, NEW s, p[t].status = "READY"
  PROVE  /\ Faithful(p, s) => Faithful(Claim(p, t), s)
         /\ InHand(p, s) => InHand(Claim(p, t), s)
BY OneTaskFaithful, ClaimEvolves, EvolvesFaithful

LEMMA BlockFaithful ==
  ASSUME NEW p \in Queue, NEW t \in Task, NEW s, p[t].status \in {"READY", "RUNNING"}
  PROVE  /\ Faithful(p, s) => Faithful(BlockForApproval(p, t), s)
         /\ InHand(p, s) => InHand(BlockForApproval(p, t), s)
BY OneTaskFaithful, BlockEvolves, EvolvesFaithful

LEMMA FailFaithful ==
  ASSUME NEW p \in Queue, NEW t \in Task, NEW s, NEW retryable \in BOOLEAN,
         p[t].status = "RUNNING"
  PROVE  /\ Faithful(p, s) => Faithful(MarkFailed(p, t, retryable), s)
         /\ InHand(p, s) => InHand(MarkFailed(p, t, retryable), s)
BY OneTaskFaithful, FailEvolves, EvolvesFaithful

\* The task that does succeed is one whose state has been reached.
LEMMA SucceedFaithful ==
  ASSUME NEW p \in Queue, NEW t \in Task, NEW s, p[t].status = "RUNNING",
         Faithful(p, s), s \in Reached(p[t].idempotency_key)
  PROVE  /\ Faithful(MarkSucceeded(p, t), s)
         /\ InHand(p, s) => InHand(MarkSucceeded(p, t), s)
<1> DEFINE r == MarkSucceeded(p, t)
<1>1. Evolves(p, r, {})
  BY SucceedEvolves
<1>2. \A u \in Task : r[u].status = "SUCCEEDED" => u = t \/ p[u].status = "SUCCEEDED"
  BY DEF MarkSucceeded, Queue
<1> HIDE DEF r
<1>3. Wired(r)
  BY <1>1, EvolvesWired DEF Faithful
<1>4. Followed(r, s)
  BY <1>1, <1>2 DEF Evolves, TaskEvolves, Followed, Faithful
<1>5. InHand(p, s) => InHand(r, s)
  BY <1>1 DEF Evolves, TaskEvolves, InHand
<1>6. QED
  BY <1>3, <1>4, <1>5 DEF Faithful, r

-----------------------------------------------------------------------------
(* accept's loop wires the chain: when a round creates a main task, the    *)
(* round before it has left one of the task it waits for.                  *)
LEMMA CreateFaithful ==
  ASSUME NEW p \in Queue, NEW last \in Nat, NEW opened, Sound(p, last, opened),
         last + 1 <= MaxTasks, NEW key \in Key, NEW needs, NEW approval \in BOOLEAN, NEW s,
         Faithful(p, s),
         key \in DOMAIN Earlier => Earlier[key] \in needs /\ SameKey(p, Earlier[key]) # {}
  PROVE  /\ Faithful(CreateTask(p, last + 1, key, needs, approval), s)
         /\ InHand(p, s) /\ key # "PLAN" =>
               InHand(CreateTask(p, last + 1, key, needs, approval), s)
<1> DEFINE t == last + 1
           deps == UNION {SameKey(p, d) : d \in needs}
           task == NewTask(key, deps, 5, approval, 0)
           r == CreateTask(p, t, key, needs, approval)
<1>1. t \in Task
  BY TaskConstants DEF Task
<1>2. /\ task.status = "PENDING" /\ task.idempotency_key = key /\ task.depends_on = deps
  BY DEF NewTask, NoTask
<1>3. r = IF SameKey(p, task.idempotency_key) # {} THEN p ELSE [p EXCEPT ![t] = task]
  BY DEF CreateTask, Add
<1>4. key \in DOMAIN Earlier => \E d \in deps : d \in SameKey(p, Earlier[key])
  OBVIOUS
<1> HIDE DEF task, deps, r
<1>5. CASE r = p
  BY <1>5 DEF r
<1>6. CASE r = [p EXCEPT ![t] = task]
  <2>1. r[t] = task /\ \A u \in Task \ {t} : r[u] = p[u]
    BY <1>1, <1>6 DEF Queue
  <2>2. p[t].status = "ABSENT"
    BY <1>1 DEF Sound, Given
  <2>3. Wired(r)
    <3> SUFFICES ASSUME NEW u \in Task, r[u].status # "ABSENT",
                        r[u].idempotency_key \in DOMAIN Earlier
                 PROVE  \E d \in r[u].depends_on :
                           r[d].status # "ABSENT" /\ r[d].idempotency_key = Earlier[r[u].idempotency_key]
      BY DEF Wired
    <3>1. CASE u = t
      <4>1. PICK d \in deps : d \in SameKey(p, Earlier[key])
        BY <1>2, <1>4, <2>1, <3>1
      <4>2. d \in Task /\ p[d].status # "ABSENT" /\ p[d].idempotency_key = Earlier[key]
        BY <4>1 DEF SameKey, ByStatus, Live
      <4>3. d # t
        BY <2>2, <4>2
      <4>4. QED
        BY <1>2, <2>1, <3>1, <4>1, <4>2, <4>3
    <3>2. CASE u # t
      <4>1. PICK d \in p[u].depends_on :
               p[d].status # "ABSENT" /\ p[d].idempotency_key = Earlier[p[u].idempotency_key]
        BY <2>1, <3>2 DEF Faithful, Wired
      <4>2. d \in Task /\ d # t
        BY <2>2, <4>1, RecordOfTask DEF TaskRecord
      <4>3. QED
        BY <2>1, <3>2, <4>1, <4>2
    <3>3. QED
      BY <3>1, <3>2
  <2>4. Followed(r, s)
    BY <1>2, <2>1 DEF Faithful, Followed
  <2>5. InHand(p, s) /\ key # "PLAN" => InHand(r, s)
    BY <1>2, <2>1 DEF InHand
  <2>6. QED
    BY <2>3, <2>4, <2>5 DEF Faithful, r
<1>7. QED
  BY <1>3, <1>5, <1>6

\* Between two rounds: done is the part of the chain the loop has been through.
Woven(x, opened, s, done) ==
    /\ Roomy(x, opened) /\ Faithful(x.queue, s)
    /\ \A k \in done \cap Key : SameKey(x.queue, k) # {}

LEMMA ExtendWoven ==
  ASSUME NEW x, NEW opened, NEW s, NEW done \in SUBSET ChainTypes, NEW type \in ChainTypes,
         Woven(x, opened, s, done),
         type \in DOMAIN Earlier => Earlier[type] \in Needs[type] \cap done \cap Key
  PROVE  Woven(Extend(x, type), opened, s, done \cup {type})
<1>1. Roomy(Extend(x, type), opened)
  BY ExtendRoomy DEF Woven
<1>2. CASE type \notin Missing(x.queue, Key)
  BY <1>2 DEF Extend, Woven, Missing
<1>3. CASE type \in Missing(x.queue, Key)
  <2> DEFINE approval == (type = "DEPLOY")
             needs == Needs[type] \cap Key
             r == CreateTask(x.queue, x.last + 1, type, needs, approval)
  <2>1. type \in Key /\ SameKey(x.queue, type) = {} /\ type \in Missing(x.queue, ChainKeys)
    BY <1>3 DEF Missing, ChainKeys
  <2>2. x.last + 1 <= MaxTasks
    <3>1. Cardinality(Missing(x.queue, ChainKeys)) \in Nat /\ IsFiniteSet(Missing(x.queue, ChainKeys))
      BY MissingFinite
    <3>2. Cardinality(Missing(x.queue, ChainKeys)) # 0
      BY <2>1, <3>1, FS_EmptySet
    <3>3. QED
      BY <3>1, <3>2, TaskConstants DEF Woven, Roomy
  <2>3. type \in DOMAIN Earlier => Earlier[type] \in needs /\ SameKey(x.queue, Earlier[type]) # {}
    BY DEF Woven
  <2>4. Extend(x, type) = [queue |-> r, last |-> x.last + 1]
    BY <1>3 DEF Extend
  <2>5. approval \in BOOLEAN /\ (type = "DEPLOY" => approval)
    OBVIOUS
  <2> HIDE DEF approval, needs
  <2>6. Faithful(r, s)
    BY <2>1, <2>2, <2>3, <2>5, CreateFaithful DEF Woven, Roomy
  <2>7. \A k \in Key : SameKey(r, k) = {} <=> SameKey(x.queue, k) = {} /\ k # type
    BY <2>1, <2>2, <2>5, CreateSound DEF Woven, Roomy
  <2>8. Extend(x, type).queue = r
    BY <2>4
  <2> HIDE DEF r
  <2>9. QED
    BY <1>1, <2>6, <2>7, <2>8 DEF Woven
<1>4. QED
  BY <1>2, <1>3

LEMMA ExtendedFaithful ==
  ASSUME {"PLAN", "BUILD_PAGE", "VALIDATE_PAGE"} \subseteq Key,
         NEW p \in Queue, NEW last \in Nat, NEW opened, NEW s, Sound(p, last, opened),
         last + Cardinality(Missing(p, ChainKeys)) <= MaxTasks, Faithful(p, s)
  PROVE  Faithful(Extended(p, last).queue, s)
<1> DEFINE x0 == [queue |-> p, last |-> last]
           x1 == Extend(x0, "PLAN")
           x2 == Extend(x1, "BUILD_PRODUCT")
           x3 == Extend(x2, "BUILD_PAGE")
           x4 == Extend(x3, "VALIDATE_PRODUCT")
           x5 == Extend(x4, "VALIDATE_PAGE")
           x6 == Extend(x5, "DEPLOY")
<1>1. Extended(p, last) = x6
  BY DEF Extended, Chain
<1>2. /\ ChainTypes = {"PLAN", "BUILD_PRODUCT", "BUILD_PAGE", "VALIDATE_PRODUCT",
                       "VALIDATE_PAGE", "DEPLOY"}
      /\ DOMAIN Earlier = {"BUILD_PAGE", "VALIDATE_PAGE", "DEPLOY"}
      /\ Earlier["BUILD_PAGE"] = "PLAN" /\ Needs["BUILD_PAGE"] = {"PLAN"}
      /\ Earlier["VALIDATE_PAGE"] = "BUILD_PAGE" /\ Needs["VALIDATE_PAGE"] = {"BUILD_PAGE"}
      /\ Earlier["DEPLOY"] = "VALIDATE_PAGE" /\ Needs["DEPLOY"] = {"BUILD_PAGE", "VALIDATE_PAGE"}
  BY DEF ChainTypes, Needs, Earlier
<1> DEFINE d0 == {}
           d1 == d0 \cup {"PLAN"}
           d2 == d1 \cup {"BUILD_PRODUCT"}
           d3 == d2 \cup {"BUILD_PAGE"}
           d4 == d3 \cup {"VALIDATE_PRODUCT"}
           d5 == d4 \cup {"VALIDATE_PAGE"}
           d6 == d5 \cup {"DEPLOY"}
<1>3. /\ {d0, d1, d2, d3, d4, d5} \subseteq SUBSET ChainTypes
      /\ "PLAN" \in d2 /\ "BUILD_PAGE" \in d4 /\ "VALIDATE_PAGE" \in d5
  BY <1>2
<1>4. Woven(x0, opened, s, d0)
  BY DEF Woven, Roomy
<1> HIDE DEF x0, d0
<1>5. Woven(x1, opened, s, d1)
  BY <1>2, <1>3, <1>4, ExtendWoven
<1> HIDE DEF x1, d1
<1>6. Woven(x2, opened, s, d2)
  BY <1>2, <1>3, <1>5, ExtendWoven
<1> HIDE DEF x2, d2
<1>7. Woven(x3, opened, s, d3)
  <2>1. /\ "BUILD_PAGE" \in ChainTypes /\ d2 \in SUBSET ChainTypes
        /\ Earlier["BUILD_PAGE"] \in Needs["BUILD_PAGE"] \cap d2 \cap Key
    BY <1>2, <1>3
  <2>2. QED
    BY <1>6, <2>1, ExtendWoven
<1> HIDE DEF x3, d3
<1>8. Woven(x4, opened, s, d4)
  BY <1>2, <1>3, <1>7, ExtendWoven
<1> HIDE DEF x4, d4
<1>9. Woven(x5, opened, s, d5)
  <2>1. /\ "VALIDATE_PAGE" \in ChainTypes /\ d4 \in SUBSET ChainTypes
        /\ Earlier["VALIDATE_PAGE"] \in Needs["VALIDATE_PAGE"] \cap d4 \cap Key
    BY <1>2, <1>3
  <2>2. QED
    BY <1>8, <2>1, ExtendWoven
<1> HIDE DEF x5, d5
<1>10. Woven(x6, opened, s, d6)
  <2>1. /\ "DEPLOY" \in ChainTypes /\ d5 \in SUBSET ChainTypes
        /\ Earlier["DEPLOY"] \in Needs["DEPLOY"] \cap d5 \cap Key
    BY <1>2, <1>3
  <2>2. QED
    BY <1>9, <2>1, ExtendWoven
<1>11. QED
  BY <1>1, <1>10 DEF Woven

-----------------------------------------------------------------------------
(* The steps.                                                              *)

\* What a step of worker w does: the state advances, its own copy and the
\* file stay faithful, the others' copies stay as they are.
WorkerFollows(w) ==
    /\ Advances(opp.state, opp'.state)
    /\ Faithful(tasks', opp'.state) /\ (InHand(tasks, opp.state) => InHand(tasks', opp'.state))
    /\ Faithful(wq'[w], opp'.state) /\ InHand(wq'[w], opp'.state)
    /\ pc'[w] \in {"started", "ran"} => opp'.state \in Entered(wq'[w][wtask'[w]].idempotency_key)

\* What FollowInv says of worker w.
LEMMA FollowFacts ==
  ASSUME IInv, FollowInv, NEW w \in Worker
  PROVE  /\ opp.state \in Known /\ Advances(opp.state, opp.state)
         /\ tasks \in Queue /\ Faithful(tasks, opp.state)
         /\ wq[w] \in Queue /\ Faithful(wq[w], opp.state) /\ InHand(wq[w], opp.state)
         /\ w \in Process
         /\ \A c : pc' = [pc EXCEPT ![w] = c] => pc'[w] = c
         /\ \A x : wq' = [wq EXCEPT ![w] = x] => wq'[w] = x
         /\ \A k : wtask' = [wtask EXCEPT ![w] = k] => wtask'[w] = k
<1>1. w \in Process
  BY DEF Process
<1>2. QED
  BY <1>1, StayAdvances DEF FollowInv, IInv, TypeOK

LEMMA ForgetFollows ==
  ASSUME IInv, FollowInv, NEW w \in Worker, Forget(w), UNCHANGED opp,
         Faithful(tasks', opp.state), InHand(tasks, opp.state) => InHand(tasks', opp.state)
  PROVE  WorkerFollows(w)
<1>1. pc'[w] = "idle" /\ wq'[w] = EmptyQueue
  BY FollowFacts DEF Forget
<1>2. Faithful(EmptyQueue, opp.state) /\ InHand(EmptyQueue, opp.state)
  BY EmptyFaithful
<1>3. QED
  BY <1>1, <1>2, FollowFacts DEF WorkerFollows

LEMMA LoadFollows ==
  ASSUME ~Overlap, IInv, FollowInv, NEW w \in Worker, LoadQueue(w) PROVE WorkerFollows(w)
<1>1. \A o \in Process : pc[o] = "idle"
  BY DEF LoadQueue, MayStart
<1>2. ~Accepting
  BY <1>1 DEF Accepting, Process
<1>3. Faithful(Housekept(tasks), opp.state) /\ InHand(Housekept(tasks), opp.state)
  BY <1>2, FollowFacts, HousekeptFaithful DEF FollowInv
<1>4. /\ pc'[w] = "loaded" /\ wq'[w] = Housekept(tasks) /\ UNCHANGED <<tasks, opp>>
  BY FollowFacts DEF LoadQueue
<1>5. QED
  BY <1>3, <1>4, FollowFacts DEF WorkerFollows

LEMMA NothingReadyFollows ==
  ASSUME IInv, FollowInv, NEW w \in Worker, NothingReady(w) PROVE WorkerFollows(w)
BY FollowFacts, ForgetFollows DEF NothingReady

LEMMA GateStopsFollows ==
  ASSUME IInv, FollowInv, NEW w \in Worker, GateStops(w) PROVE WorkerFollows(w)
<1>1. PICK t \in NextReady(wq[w]) :
        \/ tasks' = ResolveDependencies(BlockForApproval(wq[w], t))
        \/ tasks' = ResolveDependencies(MarkFailed(Claim(wq[w], t), t, FALSE))
  BY DEF GateStops
<1> DEFINE p == wq[w]
           s == opp.state
           c == Claim(p, t)
           b == BlockForApproval(p, t)
           f == MarkFailed(c, t, FALSE)
<1>2. p \in Queue /\ Faithful(p, s) /\ InHand(p, s) /\ t \in Task /\ p[t].status = "READY"
  BY FollowFacts, NextReadyIsReady
<1> HIDE DEF p, s
<1>3. b \in Queue /\ Faithful(b, s) /\ InHand(b, s)
  BY <1>2, BlockEvolves, BlockFaithful
<1>4. c \in Queue /\ Faithful(c, s) /\ InHand(c, s) /\ c[t].status = "RUNNING"
  BY <1>2, ClaimEvolves, ClaimFaithful
<1> HIDE DEF c
<1>5. f \in Queue /\ Faithful(f, s) /\ InHand(f, s)
  BY <1>2, <1>4, FailEvolves, FailFaithful
<1>6. tasks' = ResolveDependencies(b) \/ tasks' = ResolveDependencies(f)
  BY <1>1 DEF p, c
<1> HIDE DEF b, f
<1>7. Faithful(tasks', s) /\ InHand(tasks', s)
  BY <1>3, <1>5, <1>6, ResolveFaithful
<1>8. QED
  BY <1>7, ForgetFollows DEF GateStops, s

LEMMA ClaimFollows ==
  ASSUME IInv, FollowInv, NEW w \in Worker, ClaimReady(w) PROVE WorkerFollows(w)
<1>1. PICK t \in NextReady(wq[w]) : /\ wq' = [wq EXCEPT ![w] = Claim(wq[w], t)]
                                    /\ tasks' = Claim(wq[w], t)
  BY DEF ClaimReady
<1>2. Faithful(Claim(wq[w], t), opp.state) /\ InHand(Claim(wq[w], t), opp.state)
  BY FollowFacts, NextReadyIsReady, ClaimFaithful
<1>3. pc'[w] = "claimed" /\ wq'[w] = Claim(wq[w], t) /\ UNCHANGED opp
  BY <1>1, FollowFacts DEF ClaimReady
<1>4. QED
  BY <1>1, <1>2, <1>3, FollowFacts DEF WorkerFollows

\* A main task that runs is entered: its dependency has SUCCEEDED.
LEMMA RunningEnters ==
  ASSUME NEW p \in Queue, NEW last, NEW opened, NEW s \in Known, NEW t \in Task,
         Sound(p, last, opened), Faithful(p, s), InHand(p, s), p[t].status = "RUNNING"
  PROVE  LET type == p[t].idempotency_key
         IN  \/ type \notin Main
             \/ type = "PLAN" /\ s \in Taken
             \/ type \in DOMAIN Earlier /\ s \in Reached(Earlier[type])
<1> DEFINE type == p[t].idempotency_key
<1>1. CASE type \in DOMAIN Earlier
  <2>1. PICK d \in p[t].depends_on : p[d].idempotency_key = Earlier[type]
    BY <1>1 DEF Faithful, Wired
  <2>2. d \in Task /\ p[d].status = "SUCCEEDED"
    BY <2>1, RecordOfTask DEF Sound, Ordered, Eligible, DepsSucceeded, TaskRecord
  <2>3. s \in Reached(Earlier[type])
    BY <2>1, <2>2 DEF Faithful, Followed
  <2>4. QED
    BY <1>1, <2>3
<1>2. CASE type = "PLAN"
  BY <1>2 DEF InHand
<1>3. QED
  BY <1>1, <1>2 DEF Main, Earlier

LEMMA EnterStateFollows ==
  ASSUME IInv, FollowInv, NEW w \in Worker, EnterState(w) PROVE WorkerFollows(w)
<1> DEFINE t == wtask[w]
           type == wq[w][t].idempotency_key
           s == opp.state
<1>1. Executing(w) /\ UNCHANGED <<tasks, wq, wtask>> /\ pc'[w] = "started"
  BY FollowFacts DEF EnterState, Executing
<1>2. opp'.state = StartState(s, TypeOf(wq[w], t))
  BY WorkerFacts DEF EnterState, OppRecord
<1>3. s \in Known /\ Advances(s, opp'.state)
  BY <1>2, FollowFacts, StartAdvances
<1>4. \/ type \notin Main
      \/ type = "PLAN" /\ s \in Taken
      \/ type \in DOMAIN Earlier /\ s \in Reached(Earlier[type])
  BY <1>1, <1>3, WorkerFacts, FollowFacts, RunningEnters
<1>5. type \in Main => TypeOf(wq[w], t) = type
  BY DEF TypeOf, Main
<1>6. type \notin Main => Entered(type) = Known
  BY DEF Main, Entered
<1>7. type = "PLAN" => type \in Main
  BY DEF Main
<1>8. type \in DOMAIN Earlier => type \in Main
  BY DEF Main, Earlier
<1>9. opp'.state \in Entered(type)
  BY <1>2, <1>3, <1>4, <1>5, <1>6, <1>7, <1>8, MainArrives DEF Advances
<1>10. Faithful(tasks, opp'.state) /\ (InHand(tasks, s) => InHand(tasks, opp'.state))
  BY <1>3, FollowFacts, FaithfulAdvances
<1>11. Faithful(wq[w], opp'.state) /\ InHand(wq[w], opp'.state)
  BY <1>3, FollowFacts, FaithfulAdvances
<1>12. QED
  BY <1>1, <1>3, <1>9, <1>10, <1>11 DEF WorkerFollows

LEMMA RunAdapterFollows ==
  ASSUME IInv, FollowInv, NEW w \in Worker, RunAdapter(w) PROVE WorkerFollows(w)
<1>1. /\ pc[w] = "started" /\ pc'[w] = "ran" /\ UNCHANGED <<tasks, opp, wq, wtask>>
  BY FollowFacts DEF RunAdapter
<1>2. opp.state \in Entered(wq[w][wtask[w]].idempotency_key)
  BY <1>1 DEF FollowInv
<1>3. QED
  BY <1>1, <1>2, FollowFacts DEF WorkerFollows

LEMMA RecordSuccessFollows ==
  ASSUME IInv, FollowInv, NEW w \in Worker, RecordSuccess(w) PROVE WorkerFollows(w)
<1> DEFINE t == wtask[w]
           type == wq[w][t].idempotency_key
           s == opp.state
           x == MarkSucceeded(wq[w], t)
<1>1. /\ Executing(w) /\ UNCHANGED tasks /\ pc[w] = "ran" /\ pc'[w] = "recorded" /\ wq'[w] = x
  BY FollowFacts DEF RecordSuccess, Executing
<1>2. opp'.state = SuccessState(s, TypeOf(wq[w], t))
  <2>1. opp' = [opp EXCEPT !.state = SuccessState(opp.state, TypeOf(wq[w], t)),
                           !.deployment = opp.deployment \/ TypeOf(wq[w], t) = "DEPLOY"]
    BY DEF RecordSuccess
  <2>2. QED
    BY <2>1, WorkerFacts DEF OppRecord
<1>3. s \in Known /\ Advances(s, opp'.state)
  BY <1>2, FollowFacts, SuccessAdvances
<1>4. s \in Entered(type)
  BY <1>1 DEF FollowInv
<1>5. type \in Main => TypeOf(wq[w], t) = type
  BY DEF TypeOf, Main
<1>6. type \notin Main => Reached(type) = Known
  BY DEF Main, Reached
<1>7. opp'.state \in Reached(type)
  BY <1>2, <1>3, <1>4, <1>5, <1>6, MainArrives DEF Advances
<1>8. Faithful(wq[w], opp'.state) /\ InHand(wq[w], opp'.state)
  BY <1>3, FollowFacts, FaithfulAdvances
<1>9. Faithful(x, opp'.state) /\ InHand(x, opp'.state)
  BY <1>1, <1>7, <1>8, WorkerFacts, SucceedFaithful
<1>10. Faithful(tasks, opp'.state) /\ (InHand(tasks, s) => InHand(tasks, opp'.state))
  BY <1>3, FollowFacts, FaithfulAdvances
<1>11. QED
  BY <1>1, <1>3, <1>9, <1>10 DEF WorkerFollows

LEMMA RecordFailureFollows ==
  ASSUME IInv, FollowInv, NEW w \in Worker, RecordFailure(w) PROVE WorkerFollows(w)
<1> DEFINE retry == (outcome[w] = "retry")
           blocked == BlockForApproval(wq[w], wtask[w])
           failed == MarkFailed(wq[w], wtask[w], retry)
<1>1. Executing(w) /\ retry \in BOOLEAN
  BY DEF RecordFailure, Executing
<1>2. wq' = [wq EXCEPT ![w] = IF outcome[w] = "approval" THEN blocked ELSE failed]
  BY DEF RecordFailure
<1> HIDE DEF retry
<1>3. /\ Faithful(blocked, opp.state) /\ InHand(blocked, opp.state)
      /\ Faithful(failed, opp.state) /\ InHand(failed, opp.state)
  BY <1>1, WorkerFacts, FollowFacts, BlockFaithful, FailFaithful
<1> HIDE DEF blocked, failed
<1>4. wq'[w] \in {blocked, failed} /\ pc'[w] = "recorded" /\ UNCHANGED <<tasks, opp>>
  BY <1>2, FollowFacts DEF RecordFailure
<1>5. QED
  BY <1>3, <1>4, FollowFacts DEF WorkerFollows

LEMMA SaveQueueFollows ==
  ASSUME IInv, FollowInv, NEW w \in Worker, SaveQueue(w) PROVE WorkerFollows(w)
<1>1. Faithful(ResolveDependencies(wq[w]), opp.state) /\ InHand(ResolveDependencies(wq[w]), opp.state)
  BY FollowFacts, ResolveFaithful
<1>2. QED
  BY <1>1, ForgetFollows DEF SaveQueue

LEMMA CrashWorkerFollows ==
  ASSUME IInv, FollowInv, NEW w \in Worker, CrashWorker(w) PROVE WorkerFollows(w)
BY FollowFacts, ForgetFollows DEF CrashWorker

LEMMA WorkerFollow ==
  ASSUME ~Overlap, IInv, FollowInv, NEW w \in Worker,
         LoadQueue(w) \/ TickSteps(w) \/ CrashWorker(w)
  PROVE  WorkerFollows(w)
BY LoadFollows, NothingReadyFollows, GateStopsFollows, ClaimFollows, EnterStateFollows,
   RunAdapterFollows, RecordSuccessFollows, RecordFailureFollows, SaveQueueFollows,
   CrashWorkerFollows DEF TickSteps

LEMMA WorkerFollowStep ==
  ASSUME ~Overlap, IInv, QuietInv, FollowInv, NEW w \in Worker,
         LoadQueue(w) \/ TickSteps(w) \/ CrashWorker(w)
  PROVE  FollowInv'
<1>1. WorkerFollows(w) /\ UNCHANGED hopp
  BY WorkerFollow, WorkerQuiet
<1>2. PICK c : pc' = [pc EXCEPT ![w] = c]
  BY WorkerQuiet
<1>3. pc[w] # "idle" \/ \A o \in Process : pc[o] = "idle"
  BY DEF LoadQueue, MayStart, TickSteps, NothingReady, GateStops, ClaimReady, EnterState,
     RunAdapter, RecordSuccess, RecordFailure, SaveQueue, CrashWorker
<1>4. /\ w \in Process /\ w \notin Human /\ Worker \subseteq Process /\ Human \subseteq Process
      /\ \A o \in Process \ {w} : pc'[o] = pc[o] /\ pc[o] = "idle"
  BY <1>2, <1>3, ExecutionConstants DEF Process, IInv, TypeOK, QuietInv, Serial
<1>5. \A v \in Worker \ {w} : wq'[v] = wq[v] /\ pc'[v] \notin {"started", "ran"}
  <2>1. \A v \in Worker \ {w} : wq'[v] = wq[v]
    BY WorkerQuiet DEF WorkerKeepsQuiet
  <2>2. QED
    BY <1>4, <2>1
<1>6. \A h \in Human : pc'[h] = "idle"
  BY <1>4
<1>7. ~Accepting /\ ~Accepting' /\ CommandsCurrent'
  BY <1>4, <1>6 DEF Accepting, CommandsCurrent
<1>8. ASSUME NEW v \in Worker
      PROVE  Faithful(wq'[v], opp'.state) /\ InHand(wq'[v], opp'.state)
  <2>1. CASE v = w
    BY <1>1, <2>1 DEF WorkerFollows
  <2>2. CASE v # w
    BY <1>1, <1>5, <2>2, FollowFacts, FaithfulAdvances DEF WorkerFollows
  <2>3. QED
    BY <2>1, <2>2
<1>9. ASSUME NEW v \in Worker, pc'[v] \in {"started", "ran"}
      PROVE  opp'.state \in Entered(wq'[v][wtask'[v]].idempotency_key)
  BY <1>1, <1>5, <1>9 DEF WorkerFollows
<1>10. opp'.state \in Known /\ Faithful(tasks', opp'.state) /\ InHand(tasks', opp'.state)
  BY <1>1, <1>7 DEF WorkerFollows, Advances, FollowInv
<1>11. QED
  BY <1>7, <1>8, <1>9, <1>10 DEF FollowInv

\* A human's step: nobody else is under way, the workers' copies stay, and the
\* state advances.
LEMMA HumanFollowFrame ==
  ASSUME IInv, FollowInv, UNCHANGED wq, Advances(opp.state, opp'.state),
         \A v \in Worker : pc'[v] \notin {"started", "ran"},
         Faithful(tasks', opp'.state), InHand(tasks', opp'.state) \/ Accepting',
         CommandsCurrent'
  PROVE  FollowInv'
<1>1. ASSUME NEW v \in Worker
      PROVE  Faithful(wq'[v], opp'.state) /\ InHand(wq'[v], opp'.state)
  BY FollowFacts, FaithfulAdvances
<1>2. opp'.state \in Known
  BY DEF Advances
<1>3. QED
  BY <1>1, <1>2 DEF FollowInv

LEMMA AcceptFollows ==
  ASSUME ~Overlap, {"PLAN", "BUILD_PAGE", "VALIDATE_PAGE"} \subseteq Key,
         IInv, QuietInv, FollowInv, NEW h \in Human, Accept(h)
  PROVE  FollowInv'
<1> DEFINE e == Extended(tasks, lastId)
           s == opp.state
<1>1. /\ \A o \in Process : pc[o] = "idle"
      /\ UNCHANGED <<opp, wq>>
      /\ pc' = [pc EXCEPT ![h] = "accepting"]
      /\ hopp' = [hopp EXCEPT ![h] = [opp EXCEPT !.state = Selected(s)]]
      /\ tasks' = ResolveDependencies(e.queue)
      /\ lastId + Cardinality(Missing(tasks, ChainKeys)) <= MaxTasks
  BY DEF Accept, MayStart, ChainKeys
<1>2. /\ h \in Process /\ h \notin Worker /\ (\A x \in Human : x \in Process)
      /\ (\A v \in Worker : v \in Process)
  BY ExecutionConstants DEF Process
<1>3. pc'[h] = "accepting" /\ \A o \in Process \ {h} : pc'[o] = "idle"
  BY <1>1, <1>2 DEF IInv, TypeOK
<1>4. s \in Known /\ Faithful(tasks, s)
  BY DEF FollowInv
<1>5. e.queue \in Queue
  BY <1>1, HumanFacts, ExtendedSound
<1>6. Faithful(e.queue, s)
  BY <1>1, <1>4, HumanFacts, ExtendedFaithful
<1> HIDE DEF e
<1>7. Faithful(tasks', s)
  BY <1>1, <1>5, <1>6, ResolveFaithful
<1>8. hopp'[h].state = Selected(s)
  BY <1>1, HumanFacts DEF IInv, TypeOK, OppRecord
<1>9. Accepting' /\ CommandsCurrent'
  BY <1>1, <1>2, <1>3, <1>8 DEF Accepting, CommandsCurrent
<1>10. QED
  BY <1>1, <1>2, <1>3, <1>4, <1>7, <1>9, StayAdvances, HumanFollowFrame

\* The second save of a command.
LEMMA ReturnFollows ==
  ASSUME IInv, QuietInv, FollowInv, NEW h \in Human, pc[h] # "idle", Return(h),
         UNCHANGED <<tasks, wq>>, Advances(opp.state, opp'.state),
         InHand(tasks, opp'.state)
  PROVE  FollowInv'
<1>1. /\ h \in Process /\ h \notin Worker /\ (\A x \in Human : x \in Process)
      /\ (\A v \in Worker : v \in Process)
  BY ExecutionConstants DEF Process
<1>2. \A x \in Human : pc'[x] = "idle"
  BY CommandAlone
<1>3. \A v \in Worker : pc'[v] = "idle"
  BY <1>1 DEF Return, IInv, TypeOK, QuietInv, Serial
<1>4. CommandsCurrent'
  BY <1>2 DEF CommandsCurrent
<1>5. opp.state \in Known /\ Faithful(tasks', opp'.state)
  BY FaithfulAdvances DEF FollowInv
<1>6. QED
  BY <1>3, <1>4, <1>5, HumanFollowFrame

LEMMA MarkAcceptedFollows ==
  ASSUME IInv, QuietInv, FollowInv, NEW h \in Human, MarkAccepted(h)
  PROVE  FollowInv'
<1>1. /\ pc[h] = "accepting" /\ Return(h) /\ UNCHANGED <<tasks, wq>>
      /\ opp'.state = hopp[h].state
  BY DEF MarkAccepted
<1>2. opp.state \in Known /\ opp'.state = Selected(opp.state)
  BY <1>1 DEF FollowInv, CommandsCurrent
<1>3. Advances(opp.state, opp'.state) /\ opp'.state \in Taken
  BY <1>2, SelectedAdvances
<1>4. InHand(tasks, opp'.state)
  BY <1>3 DEF InHand
<1>5. QED
  BY <1>1, <1>3, <1>4, ReturnFollows

LEMMA AbandonFollows ==
  ASSUME ~Overlap, IInv, QuietInv, FollowInv, NEW h \in Human, Abandon(h)
  PROVE  FollowInv'
<1>1. /\ \A o \in Process : pc[o] = "idle"
      /\ UNCHANGED <<opp, wq>>
      /\ pc' = [pc EXCEPT ![h] = "abandoning"] /\ tasks' = CancelAll(tasks)
      /\ hopp' = [hopp EXCEPT ![h] = opp]
  BY DEF Abandon, MayStart
<1>2. /\ h \in Process /\ h \notin Worker /\ (\A x \in Human : x \in Process)
      /\ (\A v \in Worker : v \in Process)
  BY ExecutionConstants DEF Process
<1>3. pc'[h] = "abandoning" /\ \A o \in Process \ {h} : pc'[o] = "idle"
  BY <1>1, <1>2 DEF IInv, TypeOK
<1>4. opp.state \in Known /\ Faithful(tasks, opp.state) /\ InHand(tasks, opp.state)
  BY <1>1, <1>2 DEF FollowInv, Accepting
<1>5. tasks \in Queue
  BY HumanFacts
<1>6. NoneSucceeds(tasks, CancelAll(tasks))
  <2>1. \A u \in Task : tasks[u] \in TaskRecord
    BY <1>5, RecordOfTask
  <2>2. QED
    BY <2>1 DEF NoneSucceeds, CancelAll, TaskRecord
<1>7. Faithful(tasks', opp.state) /\ InHand(tasks', opp.state)
  BY <1>1, <1>4, <1>5, <1>6, CancelEvolves, EvolvesFaithful
<1>8. CommandsCurrent'
  BY <1>1, <1>2, <1>3 DEF CommandsCurrent, IInv, TypeOK
<1>9. QED
  BY <1>1, <1>2, <1>3, <1>4, <1>7, <1>8, StayAdvances, HumanFollowFrame

LEMMA MarkAbandonedFollows ==
  ASSUME IInv, QuietInv, FollowInv, NEW h \in Human, MarkAbandoned(h)
  PROVE  FollowInv'
<1>1. pc[h] = "abandoning" /\ Return(h) /\ UNCHANGED <<tasks, wq>>
  BY DEF MarkAbandoned
<1>2. opp'.state \in {opp.state, "ABANDONED"}
  BY HumanFacts DEF MarkAbandoned, OppRecord
<1>3. opp.state \in Known /\ Advances(opp.state, opp'.state)
  BY <1>2, StayAdvances, AbandonAdvances DEF FollowInv
<1>4. ~Accepting
  <2>1. h \in Process /\ \A x \in Human : x \in Process
    BY DEF Process
  <2>2. QED
    BY <1>1, <2>1 DEF Accepting, QuietInv, Serial
<1>5. InHand(tasks, opp'.state)
  BY <1>3, <1>4, FaithfulAdvances DEF FollowInv
<1>6. QED
  BY <1>1, <1>3, <1>5, ReturnFollows

\* Release and Enqueue: commands of one save, with everybody at rest.
LEMMA OneSaveFollows ==
  ASSUME IInv, FollowInv, \A o \in Process : pc[o] = "idle", UNCHANGED <<opp, pc, wq, hopp>>,
         /\ Faithful(tasks, opp.state) => Faithful(tasks', opp.state)
         /\ InHand(tasks, opp.state) => InHand(tasks', opp.state)
  PROVE  FollowInv'
<1>1. (\A x \in Human : pc[x] = "idle") /\ (\A v \in Worker : pc[v] = "idle")
  BY DEF Process
<1>2. Faithful(tasks', opp.state) /\ InHand(tasks', opp.state) /\ CommandsCurrent'
  BY <1>1 DEF FollowInv, Accepting, CommandsCurrent
<1>3. opp.state \in Known
  BY DEF FollowInv
<1>4. QED
  BY <1>1, <1>2, <1>3, StayAdvances, HumanFollowFrame

LEMMA ReleaseFollows ==
  ASSUME ~Overlap, IInv, FollowInv, NEW h \in Human, NEW t \in Task, Release(h, t)
  PROVE  FollowInv'
<1> DEFINE u == Unblock(tasks, t)
           s == opp.state
<1>1. tasks \in Queue /\ u \in Queue /\ Evolves(tasks, u, {t})
  BY HumanFacts, UnblockEvolves DEF Release
<1>2. NoneSucceeds(tasks, u)
  BY <1>1, OneTaskFaithful
<1>3. /\ Faithful(tasks, s) => Faithful(u, s)
      /\ InHand(tasks, s) => InHand(u, s)
  BY <1>1, <1>2, EvolvesFaithful
<1>4. /\ tasks' = ResolveDependencies(u) /\ UNCHANGED <<opp, pc, wq, hopp>>
      /\ \A o \in Process : pc[o] = "idle"
  BY DEF Release, MayStart
<1> HIDE DEF u
<1>5. /\ Faithful(tasks, s) => Faithful(tasks', s)
      /\ InHand(tasks, s) => InHand(tasks', s)
  BY <1>1, <1>3, <1>4, ResolveFaithful
<1>6. QED
  BY <1>4, <1>5, OneSaveFollows

LEMMA EnqueueFollows ==
  ASSUME ~Overlap, IInv, FollowInv, NEW h \in Human, NEW key \in Key \cap Enqueued, Enqueue(h, key)
  PROVE  FollowInv'
<1>1. /\ lastId + 1 <= MaxTasks
      /\ key # "DEPLOY" /\ key # "PLAN" /\ key \notin DOMAIN Earlier
  BY HumanFacts, TaskConstants DEF Enqueue, Enqueued, Earlier
<1>2. /\ tasks' = CreateTask(tasks, lastId + 1, key, {}, FALSE)
      /\ UNCHANGED <<opp, pc, wq, hopp>> /\ \A o \in Process : pc[o] = "idle"
  BY DEF Enqueue, MayStart
<1>3. Faithful(tasks, opp.state)
  BY DEF FollowInv
<1>4. /\ Faithful(tasks', opp.state)
      /\ InHand(tasks, opp.state) => InHand(tasks', opp.state)
  BY <1>1, <1>2, <1>3, HumanFacts, CreateFaithful
<1>5. QED
  BY <1>2, <1>4, OneSaveFollows

LEMMA PassFollows == ASSUME IInv, FollowInv, Pass PROVE FollowInv'
<1>1. /\ tasks \in Queue /\ tasks' = Elapse(tasks) /\ UNCHANGED <<opp, pc, hopp, wtask>>
      /\ \A v \in Worker : wq[v] \in Queue /\ wq'[v] = Elapse(wq[v])
  BY DEF Pass, IInv, TypeOK
<1>2. \A v \in Worker : Faithful(wq'[v], opp.state) /\ InHand(wq'[v], opp.state)
  BY <1>1, TimersFaithful DEF FollowInv
<1>3. Faithful(tasks', opp.state) /\ (InHand(tasks', opp.state) \/ Accepting')
  BY <1>1, TimersFaithful DEF FollowInv, Accepting
<1>4. CommandsCurrent'
  BY <1>1 DEF FollowInv, CommandsCurrent
<1>5. ASSUME NEW v \in Worker, pc'[v] \in {"started", "ran"}
      PROVE  opp'.state \in Entered(wq'[v][wtask'[v]].idempotency_key)
  <2>1. wtask[v] \in Task /\ opp.state \in Entered(wq[v][wtask[v]].idempotency_key)
    BY <1>1, <1>5, WorkerFacts DEF FollowInv, Executing
  <2>2. wq'[v][wtask[v]].idempotency_key = wq[v][wtask[v]].idempotency_key
    BY <1>1, <2>1, ElapseEvolves DEF Evolves, TaskEvolves
  <2>3. QED
    BY <1>1, <2>1, <2>2
<1>6. QED
  BY <1>1, <1>2, <1>3, <1>4, <1>5 DEF FollowInv

LEMMA StepFollows ==
  ASSUME ~Overlap, MayCrash \cap Human = {}, {"PLAN", "BUILD_PAGE", "VALIDATE_PAGE"} \subseteq Key
  PROVE  IInv /\ QuietInv /\ FollowInv /\ [Next]_vars => FollowInv'
<1> SUFFICES ASSUME IInv, QuietInv, FollowInv, [Next]_vars PROVE FollowInv'
  OBVIOUS
<1>1. CASE Pass
  BY <1>1, PassFollows
<1>2. ASSUME NEW w \in Worker, LoadQueue(w) \/ TickSteps(w) \/ CrashWorker(w) PROVE FollowInv'
  BY <1>2, WorkerFollowStep
<1>3. ASSUME NEW h \in Human, Command(h) \/ CrashHuman(h) PROVE FollowInv'
  <2>1. ~CrashHuman(h)
    BY DEF CrashHuman
  <2>2. QED
    BY <1>3, <2>1, AcceptFollows, MarkAcceptedFollows, AbandonFollows, MarkAbandonedFollows,
       ReleaseFollows, EnqueueFollows DEF Command
<1>4. CASE UNCHANGED vars
  BY <1>4 DEF vars, FollowInv, Accepting, CommandsCurrent
<1>5. QED
  BY <1>1, <1>2, <1>3, <1>4 DEF Next

LEMMA InitFollows == Init => FollowInv
<1> SUFFICES ASSUME Init PROVE FollowInv
  OBVIOUS
<1>1. opp.state \in Known
  BY DEF Init, Known
<1>2. Faithful(tasks, opp.state) /\ InHand(tasks, opp.state)
  BY EmptyFaithful DEF Init
<1>3. \A w \in Worker : Faithful(wq[w], opp.state) /\ InHand(wq[w], opp.state)
  BY EmptyFaithful DEF Init
<1>4. CommandsCurrent /\ \A w \in Worker : pc[w] = "idle"
  BY DEF Init, CommandsCurrent, Process
<1>5. QED
  BY <1>1, <1>2, <1>3, <1>4 DEF FollowInv

(* Once the chain's DEPLOY has SUCCEEDED the opportunity is LIVE (or a     *)
(* human has abandoned it): whichever attempts of whichever tasks died on  *)
(* the way, and whatever was accepted again or enqueued beside the chain.  *)
(* Assumed: ticks and commands do not overlap, no acceptance is cut off    *)
(* between its two saves, and the chain has its PLAN, BUILD_PAGE and       *)
(* VALIDATE_PAGE tasks.                                                    *)
THEOREM LiveWhenDeployedHolds ==
  ASSUME ~Overlap, MayCrash \cap Human = {}, {"PLAN", "BUILD_PAGE", "VALIDATE_PAGE"} \subseteq Key
  PROVE  Spec => []LiveWhenDeployed
<1>1. Init => IInv /\ QuietInv /\ FollowInv
  BY InitIInv, InitQuiet, InitFollows
<1>2. IInv /\ QuietInv /\ FollowInv /\ [Next]_vars => (IInv /\ QuietInv /\ FollowInv)'
  BY StepIInv, StepQuiet, StepFollows
<1>3. FollowInv => LiveWhenDeployed
  BY DEF FollowInv, Faithful, Followed, Reached, LiveWhenDeployed, ByStatus
<1>4. QED
  BY <1>1, <1>2, <1>3, PTL DEF Spec
=============================================================================
