------------------------ MODULE SaleToDeliveryProofs ------------------------
(***************************************************************************)
(* Theorems about module SaleToDelivery, for every set of payments, every  *)
(* set of workers and humans and every value of the timing constants:      *)
(* however they overlap, overwrite each other's files and die, nothing is  *)
(* sent, claimed or delivered that never was in the books, and no payment  *)
(* has two DELIVER tasks whose row was not lost by the save of a stale     *)
(* copy of the ledger.  Where they run one at a time, do not die and do    *)
(* not accept again, no row is lost, and the books, the queue, the record  *)
(* and the outbox agree.                                                   *)
(***************************************************************************)
EXTENDS SaleToDelivery, FiniteSetTheorems, SequenceTheorems, TLAPS

(***************************************************************************)
(* What the operations on a queue leave alone: the tasks there are, their  *)
(* keys, dependencies and gates; and which of them are live.               *)
(***************************************************************************)
TaskKept(a, b) ==
    /\ b.idempotency_key = a.idempotency_key
    /\ b.depends_on = a.depends_on
    /\ b.requires_approval = a.requires_approval
    /\ b.status = "ABSENT" <=> a.status = "ABSENT"

Kept(p, r) == \A t \in Task : TaskKept(p[t], r[t])

SameLive(p, r) == \A t \in Task : p[t].status \in Live <=> r[t].status \in Live

(***************************************************************************)
(* The inductive invariant of the processes that overlap.                  *)
(***************************************************************************)
\* Every version of the queue there is: the file and the workers' copies.
Versions == {tasks} \cup {wq[w] : w \in Worker}

\* The payments a queue has DELIVER tasks for have been in the books.
InBooks(q, ever) ==
    \A t \in Used(q) : q[t].idempotency_key \in Pay => q[t].idempotency_key \in ever

\* No two DELIVER tasks of a queue are for the same payment, unless its row
\* in the ledger was lost.
Single(q, lost) ==
    \A t, u \in Used(q) :
        q[t].idempotency_key \in Pay \ lost /\ q[t].idempotency_key = q[u].idempotency_key
            => t = u

\* A queue has no DELIVER task for the payments in S.
Lacks(q, S) == \A t \in Used(q) : q[t].idempotency_key \notin S

BookedBy(w) == {booked[w][i] : i \in DOMAIN booked[w]}

\* The payment w is about to save.
Coming(w) == IF pc[w] = "saving" THEN {books[w].event} ELSE {}

\* What w books and has not spawned a task for yet.
Unspawned(w) ==
    IF pc[w] \in {"booking", "saving", "ran"} THEN BookedBy(w) \cup Coming(w) ELSE {}

Sound(q, ever, lost) == InBooks(q, ever) /\ Single(q, lost)

QueueInv == \A q \in Versions : Sound(q, EverBooked, dropped)

\* The copy of w has no DELIVER task for what w has yet to spawn one for: two
\* workers may book the same payment, each then adds to a queue that has none.
Own(w) == Lacks(wq[w], Unspawned(w) \ dropped)

OwnInv == \A w \in Worker : Own(w)

\* What w books was confirmed, is booked once by w, and was in the ledger.
BooksOK(w) ==
    /\ polled[w] \subseteq paid /\ books[w].rows \subseteq paid
    /\ BookedBy(w) \subseteq EverBooked
    /\ \A i, j \in DOMAIN booked[w] : booked[w][i] = booked[w][j] => i = j
    /\ polled[w] \cap BookedBy(w) = {}
    /\ booked[w] # <<>> => pc[w] \in {"booking", "saving", "ran", "recorded"}
    /\ pc[w] = "saving" => books[w].event \in polled[w]
    /\ takings[w] => EverBooked # {}

BookInv ==
    /\ ledger \subseteq paid
    /\ \A w \in Worker : BooksOK(w)
    /\ \A h \in Human : hledger[h] \subseteq paid

\* The task a worker runs is in its copy, and what it reports is true.
WorkOK(w) ==
    /\ pc[w] \in {"claimed", "booking", "saving", "ran", "recorded"} =>
          wtask[w] \in Used(wq[w])
    /\ pc[w] \in {"booking", "saving"} => KeyOf(w) \in Cycle
    /\ pc[w] = "ran" /\ outcome[w] = "ok" /\ KeyOf(w) \in Pay => sent[KeyOf(w)] > 0

WorkInv == \A w \in Worker : WorkOK(w)

\* A record claims no delivery and no sale that did not happen.
Truthful(record, outbox, ever) ==
    /\ \A p \in record.deliveries : outbox[p] > 0
    /\ record.state \in Sold => ever # {}
    /\ record.state \in {"DELIVERING", "ACTIVE"} => \E p \in Pay : outbox[p] > 0

RecordInv ==
    /\ Truthful(opp, sent, EverBooked)
    /\ \A h \in Human :
          /\ Truthful(hopp[h], sent, EverBooked)
          /\ pc[h] \in {"delivering", "moving"} => hpay[h] \in Pay /\ sent[hpay[h]] > 0

SentInv == \A p \in Pay : sent[p] > 0 => p \in EverBooked

IInv == TypeOK /\ QueueInv /\ OwnInv /\ BookInv /\ WorkInv /\ RecordInv /\ SentInv

(***************************************************************************)
(* What more holds of processes that run one at a time to the end.         *)
(***************************************************************************)
Orderly == MaxOverlaps = 0 /\ MayCrash = {} /\ ~Reaccept

Alone == \A a, b \in Process : pc[a] # "idle" /\ pc[b] # "idle" => a = b

\* Tasks wait for nobody, their gates are open, and their ids were given out.
Plain(q, last) ==
    \A t \in Used(q) : q[t].depends_on = {} /\ q[t].requires_approval = FALSE /\ t <= last

\* Every payment in S has a DELIVER task.
Covers(q, S) == \A p \in S : \E t \in Used(q) : q[t].idempotency_key = p

\* Checks are numbered, and only the last one is live.
Chain(q) ==
    /\ \A t, u \in Checks(q) : q[t].idempotency_key = q[u].idempotency_key => t = u
    /\ \A t, u \in Checks(q) :
          q[t].status \in Live => q[u].idempotency_key <= q[t].idempotency_key

\* A check is under way, or the last cycle has been reached.
UnderWay(q) ==
    \E t \in Checks(q) : q[t].status \in Live \/ q[t].idempotency_key = MaxCycles

\* The task t is the last check, and its successor is due.
FollowsUp(q, t) ==
    /\ q[t].status \in {"SUCCEEDED", "FAILED_FINAL"}
    /\ \A u \in Checks(q) : q[u].idempotency_key <= q[t].idempotency_key

InMeasurement == opp.state \in KeepMeasuring

Pending == UNION {Unspawned(w) : w \in Worker}

\* A check that has looked at the books and not recorded them yet.
Checking(w) ==
    \/ pc[w] \in {"booking", "saving"}
    \/ pc[w] = "ran" /\ outcome[w] = "ok" /\ KeyOf(w) \in Cycle

\* The copy of a worker is the file but for what the worker itself did to it.
CopyOK(w) ==
    /\ pc[w] # "idle" => Plain(wq[w], lastId)
    /\ pc[w] \in {"loaded", "claimed", "booking", "saving", "ran"} =>
          Kept(tasks, wq[w]) /\ SameLive(tasks, wq[w])
    /\ pc[w] \in {"claimed", "booking", "saving", "ran"} => wq[w][wtask[w]].status \in Live
    /\ pc[w] = "ran" /\ booked[w] # <<>> => Checking(w)
    /\ pc[w] = "recorded" =>
          /\ Chain(wq[w]) /\ Covers(wq[w], ledger)
          /\ wtask[w] \in Checks(wq[w]) =>
                wq[w][wtask[w]].status \in Live \/ FollowsUp(wq[w], wtask[w])
          /\ InMeasurement => UnderWay(wq[w]) \/ wtask[w] \in Checks(wq[w])

\* Unless a worker is about to save it, the file says all there is to do.
FileOK ==
    (\A w \in Worker : pc[w] # "recorded") =>
        Covers(tasks, ledger \ Pending) /\ (InMeasurement => UnderWay(tasks))

CopyInv ==
    /\ Plain(tasks, lastId) /\ Chain(tasks) /\ FileOK
    /\ \A w \in Worker : CopyOK(w)

\* Who has sent the product of p, and not recorded it yet.
Sending(p) ==
    \/ \E w \in Worker : pc[w] = "ran" /\ outcome[w] = "ok" /\ KeyOf(w) = p
    \/ \E h \in Human : pc[h] = "delivering" /\ hpay[h] = p

OutboxInv ==
    /\ \A p \in Pay : sent[p] <= 1 /\ (sent[p] > 0 => p \in opp.deliveries \/ Sending(p))
    /\ \A h \in Human :
          (pc[h] \in {"delivering", "moving"} => hopp[h] = opp) /\ pc[h] # "accepting"

\* The copy of the ledger is the file, and no row is lost; what w saw of it is
\* what is in it.
RowsOK(w) ==
    /\ pc[w] = "saving" => books[w].rows = ledger
    /\ pc[w] = "ran" /\ Checking(w) => (takings[w] <=> ledger # {})
    /\ polled[w] # {} => pc[w] \in {"booking", "saving"} /\ opp.state # "NO_TRACTION"

RevenueInv ==
    /\ dropped = {}
    /\ (opp.revenue <=> ledger # {}) \/ \E w \in Worker : Checking(w)
    /\ opp.state \in KeepMeasuring \cup {"NO_TRACTION"}
    /\ opp.state = "NO_TRACTION" => ledger = {}
    /\ \A w \in Worker : RowsOK(w)
    /\ \A h \in Human : pc[h] = "bookkeeping" => hledger[h] = ledger

OrderlyInv == IInv /\ Alone /\ CopyInv /\ OutboxInv /\ RevenueInv

(***************************************************************************)
(* Part 1.  The operations on a queue.                                     *)
(***************************************************************************)
LEMMA KeptTransitive ==
  ASSUME NEW p, NEW q, NEW r, Kept(p, q), Kept(q, r)
  PROVE  Kept(p, r)
BY DEF Kept, TaskKept

LEMMA RecordOfTask == ASSUME NEW p \in Queue, NEW t \in Task PROVE p[t] \in TaskRecord
BY DEF Queue

LEMMA EmptyQueueType == EmptyQueue \in Queue /\ Used(EmptyQueue) = {}
BY TaskConstants
   DEF EmptyQueue, Queue, NoTask, TaskRecord, AttemptCount, Status, Live, Terminal, Used

\* One task changes.
LEMMA PutKept ==
  ASSUME NEW p \in Queue, NEW t \in Task, NEW b \in TaskRecord
  PROVE  /\ [p EXCEPT ![t] = b] \in Queue
         /\ [p EXCEPT ![t] = b][t] = b
         /\ \A u \in Task : u # t => [p EXCEPT ![t] = b][u] = p[u]
         /\ TaskKept(p[t], b) => Kept(p, [p EXCEPT ![t] = b])
<1>1. /\ [p EXCEPT ![t] = b] \in Queue
      /\ [p EXCEPT ![t] = b][t] = b
      /\ \A u \in Task : u # t => [p EXCEPT ![t] = b][u] = p[u]
  BY DEF Queue
<1>2. ASSUME TaskKept(p[t], b), NEW u \in Task PROVE TaskKept(p[u], [p EXCEPT ![t] = b][u])
  <2>1. CASE u = t
    BY <1>1, <1>2, <2>1
  <2>2. CASE u # t
    BY <1>1, <2>2 DEF TaskKept
  <2>3. QED
    BY <2>1, <2>2
<1>3. QED
  BY <1>1, <1>2 DEF Kept

\* The dependencies are resolved; who waits for nobody does not fail.
LEMMA ResolveKept ==
  ASSUME NEW p \in Queue
  PROVE  /\ ResolveDependencies(p) \in Queue /\ Kept(p, ResolveDependencies(p))
         /\ (\A t \in Used(p) : p[t].depends_on = {}) => SameLive(p, ResolveDependencies(p))
<1> DEFINE r == ResolveDependencies(p)
<1>1. ASSUME NEW t \in Task
      PROVE  /\ r[t] \in TaskRecord /\ TaskKept(p[t], r[t])
             /\ t \notin Doomed(p) => (p[t].status \in Live <=> r[t].status \in Live)
  <2>1. p[t] \in TaskRecord
    BY RecordOfTask
  <2>2. \/ r[t] = [p[t] EXCEPT !.status = p[t].status]
        \/ /\ p[t].status = "PENDING"
           /\ \/ r[t] = [p[t] EXCEPT !.status = "BLOCKED_APPROVAL"]
              \/ r[t] = [p[t] EXCEPT !.status = "FAILED_FINAL"] /\ t \in Doomed(p)
              \/ r[t] = [p[t] EXCEPT !.status = "READY"]
    BY DEF ResolveDependencies, Gated, Doomed, Promotable, Unresolved
  <2> HIDE DEF r
  <2>3. QED
    BY <2>1, <2>2 DEF TaskRecord, Status, Live, Terminal, TaskKept
<1>2. r = [t \in Task |-> r[t]]
  BY DEF ResolveDependencies
<1>3. ASSUME \A t \in Used(p) : p[t].depends_on = {} PROVE Doomed(p) = {}
  <2>1. ClosedUnderFailure(p, {})
    BY <1>3 DEF ClosedUnderFailure, Unresolved, Used
  <2>2. QED
    BY <2>1 DEF Doomed
<1> HIDE DEF r
<1>4. r \in Queue /\ Kept(p, r)
  BY <1>1, <1>2 DEF Queue, Kept
<1>5. QED
  BY <1>1, <1>3, <1>4 DEF SameLive, r

LEMMA RequeueKept ==
  ASSUME NEW p \in Queue
  PROVE  /\ RequeueDue(p) \in Queue /\ Kept(p, RequeueDue(p)) /\ SameLive(p, RequeueDue(p))
<1>1. ASSUME NEW t \in Task
      PROVE  /\ RequeueDue(p)[t] \in TaskRecord /\ TaskKept(p[t], RequeueDue(p)[t])
             /\ p[t].status \in Live <=> RequeueDue(p)[t].status \in Live
  <2>1. p[t] \in TaskRecord
    BY RecordOfTask
  <2>2. \/ RequeueDue(p)[t] = p[t]
        \/ /\ p[t].status = "FAILED_RETRYABLE"
           /\ RequeueDue(p)[t] = [p[t] EXCEPT !.status = "PENDING"]
    BY DEF RequeueDue, RetryDue
  <2>3. QED
    BY <2>1, <2>2 DEF TaskRecord, Status, Live, Terminal, TaskKept
<1>2. QED
  BY <1>1 DEF RequeueDue, Queue, Kept, SameLive

LEMMA ReclaimKept ==
  ASSUME NEW p \in Queue
  PROVE  /\ ReclaimStale(p) \in Queue /\ Kept(p, ReclaimStale(p)) /\ SameLive(p, ReclaimStale(p))
<1>1. ASSUME NEW t \in Task
      PROVE  /\ ReclaimStale(p)[t] \in TaskRecord /\ TaskKept(p[t], ReclaimStale(p)[t])
             /\ p[t].status \in Live <=> ReclaimStale(p)[t].status \in Live
  <2>1. p[t] \in TaskRecord
    BY RecordOfTask
  <2>2. \/ ReclaimStale(p)[t] = p[t]
        \/ /\ p[t].status = "RUNNING"
           /\ ReclaimStale(p)[t] = [p[t] EXCEPT !.status = "PENDING"]
    BY DEF ReclaimStale, Stale
  <2>3. QED
    BY <2>1, <2>2 DEF TaskRecord, Status, Live, Terminal, TaskKept
<1>2. QED
  BY <1>1 DEF ReclaimStale, Queue, Kept, SameLive

\* The housekeeping of a tick.
LEMMA HousekeptKept ==
  ASSUME NEW p \in Queue
  PROVE  /\ Housekept(p) \in Queue /\ Kept(p, Housekept(p))
         /\ (\A t \in Used(p) : p[t].depends_on = {}) => SameLive(p, Housekept(p))
<1> DEFINE p1 == ReclaimStale(p)
           p2 == RequeueDue(p1)
<1>1. p1 \in Queue /\ Kept(p, p1) /\ SameLive(p, p1)
  BY ReclaimKept
<1> HIDE DEF p1
<1>2. p2 \in Queue /\ Kept(p1, p2) /\ SameLive(p1, p2)
  BY <1>1, RequeueKept
<1> HIDE DEF p2
<1>3. /\ ResolveDependencies(p2) \in Queue /\ Kept(p2, ResolveDependencies(p2))
      /\ (\A t \in Used(p2) : p2[t].depends_on = {}) => SameLive(p2, ResolveDependencies(p2))
  BY <1>2, ResolveKept
<1>4. Housekept(p) = ResolveDependencies(p2)
  BY DEF Housekept, p1, p2
<1>5. Kept(p, p2) /\ SameLive(p, p2)
  BY <1>1, <1>2, KeptTransitive DEF SameLive
<1>6. Kept(p, ResolveDependencies(p2))
  BY <1>3, <1>5, KeptTransitive
<1>7. (\A t \in Used(p) : p[t].depends_on = {}) => \A t \in Used(p2) : p2[t].depends_on = {}
  BY <1>5 DEF Kept, TaskKept, Used
<1>8. QED
  BY <1>3, <1>4, <1>5, <1>6, <1>7 DEF SameLive

LEMMA ElapseKept ==
  ASSUME NEW p \in Queue
  PROVE  /\ Elapse(p) \in Queue /\ Kept(p, Elapse(p)) /\ SameLive(p, Elapse(p))
         /\ \A t \in Task : Elapse(p)[t].status = p[t].status
<1>1. ASSUME NEW t \in Task PROVE p[t] \in TaskRecord
  BY RecordOfTask
<1>2. \A n \in Nat : \A i \in 0..n : Before(i) \in 0..n
  BY DEF Before
<1>3. ASSUME NEW t \in Task
      PROVE  Elapse(p)[t] = [p[t] EXCEPT !.lease_until = Before(p[t].lease_until),
                                         !.next_retry_at = Before(p[t].next_retry_at),
                                         !.not_before = Before(p[t].not_before)]
  BY DEF Elapse
<1>4. ASSUME NEW t \in Task PROVE Elapse(p)[t] \in TaskRecord
  BY <1>1, <1>2, TaskConstants DEF Elapse, TaskRecord
<1>5. ASSUME NEW t \in Task
      PROVE  TaskKept(p[t], Elapse(p)[t]) /\ Elapse(p)[t].status = p[t].status
  BY <1>1, <1>3 DEF TaskKept, TaskRecord
<1>6. Elapse(p) \in Queue
  BY <1>4 DEF Elapse, Queue
<1>7. QED
  BY <1>5, <1>6 DEF Kept, SameLive

LEMMA ClaimKept ==
  ASSUME NEW p \in Queue, NEW t \in NextReady(p)
  PROVE  /\ Claim(p, t) \in Queue /\ Kept(p, Claim(p, t)) /\ SameLive(p, Claim(p, t))
         /\ t \in Task /\ Claim(p, t)[t].status \in Live
<1> DEFINE a == p[t]
           b == [a EXCEPT !.status = "RUNNING", !.lease_until = LeaseTime,
                          !.attempt_count = CountUp(a.attempt_count)]
<1>1. t \in Task /\ a.status = "READY" /\ a \in TaskRecord
  BY RecordOfTask DEF NextReady, ByStatus
<1>2. LeaseTime \in 0..LeaseTime /\ CountUp(a.attempt_count) \in AttemptCount
  BY <1>1, TaskConstants DEF CountUp, TaskRecord, AttemptCount
<1>3. Claim(p, t) = [p EXCEPT ![t] = b]
  BY DEF Claim
<1> HIDE DEF a
<1>4. b \in TaskRecord /\ b.status = "RUNNING" /\ TaskKept(a, b)
  BY <1>1, <1>2 DEF TaskRecord, Status, Live, Terminal, TaskKept
<1> HIDE DEF b
<1>5. /\ [p EXCEPT ![t] = b] \in Queue /\ [p EXCEPT ![t] = b][t] = b
      /\ Kept(p, [p EXCEPT ![t] = b])
      /\ \A u \in Task : u # t => [p EXCEPT ![t] = b][u] = p[u]
  BY <1>1, <1>4, PutKept DEF a
<1>6. SameLive(p, [p EXCEPT ![t] = b])
  BY <1>1, <1>4, <1>5 DEF SameLive, Live, a
<1>7. QED
  BY <1>1, <1>3, <1>4, <1>5, <1>6 DEF Live

\* The task that ends is the only one whose status changes.
LEMMA SucceededKept ==
  ASSUME NEW p \in Queue, NEW t \in Used(p)
  PROVE  /\ MarkSucceeded(p, t) \in Queue /\ Kept(p, MarkSucceeded(p, t))
         /\ MarkSucceeded(p, t)[t].status = "SUCCEEDED"
         /\ \A u \in Task : u # t => MarkSucceeded(p, t)[u] = p[u]
<1> DEFINE a == p[t]
           b == [a EXCEPT !.status = "SUCCEEDED", !.lease_until = 0]
<1>1. t \in Task /\ a \in TaskRecord /\ a.status # "ABSENT"
  BY RecordOfTask DEF Used
<1>2. MarkSucceeded(p, t) = [p EXCEPT ![t] = b]
  BY DEF MarkSucceeded
<1>3. 0 \in 0..LeaseTime
  BY TaskConstants
<1> HIDE DEF a
<1>4. b \in TaskRecord /\ b.status = "SUCCEEDED" /\ TaskKept(a, b)
  BY <1>1, <1>3 DEF TaskRecord, Status, Live, Terminal, TaskKept
<1> HIDE DEF b
<1>5. /\ [p EXCEPT ![t] = b] \in Queue /\ [p EXCEPT ![t] = b][t] = b
      /\ Kept(p, [p EXCEPT ![t] = b])
      /\ \A u \in Task : u # t => [p EXCEPT ![t] = b][u] = p[u]
  BY <1>1, <1>4, PutKept DEF a
<1>6. QED
  BY <1>2, <1>4, <1>5

LEMMA FailedKept ==
  ASSUME NEW p \in Queue, NEW t \in Used(p), NEW retryable \in BOOLEAN
  PROVE  /\ MarkFailed(p, t, retryable) \in Queue /\ Kept(p, MarkFailed(p, t, retryable))
         /\ MarkFailed(p, t, retryable)[t].status \in {"FAILED_RETRYABLE", "FAILED_FINAL"}
         /\ \A u \in Task : u # t => MarkFailed(p, t, retryable)[u] = p[u]
<1> DEFINE a == p[t]
           b == [a EXCEPT !.status = "FAILED_RETRYABLE", !.lease_until = 0,
                          !.next_retry_at = Backoff(a.attempt_count)]
           c == [a EXCEPT !.status = "FAILED_FINAL", !.lease_until = 0]
<1>1. t \in Task /\ a \in TaskRecord /\ a.status # "ABSENT"
  BY RecordOfTask DEF Used
<1>2. \/ MarkFailed(p, t, retryable) = [p EXCEPT ![t] = b]
      \/ MarkFailed(p, t, retryable) = [p EXCEPT ![t] = c]
  BY DEF MarkFailed
<1>3. 0 \in 0..LeaseTime /\ Backoff(a.attempt_count) \in 0..RetryCap
  BY TaskConstants DEF Backoff
<1> HIDE DEF a
<1>4. b \in TaskRecord /\ b.status = "FAILED_RETRYABLE" /\ TaskKept(a, b)
  BY <1>1, <1>3 DEF TaskRecord, Status, Live, Terminal, TaskKept
<1>5. c \in TaskRecord /\ c.status = "FAILED_FINAL" /\ TaskKept(a, c)
  BY <1>1, <1>3 DEF TaskRecord, Status, Live, Terminal, TaskKept
<1> HIDE DEF b, c
<1>6. /\ [p EXCEPT ![t] = b] \in Queue /\ [p EXCEPT ![t] = b][t] = b
      /\ Kept(p, [p EXCEPT ![t] = b])
      /\ \A u \in Task : u # t => [p EXCEPT ![t] = b][u] = p[u]
  BY <1>1, <1>4, PutKept DEF a
<1>7. /\ [p EXCEPT ![t] = c] \in Queue /\ [p EXCEPT ![t] = c][t] = c
      /\ Kept(p, [p EXCEPT ![t] = c])
      /\ \A u \in Task : u # t => [p EXCEPT ![t] = c][u] = p[u]
  BY <1>1, <1>5, PutKept DEF a
<1>8. QED
  BY <1>2, <1>4, <1>5, <1>6, <1>7

LEMMA NoTaskType == NoTask \in TaskRecord
BY TaskConstants DEF NoTask, TaskRecord, AttemptCount, Status, Live, Terminal

LEMMA NewDeliverType ==
  ASSUME NEW k \in Pay
  PROVE  /\ NewTask(k, {}, 7, FALSE, 0) \in TaskRecord
         /\ NewTask(k, {}, 7, FALSE, 0).status = "PENDING"
         /\ NewTask(k, {}, 7, FALSE, 0).idempotency_key = k
         /\ NewTask(k, {}, 7, FALSE, 0).depends_on = {}
         /\ NewTask(k, {}, 7, FALSE, 0).requires_approval = FALSE
<1>1. k \in Key /\ 0 \in 0..MaxDelay
  BY SaleConstants, TaskConstants
<1>2. QED
  BY <1>1, NoTaskType DEF NewTask, TaskRecord, Status, Live, Terminal

LEMMA FirstCheckType ==
  ASSUME NEW k \in Cycle
  PROVE  /\ NewTask(k, {}, 5, FALSE, 0) \in TaskRecord
         /\ NewTask(k, {}, 5, FALSE, 0).status = "PENDING"
         /\ NewTask(k, {}, 5, FALSE, 0).idempotency_key = k
         /\ NewTask(k, {}, 5, FALSE, 0).depends_on = {}
         /\ NewTask(k, {}, 5, FALSE, 0).requires_approval = FALSE
<1>1. k \in Key /\ 0 \in 0..MaxDelay
  BY SaleConstants, TaskConstants
<1>2. QED
  BY <1>1, NoTaskType DEF NewTask, TaskRecord, Status, Live, Terminal

LEMMA NextCheckType ==
  ASSUME NEW k \in Cycle
  PROVE  /\ NewTask(k, {}, 3, FALSE, MaxDelay) \in TaskRecord
         /\ NewTask(k, {}, 3, FALSE, MaxDelay).status = "PENDING"
         /\ NewTask(k, {}, 3, FALSE, MaxDelay).idempotency_key = k
         /\ NewTask(k, {}, 3, FALSE, MaxDelay).depends_on = {}
         /\ NewTask(k, {}, 3, FALSE, MaxDelay).requires_approval = FALSE
<1>1. k \in Key /\ MaxDelay \in 0..MaxDelay
  BY SaleConstants, TaskConstants
<1>2. QED
  BY <1>1, NoTaskType DEF NewTask, TaskRecord, Status, Live, Terminal

(***************************************************************************)
(* Part 2.  What the invariants say of a queue, as the queue grows.        *)
(***************************************************************************)
LEMMA KeptSame ==
  ASSUME NEW p, NEW r, Kept(p, r)
  PROVE  /\ Used(r) = Used(p) /\ Checks(r) = Checks(p)
         /\ \A t \in Task : r[t].idempotency_key = p[t].idempotency_key
         /\ \A k : Deliveries(r, k) = Deliveries(p, k)
<1>1. Used(r) = Used(p)
  BY DEF Kept, TaskKept, Used
<1>2. \A t \in Task : r[t].idempotency_key = p[t].idempotency_key
  BY DEF Kept, TaskKept
<1>3. Used(p) \subseteq Task
  BY DEF Used
<1>4. QED
  BY <1>1, <1>2, <1>3 DEF Checks, Deliveries

\* The same queue, when more has been booked, and more rows were lost.
LEMMA KeptSound ==
  ASSUME NEW p, NEW r, Kept(p, r), NEW ever, NEW more, ever \subseteq more,
         NEW lost, NEW later, lost \subseteq later, Sound(p, ever, lost)
  PROVE  Sound(r, more, later)
<1>1. /\ Used(r) = Used(p) /\ Used(p) \subseteq Task
      /\ \A t \in Task : r[t].idempotency_key = p[t].idempotency_key
  BY KeptSame DEF Used
<1>2. QED
  BY <1>1 DEF Sound, InBooks, Single

LEMMA SameSound ==
  ASSUME NEW p, NEW ever, NEW more, ever \subseteq more,
         NEW lost, NEW later, lost \subseteq later, Sound(p, ever, lost)
  PROVE  Sound(p, more, later)
BY DEF Sound, InBooks, Single

LEMMA EmptySound == ASSUME NEW ever, NEW lost PROVE Sound(EmptyQueue, ever, lost)
BY EmptyQueueType DEF Sound, InBooks, Single

LEMMA KeptLacks ==
  ASSUME NEW p, NEW r, Kept(p, r), NEW S, NEW fewer, fewer \subseteq S, Lacks(p, S)
  PROVE  Lacks(r, fewer)
<1>1. /\ Used(r) = Used(p) /\ Used(p) \subseteq Task
      /\ \A t \in Task : r[t].idempotency_key = p[t].idempotency_key
  BY KeptSame DEF Used
<1>2. QED
  BY <1>1 DEF Lacks

\* A task is added, unless its key is taken.
LEMMA Added ==
  ASSUME NEW p \in Queue, NEW t \in Task, NEW new \in TaskRecord
  PROVE  /\ Add(p, t, new) \in Queue
         /\ \/ SameKey(p, new.idempotency_key) # {} /\ Add(p, t, new) = p
            \/ /\ SameKey(p, new.idempotency_key) = {}
               /\ Add(p, t, new)[t] = new
               /\ \A u \in Task : u # t => Add(p, t, new)[u] = p[u]
BY PutKept DEF Add

\* A check is added: nothing about deliveries changes.
LEMMA AddedCheckSound ==
  ASSUME NEW p \in Queue, NEW t \in Task, NEW new \in TaskRecord, new.idempotency_key \in Cycle,
         NEW ever, NEW lost, Sound(p, ever, lost)
  PROVE  Sound(Add(p, t, new), ever, lost)
<1> DEFINE r == Add(p, t, new)
<1>1. \/ r = p
      \/ r[t] = new /\ \A u \in Task : u # t => r[u] = p[u]
  BY Added
<1> HIDE DEF r
<1>2. CASE r = p
  BY <1>2 DEF r
<1>3. CASE r[t] = new /\ \A u \in Task : u # t => r[u] = p[u]
  <2>1. new.idempotency_key \notin Pay
    BY SaleConstants
  <2>2. \A u \in Used(r) : u = t \/ (u \in Used(p) /\ u # t /\ r[u] = p[u])
    BY <1>3 DEF Used
  <2>3. InBooks(r, ever)
    BY <1>3, <2>1, <2>2 DEF Sound, InBooks
  <2>4. ASSUME NEW u \in Used(r), NEW v \in Used(r), r[u].idempotency_key \in Pay \ lost,
               r[u].idempotency_key = r[v].idempotency_key
        PROVE  u = v
    <3>1. u # t /\ v # t
      BY <1>3, <2>1, <2>4
    <3>2. u \in Used(p) /\ r[u] = p[u] /\ v \in Used(p) /\ r[v] = p[v]
      BY <2>2, <3>1
    <3>3. QED
      BY <2>4, <3>2 DEF Sound, Single
  <2>5. QED
    BY <2>3, <2>4 DEF Sound, Single, r
<1>4. QED
  BY <1>1, <1>2, <1>3

\* The DELIVER tasks of the payments s.
SpawnedAt(s, t) == NewTask(s[t - lastId], {}, 7, FALSE, 0)

LEMMA Spawned ==
  ASSUME NEW p \in Queue, NEW s \in Seq(Pay), lastId \in Nat
  PROVE  /\ Spawn(p, s) \in Queue
         /\ \A t \in Task :
               \/ Spawn(p, s)[t] = p[t]
               \/ /\ t - lastId \in DOMAIN s /\ Spawn(p, s)[t] = SpawnedAt(s, t)
                  /\ SpawnedAt(s, t).idempotency_key = s[t - lastId]
                  /\ SpawnedAt(s, t).status = "PENDING"
                  /\ SpawnedAt(s, t).depends_on = {}
                  /\ SpawnedAt(s, t).requires_approval = FALSE
         /\ \A t \in Task :
               t - lastId \in DOMAIN s /\ SameKey(p, s[t - lastId]) = {} =>
                  Spawn(p, s)[t] = SpawnedAt(s, t)
<1>1. ASSUME NEW t \in Task, t - lastId \in DOMAIN s
      PROVE  /\ SpawnedAt(s, t) \in TaskRecord
             /\ SpawnedAt(s, t).idempotency_key = s[t - lastId]
             /\ SpawnedAt(s, t).status = "PENDING"
             /\ SpawnedAt(s, t).depends_on = {}
             /\ SpawnedAt(s, t).requires_approval = FALSE
  <2>1. PICK k \in Pay : k = s[t - lastId]
    BY <1>1, ElementOfSeq
  <2>2. SpawnedAt(s, t) = NewTask(k, {}, 7, FALSE, 0)
    BY <2>1 DEF SpawnedAt
  <2>3. QED
    BY <2>1, <2>2, NewDeliverType
<1>2. ASSUME NEW t \in Task
      PROVE  Spawn(p, s)[t] = IF t - lastId \in DOMAIN s /\ SameKey(p, s[t - lastId]) = {}
                              THEN SpawnedAt(s, t) ELSE p[t]
  BY DEF Spawn, SpawnedAt
<1>3. \A t \in Task : Spawn(p, s)[t] \in TaskRecord
  BY <1>1, <1>2, RecordOfTask
<1>4. Spawn(p, s) \in Queue
  BY <1>3 DEF Spawn, Queue
<1>5. QED
  BY <1>1, <1>2, <1>4

\* DELIVER tasks for payments in the books: where the queue has none yet, there
\* is one now.
LEMMA SpawnedSound ==
  ASSUME NEW p \in Queue, NEW s \in Seq(Pay), lastId \in Nat,
         \A i, j \in DOMAIN s : s[i] = s[j] => i = j,
         NEW ever, NEW lost, Sound(p, ever, lost),
         {s[i] : i \in DOMAIN s} \subseteq ever, Lacks(p, {s[i] : i \in DOMAIN s} \ lost)
  PROVE  Sound(Spawn(p, s), ever, lost)
<1> DEFINE r == Spawn(p, s)
           spawned == {s[i] : i \in DOMAIN s}
<1>1. \A t \in Used(r) :
         \/ t \in Used(p) /\ r[t] = p[t]
         \/ t - lastId \in DOMAIN s /\ r[t].idempotency_key = s[t - lastId]
  <2>1. \A t \in Task :
           \/ r[t] = p[t]
           \/ t - lastId \in DOMAIN s /\ r[t].idempotency_key = s[t - lastId]
    <3>1. TAKE t \in Task
    <3>2. \/ Spawn(p, s)[t] = p[t]
          \/ /\ t - lastId \in DOMAIN s /\ Spawn(p, s)[t] = SpawnedAt(s, t)
             /\ SpawnedAt(s, t).idempotency_key = s[t - lastId]
      BY Spawned
    <3>3. QED
      BY <3>2
  <2> HIDE DEF r
  <2>2. QED
    BY <2>1 DEF Used
<1>2. \A i \in DOMAIN s : s[i] \in spawned
  OBVIOUS
<1> HIDE DEF r, spawned
<1>3. \A t \in Used(p) : p[t].idempotency_key \notin spawned \ lost
  BY DEF Lacks, spawned
<1>4. InBooks(r, ever)
  BY <1>1, <1>2 DEF Sound, InBooks, spawned
<1>5. ASSUME NEW t \in Used(r), NEW u \in Used(r), r[t].idempotency_key \in Pay \ lost,
             r[t].idempotency_key = r[u].idempotency_key
      PROVE  t = u
  <2>1. t \in Int /\ u \in Int /\ lastId \in Int
    BY DEF Used, Task
  <2>2. CASE t - lastId \in DOMAIN s /\ r[t].idempotency_key = s[t - lastId]
    <3>1. r[u].idempotency_key \in spawned \ lost
      BY <1>2, <1>5, <2>2
    <3>2. u - lastId \in DOMAIN s /\ r[u].idempotency_key = s[u - lastId]
      BY <1>1, <1>3, <3>1
    <3>3. t - lastId = u - lastId
      BY <1>5, <2>2, <3>2
    <3>4. QED
      BY <2>1, <3>3
  <2>3. CASE t \in Used(p) /\ r[t] = p[t]
    <3>1. ~(u - lastId \in DOMAIN s /\ r[u].idempotency_key = s[u - lastId])
      BY <1>2, <1>3, <1>5, <2>3
    <3>2. u \in Used(p) /\ r[u] = p[u]
      BY <1>1, <3>1
    <3>3. QED
      BY <1>5, <2>3, <3>2 DEF Sound, Single
  <2>4. QED
    BY <1>1, <2>2, <2>3
<1>6. QED
  BY <1>4, <1>5 DEF Sound, Single, r

(***************************************************************************)
(* Part 3.  The steps of one process, whatever the others do meanwhile.    *)
(***************************************************************************)
LEMMA VersionsSound ==
  ASSUME IInv
  PROVE  /\ Sound(tasks, EverBooked, dropped)
         /\ \A w \in Worker : Sound(wq[w], EverBooked, dropped)
         /\ tasks \in Queue /\ \A w \in Worker : wq[w] \in Queue
         /\ lastId \in Nat
<1>1. MaxTasks \in Nat
  BY TaskConstants
<1>2. QED
  BY <1>1 DEF IInv, TypeOK, QueueInv, Versions

LEMMA TruthfulStays ==
  ASSUME NEW record, NEW outbox, NEW more, NEW ever, NEW later, ever \subseteq later,
         \A p \in Pay : outbox[p] > 0 => more[p] > 0, record \in OppRecord,
         Truthful(record, outbox, ever)
  PROVE  Truthful(record, more, later)
<1>1. record.deliveries \subseteq Pay
  BY DEF OppRecord
<1>2. QED
  BY <1>1 DEF Truthful

Label == {"idle", "loaded", "claimed", "booking", "saving", "ran", "recorded",
          "delivering", "moving", "accepting", "bookkeeping"}

BooksRecord == [event : Pay \cup {NonePay}, rows : SUBSET Pay]

Result == {"none", "ok", "retry", "fail"}

WorkerTyped(w) ==
    /\ pc[w] \in Label /\ wq[w] \in Queue /\ wtask[w] \in Task \cup {NoneTask}
    /\ polled[w] \in SUBSET Pay /\ books[w] \in BooksRecord /\ booked[w] \in Seq(Pay)
    /\ unsold[w] \in BOOLEAN /\ takings[w] \in BOOLEAN /\ outcome[w] \in Result

\* A step of w leaves what belongs to the others alone.
Only(w) ==
    /\ \A a \in Process : a # w => pc'[a] = pc[a]
    /\ \A v \in Worker : v # w =>
          /\ wq'[v] = wq[v] /\ wtask'[v] = wtask[v]
          /\ polled'[v] = polled[v] /\ books'[v] = books[v] /\ booked'[v] = booked[v]
          /\ unsold'[v] = unsold[v] /\ takings'[v] = takings[v] /\ outcome'[v] = outcome[v]
    /\ pc' = [a \in Process |-> pc'[a]] /\ overlaps' \in 0..MaxOverlaps
    /\ wq' = [v \in Worker |-> wq'[v]] /\ wtask' = [v \in Worker |-> wtask'[v]]
    /\ polled' = [v \in Worker |-> polled'[v]] /\ books' = [v \in Worker |-> books'[v]]
    /\ booked' = [v \in Worker |-> booked'[v]]
    /\ unsold' = [v \in Worker |-> unsold'[v]] /\ takings' = [v \in Worker |-> takings'[v]]
    /\ outcome' = [v \in Worker |-> outcome'[v]]
    /\ UNCHANGED human

HumanOnly(h) ==
    /\ \A a \in Process : a # h => pc'[a] = pc[a]
    /\ \A g \in Human : g # h =>
          hopp'[g] = hopp[g] /\ hpay'[g] = hpay[g] /\ hledger'[g] = hledger[g]
    /\ pc' = [a \in Process |-> pc'[a]] /\ overlaps' \in 0..MaxOverlaps
    /\ hopp' = [g \in Human |-> hopp'[g]] /\ hpay' = [g \in Human |-> hpay'[g]]
    /\ hledger' = [g \in Human |-> hledger'[g]]
    /\ UNCHANGED <<worker, paid>>

LEMMA Facts ==
  ASSUME IInv, NEW w \in Worker
  PROVE  /\ ledger \subseteq paid /\ paid \subseteq Pay /\ dropped \subseteq Pay
         /\ sent \in [Pay -> 0..2] /\ opp \in OppRecord /\ lastId \in 0..MaxTasks
         /\ WorkerTyped(w) /\ BooksOK(w) /\ Own(w) /\ WorkOK(w)
         /\ Truthful(opp, sent, EverBooked) /\ SentInv
BY DEF IInv, TypeOK, BookInv, OwnInv, WorkInv, RecordInv, Process, Label, WorkerTyped,
       BooksRecord, Result

LEMMA HumanFacts ==
  ASSUME IInv, NEW h \in Human
  PROVE  /\ pc \in [Process -> Label] /\ h \in Process
         /\ hopp \in [Human -> OppRecord] /\ hpay \in [Human -> Pay \cup {NonePay}]
         /\ hledger \in [Human -> SUBSET Pay] /\ hledger[h] \subseteq paid
         /\ ledger \subseteq paid /\ paid \subseteq Pay /\ dropped \subseteq Pay
         /\ sent \in [Pay -> 0..2] /\ opp \in OppRecord /\ lastId \in 0..MaxTasks
         /\ Truthful(opp, sent, EverBooked) /\ Truthful(hopp[h], sent, EverBooked) /\ SentInv
         /\ pc[h] \in {"delivering", "moving"} => hpay[h] \in Pay /\ sent[hpay[h]] > 0
BY DEF IInv, TypeOK, BookInv, RecordInv, Process, Label

LEMMA Functions ==
  ASSUME IInv, NEW w \in Worker
  PROVE  /\ pc \in [Process -> Label] /\ w \in Process
         /\ wq \in [Worker -> Queue] /\ wtask \in [Worker -> Task \cup {NoneTask}]
         /\ polled \in [Worker -> SUBSET Pay] /\ books \in [Worker -> BooksRecord]
         /\ booked \in [Worker -> Seq(Pay)]
         /\ unsold \in [Worker -> BOOLEAN] /\ takings \in [Worker -> BOOLEAN]
         /\ outcome \in [Worker -> Result]
BY DEF IInv, TypeOK, Process, Label, BooksRecord, Result

LEMMA Begins ==
  ASSUME IInv, NEW a \in Process, NEW label, Begin(a, label)
  PROVE  /\ pc[a] = "idle" /\ pc' = [pc EXCEPT ![a] = label]
         /\ overlaps' \in 0..MaxOverlaps
<1>1. overlaps \in 0..MaxOverlaps /\ MaxOverlaps \in Nat
  BY SaleConstants DEF IInv, TypeOK
<1>2. QED
  BY <1>1 DEF Begin

LEMMA Goes ==
  ASSUME IInv, NEW a, NEW label, Goto(a, label)
  PROVE  /\ pc' = [pc EXCEPT ![a] = label] /\ overlaps' \in 0..MaxOverlaps
BY DEF Goto, IInv, TypeOK

LEMMA BooksKept == ASSUME UNCHANGED <<ledger, dropped>> PROVE EverBooked' = EverBooked
BY DEF EverBooked

LEMMA KeptItself == ASSUME NEW p PROVE Kept(p, p) /\ SameLive(p, p)
BY DEF Kept, TaskKept, SameLive

LEMMA OnlyType ==
  ASSUME IInv, NEW w \in Worker, Only(w), paid' = paid, ledger' \subseteq Pay,
         dropped' \subseteq Pay,
         tasks' \in Queue, opp' \in OppRecord, lastId' \in 0..MaxTasks, sent' \in [Pay -> 0..2],
         WorkerTyped(w)'
  PROVE  TypeOK'
<1>1. TypeOK
  BY DEF IInv
<1>2. ASSUME NEW v \in Worker PROVE WorkerTyped(v)'
  <2>1. CASE v = w
    BY <2>1
  <2>2. CASE v # w
    <3>1. WorkerTyped(v) /\ pc'[v] = pc[v]
      BY <2>2, Facts DEF Only, Process
    <3>2. QED
      BY <2>2, <3>1 DEF Only, WorkerTyped
  <2>3. QED
    BY <2>1, <2>2
<1>3. pc' \in [Process -> Label]
  <2>1. \A a \in Process : pc'[a] \in Label
    BY <1>1 DEF Only, TypeOK, Label, WorkerTyped
  <2>2. QED
    BY <2>1 DEF Only
<1>4. wq' \in [Worker -> Queue] /\ wtask' \in [Worker -> Task \cup {NoneTask}]
  BY <1>2 DEF Only, WorkerTyped
<1>5. polled' \in [Worker -> SUBSET Pay] /\ books' \in [Worker -> BooksRecord]
  BY <1>2 DEF Only, WorkerTyped
<1>6. unsold' \in [Worker -> BOOLEAN] /\ takings' \in [Worker -> BOOLEAN]
  BY <1>2 DEF Only, WorkerTyped
<1>7. outcome' \in [Worker -> Result] /\ booked' \in [Worker -> Seq(Pay)]
  BY <1>2 DEF Only, WorkerTyped
<1>8. QED
  BY <1>1, <1>3, <1>4, <1>5, <1>6, <1>7
     DEF Only, TypeOK, human, Label, BooksRecord, Result

\* What a worker's own step has to show.
LEMMA WorkerStep ==
  ASSUME IInv, NEW w \in Worker, Only(w), TypeOK', SentInv', paid' = paid,
         ledger' \subseteq paid, EverBooked \subseteq EverBooked', dropped \subseteq dropped',
         \A p \in Pay : sent[p] > 0 => sent'[p] > 0,
         Sound(tasks', EverBooked', dropped'), Sound(wq'[w], EverBooked', dropped'),
         BooksOK(w)', Own(w)', WorkOK(w)', Truthful(opp', sent', EverBooked')
  PROVE  IInv'
<1>1. ASSUME NEW v \in Worker, v # w
      PROVE  /\ pc'[v] = pc[v] /\ wq'[v] = wq[v] /\ wtask'[v] = wtask[v]
             /\ polled'[v] = polled[v] /\ books'[v] = books[v] /\ booked'[v] = booked[v]
             /\ takings'[v] = takings[v] /\ outcome'[v] = outcome[v]
  BY <1>1 DEF Only, Process
<1>2. QueueInv'
  <2>1. \A v \in Worker : v # w => Sound(wq'[v], EverBooked', dropped')
    BY <1>1, VersionsSound, SameSound
  <2>2. QED
    BY <2>1 DEF QueueInv, Versions
<1>3. OwnInv'
  <2>1. ASSUME NEW v \in Worker, v # w PROVE Own(v)'
    <3>1. BookedBy(v)' = BookedBy(v) /\ Coming(v)' = Coming(v) /\ wq'[v] = wq[v]
      BY <1>1, <2>1 DEF BookedBy, Coming
    <3>2. Unspawned(v)' = Unspawned(v)
      BY <1>1, <2>1, <3>1 DEF Unspawned
    <3>3. Lacks(wq[v], Unspawned(v) \ dropped)
      BY Facts DEF Own
    <3>4. QED
      BY <3>1, <3>2, <3>3 DEF Own, Lacks
  <2>2. QED
    BY <2>1 DEF OwnInv
<1>4. BookInv'
  <2>1. ASSUME NEW v \in Worker, v # w PROVE BooksOK(v)'
    <3>1. BooksOK(v)
      BY Facts
    <3>2. QED
      BY <1>1, <2>1, <3>1 DEF BooksOK, BookedBy
  <2>2. hledger' = hledger /\ BookInv
    BY DEF Only, human, IInv
  <2>3. QED
    BY <2>1, <2>2 DEF BookInv
<1>5. WorkInv'
  <2>1. ASSUME NEW v \in Worker, v # w PROVE WorkOK(v)'
    <3>1. WorkOK(v) /\ KeyOf(v)' = KeyOf(v)
      BY <1>1, <2>1, Facts DEF KeyOf
    <3>2. QED
      BY <1>1, <2>1, <3>1 DEF WorkOK
  <2>2. QED
    BY <2>1 DEF WorkInv
<1>6. RecordInv'
  <2>1. ASSUME NEW h \in Human
        PROVE  /\ Truthful(hopp'[h], sent', EverBooked')
               /\ pc'[h] \in {"delivering", "moving"} => hpay'[h] \in Pay /\ sent'[hpay'[h]] > 0
    <3>1. h # w /\ h \in Process /\ hopp' = hopp /\ hpay' = hpay
      BY SaleConstants DEF Process, human, Only
    <3>2. Truthful(hopp[h], sent', EverBooked')
      BY HumanFacts, TruthfulStays
    <3>3. pc'[h] = pc[h]
      BY <3>1 DEF Only
    <3>4. QED
      BY <3>1, <3>2, <3>3, HumanFacts
  <2>2. QED
    BY <2>1 DEF RecordInv
<1>7. QED
  BY <1>2, <1>3, <1>4, <1>5, <1>6 DEF IInv

\* The steps of a worker that leave the ledger alone.
LEMMA WorkerMoves ==
  ASSUME IInv, NEW w \in Worker, Only(w), UNCHANGED <<paid, ledger, dropped>>,
         tasks' \in Queue, opp' \in OppRecord, lastId' \in 0..MaxTasks, sent' \in [Pay -> 0..2],
         \A p \in Pay : sent[p] > 0 => sent'[p] > 0, SentInv',
         Sound(tasks', EverBooked, dropped), Sound(wq'[w], EverBooked, dropped),
         WorkerTyped(w)', BooksOK(w)', Own(w)', WorkOK(w)',
         Truthful(opp', sent', EverBooked)
  PROVE  IInv'
<1>1. EverBooked' = EverBooked /\ dropped' = dropped /\ ledger' = ledger /\ paid' = paid
  BY BooksKept
<1>2. TypeOK'
  BY <1>1, Facts, OnlyType
<1>3. QED
  BY <1>1, <1>2, Facts, WorkerStep

\* Where the queue of w and the file come from versions there were.
LEMMA VersionsKept ==
  ASSUME IInv, NEW w \in Worker, NEW p, NEW r, Kept(p, r), p = tasks \/ p = wq[w]
  PROVE  Sound(r, EverBooked, dropped)
BY VersionsSound, KeptSound

\* w spawns no task that it still is to spawn.
LEMMA OwnKept ==
  ASSUME IInv, NEW w \in Worker, dropped' = dropped,
         \/ Unspawned(w)' = {}
         \/ Kept(wq[w], wq'[w]) /\ Unspawned(w)' \subseteq Unspawned(w)
  PROVE  Own(w)'
<1>1. CASE Unspawned(w)' = {}
  BY <1>1 DEF Own, Lacks
<1>2. CASE Kept(wq[w], wq'[w]) /\ Unspawned(w)' \subseteq Unspawned(w)
  <2>1. Lacks(wq[w], Unspawned(w) \ dropped)
    BY Facts DEF Own
  <2>2. Unspawned(w)' \ dropped' \subseteq Unspawned(w) \ dropped
    BY <1>2
  <2>3. QED
    BY <1>2, <2>1, <2>2, KeptLacks DEF Own
<1>3. QED
  BY <1>1, <1>2

\* A worker that books nothing keeps what it has booked, or forgets it.
LEMMA BooksStay ==
  ASSUME IInv, NEW w \in Worker, UNCHANGED <<paid, ledger, dropped>>,
         polled'[w] \subseteq polled[w], books'[w] = books[w], booked'[w] = booked[w],
         takings'[w] = takings[w] \/ (takings'[w] => ledger # {}),
         booked[w] # <<>> => pc'[w] \in {"booking", "saving", "ran", "recorded"},
         pc'[w] # "saving"
  PROVE  BooksOK(w)' /\ BookedBy(w)' = BookedBy(w)
<1>1. BookedBy(w)' = BookedBy(w) /\ EverBooked' = EverBooked /\ ledger \subseteq EverBooked
  BY DEF BookedBy, EverBooked
<1>2. BooksOK(w)
  BY Facts
<1>3. QED
  BY <1>1, <1>2 DEF BooksOK

LEMMA EmptyBooks ==
  ASSUME NEW w \in Worker, polled'[w] = {}, books'[w] = NoBooks, booked'[w] = <<>>,
         takings'[w] = FALSE, pc'[w] # "saving"
  PROVE  BooksOK(w)' /\ BookedBy(w)' = {}
BY SMT DEF BooksOK, BookedBy, NoBooks

\* A worker forgets what it did, whether it is through or dies.
LEMMA Forgets ==
  ASSUME IInv, NEW w \in Worker, Forget(w), UNCHANGED human
  PROVE  /\ Only(w) /\ pc'[w] = "idle" /\ wq'[w] = EmptyQueue /\ polled'[w] = {}
         /\ Unspawned(w)' = {} /\ BooksOK(w)' /\ WorkOK(w)' /\ WorkerTyped(w)'
<1>1. /\ pc' = [pc EXCEPT ![w] = "idle"] /\ overlaps' \in 0..MaxOverlaps
  BY Goes DEF Forget
<1>2. /\ pc'[w] = "idle" /\ wq'[w] = EmptyQueue /\ wtask'[w] = NoneTask
      /\ polled'[w] = {} /\ books'[w] = NoBooks /\ booked'[w] = <<>>
      /\ outcome'[w] = "none"
  BY <1>1, Functions DEF Forget
<1>3. unsold'[w] = FALSE /\ takings'[w] = FALSE
  BY Functions DEF Forget
<1>4. Only(w)
  BY <1>1, Functions DEF Forget, Only
<1>5. Unspawned(w)' = {} /\ WorkOK(w)'
  BY <1>2 DEF Unspawned, WorkOK
<1>6. WorkerTyped(w)'
  <2>1. NoBooks \in BooksRecord
    BY DEF NoBooks, BooksRecord
  <2>2. QED
    BY <1>2, <1>3, <2>1, EmptyQueueType, EmptySeq DEF WorkerTyped, Label, Result
<1>7. BooksOK(w)'
  BY <1>2, <1>3, EmptyBooks
<1>8. QED
  BY <1>2, <1>4, <1>5, <1>6, <1>7

LEMMA LoadQueueStep == ASSUME IInv, NEW w \in Worker, LoadQueue(w) PROVE IInv'
<1>1. PICK q : q = Housekept(tasks)
  OBVIOUS
<1>2. q \in Queue /\ Kept(tasks, q)
  BY <1>1, VersionsSound, HousekeptKept
<1>3. /\ pc[w] = "idle" /\ pc' = [pc EXCEPT ![w] = "loaded"] /\ overlaps' \in 0..MaxOverlaps
  BY Begins DEF LoadQueue, Process
<1>4. Only(w)
  BY <1>3, Functions DEF LoadQueue, results, Only
<1>5. /\ pc'[w] = "loaded" /\ wq'[w] = q /\ tasks' = tasks
      /\ UNCHANGED <<paid, ledger, dropped, sent, opp, lastId, wtask, polled, books, booked,
                     unsold, takings, outcome>>
  BY <1>1, <1>3, Functions DEF LoadQueue, world, results
<1>6. booked[w] = <<>>
  BY <1>3, Facts DEF BooksOK
<1>7. BooksOK(w)'
  BY <1>5, <1>6, BooksStay
<1>8. Unspawned(w)' = {} /\ WorkOK(w)'
  BY <1>5 DEF Unspawned, WorkOK
<1>9. Own(w)'
  BY <1>5, <1>8, OwnKept
<1>10. Sound(q, EverBooked, dropped) /\ Sound(tasks', EverBooked, dropped)
  BY <1>2, <1>5, VersionsKept, KeptItself
<1>11. WorkerTyped(w)' /\ SentInv'
  BY <1>2, <1>5, BooksKept, Facts DEF WorkerTyped, Label, SentInv
<1>12. QED
  BY <1>4, <1>5, <1>7, <1>8, <1>9, <1>10, <1>11, Facts, VersionsSound, WorkerMoves

LEMMA NothingReadyStep == ASSUME IInv, NEW w \in Worker, NothingReady(w) PROVE IInv'
<1>1. /\ Only(w) /\ pc'[w] = "idle" /\ wq'[w] = EmptyQueue
      /\ Unspawned(w)' = {} /\ BooksOK(w)' /\ WorkOK(w)' /\ WorkerTyped(w)'
  BY Forgets DEF NothingReady
<1>2. tasks' = wq[w] /\ UNCHANGED <<paid, ledger, dropped, sent, opp, lastId>>
  BY DEF NothingReady, world
<1>3. Sound(tasks', EverBooked, dropped) /\ Sound(wq'[w], EverBooked, dropped)
  BY <1>1, <1>2, VersionsKept, KeptItself, EmptySound
<1>4. SentInv' /\ tasks' \in Queue /\ Own(w)'
  BY <1>1, <1>2, BooksKept, Facts, VersionsSound, OwnKept DEF SentInv
<1>5. QED
  BY <1>1, <1>2, <1>3, <1>4, Facts, WorkerMoves

LEMMA CrashWorkerStep == ASSUME IInv, NEW w \in Worker, CrashWorker(w) PROVE IInv'
<1>1. /\ Only(w) /\ pc'[w] = "idle" /\ wq'[w] = EmptyQueue
      /\ Unspawned(w)' = {} /\ BooksOK(w)' /\ WorkOK(w)' /\ WorkerTyped(w)'
  BY Forgets DEF CrashWorker
<1>2. UNCHANGED <<paid, ledger, dropped, sent, opp, lastId, tasks>>
  BY DEF CrashWorker, world
<1>3. Sound(tasks', EverBooked, dropped) /\ Sound(wq'[w], EverBooked, dropped)
  BY <1>1, <1>2, VersionsKept, KeptItself, EmptySound
<1>4. SentInv' /\ tasks' \in Queue /\ Own(w)'
  BY <1>1, <1>2, BooksKept, Facts, VersionsSound, OwnKept DEF SentInv
<1>5. QED
  BY <1>1, <1>2, <1>3, <1>4, Facts, WorkerMoves

LEMMA ClaimReadyStep == ASSUME IInv, NEW w \in Worker, ClaimReady(w) PROVE IInv'
<1>1. PICK t \in NextReady(wq[w]) :
          /\ wq' = [wq EXCEPT ![w] = Claim(wq[w], t)]
          /\ tasks' = Claim(wq[w], t)
          /\ wtask' = [wtask EXCEPT ![w] = t]
  BY DEF ClaimReady
<1>2. PICK q : q = Claim(wq[w], t)
  OBVIOUS
<1>3. /\ q \in Queue /\ Kept(wq[w], q) /\ t \in Task /\ q[t].status \in Live
  BY <1>2, VersionsSound, ClaimKept
<1>4. /\ pc' = [pc EXCEPT ![w] = "claimed"] /\ overlaps' \in 0..MaxOverlaps
  BY Goes DEF ClaimReady
<1>5. Only(w)
  BY <1>1, <1>4, Functions DEF ClaimReady, results, Only
<1>6. /\ pc'[w] = "claimed" /\ wq'[w] = q /\ tasks' = q /\ wtask'[w] = t /\ pc[w] = "loaded"
      /\ UNCHANGED <<paid, ledger, dropped, sent, opp, lastId, polled, books, booked,
                     unsold, takings, outcome>>
  BY <1>1, <1>2, <1>4, Functions DEF ClaimReady, world, results
<1>7. booked[w] = <<>>
  BY <1>6, Facts DEF BooksOK
<1>8. BooksOK(w)'
  BY <1>6, <1>7, BooksStay
<1>9. Unspawned(w)' = {} /\ WorkOK(w)'
  BY <1>3, <1>6 DEF Unspawned, WorkOK, Used, Live
<1>10. Own(w)' /\ Sound(q, EverBooked, dropped)
  BY <1>3, <1>6, <1>9, OwnKept, VersionsKept
<1>11. WorkerTyped(w)' /\ SentInv'
  BY <1>3, <1>6, BooksKept, Facts DEF WorkerTyped, Label, SentInv
<1>12. QED
  BY <1>3, <1>5, <1>6, <1>8, <1>9, <1>10, <1>11, Facts, WorkerMoves

LEMMA PollStep == ASSUME IInv, NEW w \in Worker, Poll(w) PROVE IInv'
<1>1. /\ pc' = [pc EXCEPT ![w] = "booking"] /\ overlaps' \in 0..MaxOverlaps
  BY Goes DEF Poll
<1>2. Only(w)
  BY <1>1, Functions DEF Poll, Only
<1>3. /\ pc'[w] = "booking" /\ pc[w] = "claimed" /\ KeyOf(w) \in Cycle
      /\ polled'[w] \in {paid, {}} /\ unsold'[w] \in BOOLEAN
      /\ UNCHANGED <<paid, ledger, dropped, sent, opp, tasks, lastId, wq, wtask, books, booked,
                     takings, outcome>>
  BY <1>1, Functions DEF Poll, world
<1>4. booked[w] = <<>>
  BY <1>3, Facts DEF BooksOK
<1>5. BookedBy(w) = {} /\ BookedBy(w)' = {}
  BY <1>3, <1>4 DEF BookedBy
<1>6. BooksOK(w)'
  BY <1>3, <1>4, <1>5, BooksKept, Facts DEF BooksOK
<1>7. Unspawned(w)' = {}
  BY <1>3, <1>5 DEF Unspawned, Coming
<1>8. WorkOK(w)'
  BY <1>3, Facts DEF WorkOK, KeyOf
<1>9. /\ Own(w)' /\ Sound(tasks', EverBooked, dropped) /\ Sound(wq'[w], EverBooked, dropped)
  BY <1>3, <1>7, OwnKept, VersionsKept, KeptItself
<1>10. WorkerTyped(w)' /\ SentInv'
  BY <1>3, BooksKept, Facts DEF WorkerTyped, Label, SentInv
<1>11. QED
  BY <1>2, <1>3, <1>6, <1>8, <1>9, <1>10, Facts, VersionsSound, WorkerMoves

LEMMA PollFailsStep == ASSUME IInv, NEW w \in Worker, PollFails(w) PROVE IInv'
<1>1. /\ pc' = [pc EXCEPT ![w] = "ran"] /\ overlaps' \in 0..MaxOverlaps
  BY Goes DEF PollFails
<1>2. Only(w)
  BY <1>1, Functions DEF PollFails, Only
<1>3. /\ pc'[w] = "ran" /\ pc[w] = "claimed" /\ outcome'[w] \in {"retry", "fail"}
      /\ UNCHANGED <<paid, ledger, dropped, sent, opp, tasks, lastId, wq, wtask, polled, books,
                     booked, unsold, takings>>
  BY <1>1, Functions DEF PollFails, world
<1>4. booked[w] = <<>>
  BY <1>3, Facts DEF BooksOK
<1>5. BooksOK(w)'
  BY <1>3, <1>4, BooksStay
<1>6. Unspawned(w)' = {}
  BY <1>3, <1>4 DEF Unspawned, BookedBy, Coming
<1>7. WorkOK(w)'
  BY <1>3, Facts DEF WorkOK, KeyOf
<1>8. /\ Own(w)' /\ Sound(tasks', EverBooked, dropped) /\ Sound(wq'[w], EverBooked, dropped)
  BY <1>3, <1>6, OwnKept, VersionsKept, KeptItself
<1>9. WorkerTyped(w)' /\ SentInv'
  BY <1>3, BooksKept, Facts DEF WorkerTyped, Label, Result, SentInv
<1>10. QED
  BY <1>2, <1>3, <1>5, <1>7, <1>8, <1>9, Facts, VersionsSound, WorkerMoves

LEMMA AllBookedStep == ASSUME IInv, NEW w \in Worker, AllBooked(w) PROVE IInv'
<1>1. /\ pc' = [pc EXCEPT ![w] = "ran"] /\ overlaps' \in 0..MaxOverlaps
  BY Goes DEF AllBooked
<1>2. Only(w)
  BY <1>1, Functions DEF AllBooked, Only
<1>3. /\ pc'[w] = "ran" /\ pc[w] = "booking" /\ outcome'[w] = "ok"
      /\ UNCHANGED <<paid, ledger, dropped, sent, opp, tasks, lastId, wq, wtask, polled, books,
                     booked, unsold>>
  BY <1>1, Functions DEF AllBooked, world
<1>4. takings'[w] \in BOOLEAN /\ (takings'[w] => ledger # {})
  <2>1. PICK b \in BOOLEAN : b = (ledger # {})
    OBVIOUS
  <2>2. takings' = [takings EXCEPT ![w] = b]
    BY <2>1 DEF AllBooked
  <2>3. takings'[w] = b
    BY <2>2, Functions
  <2>4. QED
    BY <2>1, <2>3
<1>5. BooksOK(w)' /\ BookedBy(w)' = BookedBy(w)
  BY <1>3, <1>4, BooksStay
<1>6. Unspawned(w)' \subseteq Unspawned(w)
  BY <1>3, <1>5 DEF Unspawned, Coming
<1>7. WorkOK(w)'
  <2>1. KeyOf(w)' = KeyOf(w) /\ KeyOf(w) \notin Pay /\ wtask[w] \in Used(wq[w])
    BY <1>3, Facts, SaleConstants DEF WorkOK, KeyOf
  <2>2. QED
    BY <1>3, <2>1 DEF WorkOK
<1>8. /\ Own(w)' /\ Sound(tasks', EverBooked, dropped) /\ Sound(wq'[w], EverBooked, dropped)
  BY <1>3, <1>6, OwnKept, VersionsKept, KeptItself
<1>9. WorkerTyped(w)' /\ SentInv'
  BY <1>3, <1>4, BooksKept, Facts DEF WorkerTyped, Label, Result, SentInv
<1>10. QED
  BY <1>2, <1>3, <1>5, <1>7, <1>8, <1>9, Facts, VersionsSound, WorkerMoves

LEMMA SendStep == ASSUME IInv, NEW w \in Worker, Send(w) PROVE IInv'
<1>1. /\ pc[w] = "claimed" /\ KeyOf(w) \in Pay
      /\ \/ /\ KeyOf(w) \in opp.deliveries /\ outcome' = [outcome EXCEPT ![w] = "ok"]
            /\ UNCHANGED sent
         \/ outcome' = [outcome EXCEPT ![w] = "fail"] /\ UNCHANGED sent
         \/ /\ outcome' = [outcome EXCEPT ![w] = "ok"]
            /\ sent' = [sent EXCEPT ![KeyOf(w)] = Once(sent[KeyOf(w)])]
         \/ outcome' = [outcome EXCEPT ![w] = "retry"] /\ UNCHANGED sent
      /\ Goto(w, "ran")
      /\ UNCHANGED <<paid, ledger, dropped, opp, tasks, lastId, wq, wtask, polled, books,
                     booked, unsold, takings, human>>
  BY DEF Send, DeliveredBefore
<1>2. pc' = [pc EXCEPT ![w] = "ran"] /\ overlaps' \in 0..MaxOverlaps
  BY <1>1, Goes
<1>3. Only(w)
  BY <1>1, <1>2, Functions DEF Only
<1>4. /\ pc'[w] = "ran" /\ outcome'[w] \in Result
      /\ outcome'[w] = "ok" =>
            \/ KeyOf(w) \in opp.deliveries /\ UNCHANGED sent
            \/ sent' = [sent EXCEPT ![KeyOf(w)] = Once(sent[KeyOf(w)])]
  BY <1>1, <1>2, Functions DEF Result
<1>5. /\ sent' \in [Pay -> 0..2] /\ \A p \in Pay : sent[p] > 0 => sent'[p] > 0
      /\ \A p \in Pay : p # KeyOf(w) => sent'[p] = sent[p]
      /\ outcome'[w] = "ok" => sent'[KeyOf(w)] > 0
  <2>1. Once(sent[KeyOf(w)]) \in 1..2
    BY DEF Once
  <2>2. KeyOf(w) \in opp.deliveries => sent[KeyOf(w)] > 0
    BY Facts DEF Truthful
  <2>3. sent \in [Pay -> 0..2] /\ KeyOf(w) \in Pay
    BY <1>1, Facts
  <2>4. PICK n : n = Once(sent[KeyOf(w)])
    OBVIOUS
  <2>5. n \in 0..2 /\ n > 0
    BY <2>1, <2>4
  <2>6. \/ UNCHANGED sent
        \/ sent' = [sent EXCEPT ![KeyOf(w)] = n]
    BY <1>1, <2>4
  <2>7. sent' \in [Pay -> 0..2] /\ \A p \in Pay : p # KeyOf(w) => sent'[p] = sent[p]
    BY <2>3, <2>5, <2>6
  <2>8. sent'[KeyOf(w)] = sent[KeyOf(w)] \/ sent'[KeyOf(w)] > 0
    BY <2>3, <2>5, <2>6
  <2>9. outcome'[w] = "ok" => sent'[KeyOf(w)] > 0
    BY <1>4, <2>2, <2>3, <2>4, <2>5
  <2>10. QED
    BY <2>7, <2>8, <2>9
<1>6. SentInv'
  <2>1. KeyOf(w) \in EverBooked
    <3>1. wtask[w] \in Used(wq[w])
      BY <1>1, Facts DEF WorkOK
    <3>2. InBooks(wq[w], EverBooked)
      BY VersionsSound DEF Sound
    <3>3. QED
      BY <1>1, <3>1, <3>2 DEF InBooks, KeyOf
  <2>2. QED
    BY <1>1, <1>5, <2>1, BooksKept, Facts DEF SentInv
<1>7. booked[w] = <<>>
  BY <1>1, Facts DEF BooksOK
<1>8. BooksOK(w)'
  BY <1>1, <1>4, <1>7, BooksStay
<1>9. Unspawned(w)' = {}
  BY <1>1, <1>4, <1>7 DEF Unspawned, BookedBy, Coming
<1>10. WorkOK(w)'
  <2>1. KeyOf(w)' = KeyOf(w) /\ wtask[w] \in Used(wq[w])
    BY <1>1, Facts DEF WorkOK, KeyOf
  <2>2. QED
    BY <1>1, <1>4, <1>5, <2>1 DEF WorkOK
<1>11. /\ Own(w)' /\ Sound(tasks', EverBooked, dropped) /\ Sound(wq'[w], EverBooked, dropped)
  BY <1>1, <1>9, OwnKept, VersionsKept, KeptItself
<1>12. Truthful(opp', sent', EverBooked)
  BY <1>1, <1>5, Facts, TruthfulStays
<1>13. WorkerTyped(w)'
  BY <1>1, <1>4, Facts DEF WorkerTyped, Label
<1>14. QED
  BY <1>1, <1>3, <1>5, <1>6, <1>8, <1>10, <1>11, <1>12, <1>13, Facts, VersionsSound,
     WorkerMoves

LEMMA LoadLedgerStep == ASSUME IInv, NEW w \in Worker, LoadLedger(w) PROVE IInv'
<1>1. PICK p \in polled[w] :
          \/ /\ p \in ledger
             /\ polled' = [polled EXCEPT ![w] = polled[w] \ {p}]
             /\ UNCHANGED <<pc, overlaps, books>>
          \/ /\ p \notin ledger
             /\ books' = [books EXCEPT ![w] = [event |-> p, rows |-> ledger]]
             /\ Goto(w, "saving")
             /\ UNCHANGED polled
  BY DEF LoadLedger, HasRef
<1>2. /\ pc[w] = "booking"
      /\ UNCHANGED <<paid, ledger, dropped, sent, opp, tasks, lastId, wq, wtask, booked,
                     unsold, takings, outcome, human>>
  BY DEF LoadLedger, world
<1>3. overlaps \in 0..MaxOverlaps
  BY DEF IInv, TypeOK
<1>4. BookedBy(w)' = BookedBy(w) /\ EverBooked' = EverBooked
  BY <1>2, BooksKept DEF BookedBy
<1>5. p \in paid /\ p \in Pay /\ p \in polled[w]
  BY Facts DEF BooksOK
<1>6. Sound(tasks', EverBooked, dropped) /\ Sound(wq'[w], EverBooked, dropped) /\ SentInv'
  BY <1>2, <1>4, VersionsSound, Facts DEF SentInv
<1>7. CASE /\ p \in ledger /\ polled' = [polled EXCEPT ![w] = polled[w] \ {p}]
           /\ UNCHANGED <<pc, overlaps, books>>
  <2>1. polled'[w] = polled[w] \ {p} /\ pc'[w] = "booking" /\ books'[w] = books[w]
    BY <1>2, <1>7, Functions
  <2>2. Only(w)
    BY <1>2, <1>3, <1>7, Functions DEF Only
  <2>3. BooksOK(w)'
    BY <1>2, <2>1, BooksStay, Facts DEF BooksOK
  <2>4. Unspawned(w)' \subseteq Unspawned(w)
    BY <1>2, <1>4, <2>1 DEF Unspawned, Coming
  <2>5. Own(w)' /\ WorkOK(w)'
    BY <1>2, <2>1, <2>4, OwnKept, KeptItself, Facts DEF WorkOK, KeyOf
  <2>6. WorkerTyped(w)'
    BY <1>2, <2>1, Facts DEF WorkerTyped, Label
  <2>7. QED
    BY <1>2, <1>6, <2>2, <2>3, <2>5, <2>6, Facts, VersionsSound, WorkerMoves
<1>8. CASE /\ p \notin ledger /\ books' = [books EXCEPT ![w] = [event |-> p, rows |-> ledger]]
           /\ Goto(w, "saving") /\ UNCHANGED polled
  <2>1. pc' = [pc EXCEPT ![w] = "saving"] /\ overlaps' \in 0..MaxOverlaps
    BY <1>8, Goes
  <2>2. /\ pc'[w] = "saving" /\ books'[w].event = p /\ books'[w].rows = ledger
        /\ polled'[w] = polled[w]
    BY <1>8, <2>1, Functions
  <2>3. Only(w)
    BY <1>2, <1>8, <2>1, Functions DEF Only
  <2>4. BooksOK(w)'
    BY <1>2, <1>4, <1>5, <2>2, Facts DEF BooksOK
  <2>5. Unspawned(w)' = BookedBy(w) \cup {p} /\ Unspawned(w) = BookedBy(w)
    BY <1>2, <1>4, <2>2 DEF Unspawned, Coming
  <2>6. Own(w)'
    <3>1. Lacks(wq[w], BookedBy(w) \ dropped)
      BY <2>5, Facts DEF Own
    <3>2. InBooks(wq[w], EverBooked)
      BY VersionsSound DEF Sound
    <3>3. p \notin dropped => \A t \in Used(wq[w]) : wq[w][t].idempotency_key # p
      BY <1>5, <1>8, <3>2 DEF InBooks, EverBooked
    <3>4. Lacks(wq[w], (BookedBy(w) \cup {p}) \ dropped)
      BY <3>1, <3>3 DEF Lacks
    <3>5. QED
      BY <1>2, <2>5, <3>4 DEF Own
  <2>7. WorkOK(w)'
    BY <1>2, <2>2, Facts DEF WorkOK, KeyOf
  <2>8. WorkerTyped(w)'
    <3>1. books'[w] \in BooksRecord
      BY <1>5, <1>8, Functions, Facts DEF BooksRecord
    <3>2. QED
      BY <1>2, <2>2, <3>1, Facts DEF WorkerTyped, Label
  <2>9. QED
    BY <1>2, <1>6, <2>3, <2>4, <2>6, <2>7, <2>8, Facts, VersionsSound, WorkerMoves
<1>9. QED
  BY <1>1, <1>7, <1>8

\* One more payment in the sequence of those booked.
LEMMA Longer ==
  ASSUME NEW s \in Seq(Pay), NEW p \in Pay, NEW r, r = Append(s, p),
         p \notin {s[i] : i \in DOMAIN s}, \A i, j \in DOMAIN s : s[i] = s[j] => i = j
  PROVE  /\ r \in Seq(Pay) /\ {r[i] : i \in DOMAIN r} = {s[i] : i \in DOMAIN s} \cup {p}
         /\ \A i, j \in DOMAIN r : r[i] = r[j] => i = j
<1>1. PICK n \in Nat : n = Len(s)
  BY LenProperties
<1>2. /\ r \in Seq(Pay) /\ Len(r) = n + 1
      /\ \A i \in 1..n : r[i] = s[i]
      /\ r[n + 1] = p
  BY <1>1, AppendProperties
<1>3. DOMAIN s = 1..n /\ DOMAIN r = 1..(n + 1)
  BY <1>1, <1>2, LenProperties
<1>4. \A i \in 1..(n + 1) : i \in 1..n \/ i = n + 1
  OBVIOUS
<1>5. n + 1 \in 1..(n + 1) /\ 1..n \subseteq 1..(n + 1)
  OBVIOUS
<1>6. {r[i] : i \in DOMAIN r} = {s[i] : i \in DOMAIN s} \cup {p}
  BY <1>2, <1>3, <1>4, <1>5
<1>7. \A k \in 1..n : s[k] # p
  BY <1>3
<1>8. ASSUME NEW i \in 1..(n + 1), NEW j \in 1..(n + 1), r[i] = r[j] PROVE i = j
  BY <1>2, <1>3, <1>4, <1>7, <1>8
<1>9. QED
  BY <1>2, <1>3, <1>6, <1>8

LEMMA SaveLedgerStep == ASSUME IInv, NEW w \in Worker, SaveLedger(w) PROVE IInv'
<1>1. PICK p : p = books[w].event
  OBVIOUS
<1>2. PICK rows : rows = books[w].rows \cup {p}
  OBVIOUS
<1>3. /\ pc[w] = "saving" /\ ledger' = rows
      /\ dropped' = dropped \cup (ledger \ rows)
      /\ booked' = [booked EXCEPT ![w] = Append(booked[w], p)]
      /\ polled' = [polled EXCEPT ![w] = polled[w] \ {p}]
      /\ books' = [books EXCEPT ![w] = NoBooks]
      /\ Goto(w, "booking")
      /\ UNCHANGED <<paid, sent, opp, tasks, lastId, wq, wtask, unsold, takings, outcome, human>>
  BY <1>1, <1>2 DEF SaveLedger, Losing
<1>4. pc' = [pc EXCEPT ![w] = "booking"] /\ overlaps' \in 0..MaxOverlaps
  BY <1>3, Goes
<1>5. Only(w)
  BY <1>3, <1>4, Functions DEF Only
<1>6. /\ pc'[w] = "booking" /\ booked'[w] = Append(booked[w], p)
      /\ polled'[w] = polled[w] \ {p} /\ books'[w] = NoBooks
  BY <1>3, <1>4, Functions
<1>7. /\ p \in polled[w] /\ p \in Pay /\ p \in paid /\ p \notin BookedBy(w)
      /\ rows \subseteq paid /\ booked[w] \in Seq(Pay)
  BY <1>1, <1>2, <1>3, Facts DEF BooksOK, WorkerTyped
<1>8. EverBooked \subseteq EverBooked' /\ dropped \subseteq dropped' /\ p \in EverBooked'
  BY <1>2, <1>3 DEF EverBooked
<1>9. /\ booked'[w] \in Seq(Pay) /\ BookedBy(w)' = BookedBy(w) \cup {p}
      /\ \A i, j \in DOMAIN booked'[w] : booked'[w][i] = booked'[w][j] => i = j
  <2>1. PICK s \in Seq(Pay) : s = booked[w]
    BY <1>7
  <2>2. PICK r : r = Append(s, p)
    OBVIOUS
  <2>3. p \notin {s[i] : i \in DOMAIN s} /\ \A i, j \in DOMAIN s : s[i] = s[j] => i = j
    BY <1>7, <2>1, Facts DEF BooksOK, BookedBy
  <2>4. /\ r \in Seq(Pay) /\ {r[i] : i \in DOMAIN r} = {s[i] : i \in DOMAIN s} \cup {p}
        /\ \A i, j \in DOMAIN r : r[i] = r[j] => i = j
    BY <1>7, <2>1, <2>2, <2>3, Longer
  <2>5. booked'[w] = r
    BY <1>6, <2>1, <2>2
  <2>6. BookedBy(w) = {s[i] : i \in DOMAIN s}
    BY <2>1 DEF BookedBy
  <2>7. BookedBy(w)' = {r[i] : i \in DOMAIN r}
    BY <2>5 DEF BookedBy
  <2>8. QED
    BY <2>4, <2>5, <2>6, <2>7
<1>10. BooksOK(w)'
  <2>1. BooksOK(w)
    BY Facts
  <2>2. books'[w].rows = {}
    BY <1>6 DEF NoBooks
  <2>3. /\ BookedBy(w)' \subseteq EverBooked' /\ polled'[w] \cap BookedBy(w)' = {}
        /\ polled'[w] \subseteq paid'
    BY <1>3, <1>6, <1>8, <1>9, <2>1 DEF BooksOK
  <2>4. takings'[w] => EverBooked' # {}
    BY <1>8
  <2>5. QED
    BY <1>6, <1>9, <2>2, <2>3, <2>4 DEF BooksOK
<1>11. Unspawned(w)' = Unspawned(w)
  BY <1>1, <1>3, <1>6, <1>9 DEF Unspawned, Coming
<1>12. Own(w)'
  <2>1. Lacks(wq[w], Unspawned(w) \ dropped)
    BY Facts DEF Own
  <2>2. QED
    BY <1>3, <1>8, <1>11, <2>1 DEF Own, Lacks
<1>13. WorkOK(w)'
  BY <1>3, <1>6, Facts DEF WorkOK, KeyOf
<1>14. WorkerTyped(w)'
  <2>1. NoBooks \in BooksRecord
    BY DEF NoBooks, BooksRecord
  <2>2. QED
    BY <1>3, <1>6, <1>9, <2>1, Facts DEF WorkerTyped, Label
<1>15. TypeOK'
  <2>1. ledger' \subseteq Pay /\ dropped' \subseteq Pay
    BY <1>3, <1>7, Facts
  <2>2. QED
    BY <1>3, <1>5, <1>14, <2>1, VersionsSound, Facts, OnlyType
<1>16. SentInv' /\ Truthful(opp', sent', EverBooked')
  <2>1. SentInv'
    BY <1>3, <1>8, Facts DEF SentInv
  <2>2. Truthful(opp, sent, EverBooked')
    BY <1>8, Facts, TruthfulStays
  <2>3. QED
    BY <1>3, <2>1, <2>2
<1>17. Sound(tasks', EverBooked', dropped') /\ Sound(wq'[w], EverBooked', dropped')
  BY <1>3, <1>8, VersionsSound, SameSound
<1>18. QED
  BY <1>3, <1>5, <1>7, <1>8, <1>10, <1>12, <1>13, <1>15, <1>16, <1>17, WorkerStep

\* What a delivery, or a check that saw the first sale, makes of the state.
LEMMA MovedState ==
  ASSUME NEW s \in OppState, NEW t \in OppState
  PROVE  MoveIfLegal(s, t) \in OppState /\ MoveIfLegal(s, t) \in {s, t}
BY DEF MoveIfLegal

LEMMA AfterDeliveryState ==
  ASSUME NEW s \in OppState
  PROVE  AfterDelivery(s) \in OppState /\ AfterDelivery(s) \in {s, "DELIVERING", "ACTIVE"}
<1>1. "DELIVERING" \in OppState /\ "ACTIVE" \in OppState
  BY DEF OppState, Forward
<1>2. PICK m : m = MoveIfLegal(s, "DELIVERING")
  OBVIOUS
<1>3. m \in OppState /\ m \in {s, "DELIVERING"}
  BY <1>1, <1>2, MovedState
<1>4. MoveIfLegal(m, "ACTIVE") \in OppState /\ MoveIfLegal(m, "ACTIVE") \in {m, "ACTIVE"}
  BY <1>1, <1>3, MovedState
<1>5. QED
  BY <1>2, <1>3, <1>4 DEF AfterDelivery

LEMMA MeasuredState ==
  ASSUME NEW o \in OppRecord, NEW s \in MeasuredMoves(o)
  PROVE  s \in OppState /\ (s = o.state \/ s \notin Sold)
<1>1. /\ o.state \in OppState
      /\ {"MEASURING", "FIRST_VISITOR", "FIRST_LEAD", "NO_TRACTION"} \subseteq OppState \ Sold
  BY DEF OppRecord, OppState, Forward, Sold
<1>2. Measuring(o.state) \in {o.state, "MEASURING"} 
  BY <1>1, MovedState DEF Measuring
<1>3. s \in {Measuring(o.state), "FIRST_VISITOR", "FIRST_LEAD", "NO_TRACTION"}
  BY DEF MeasuredMoves
<1>4. QED
  BY <1>1, <1>2, <1>3

LEMMA OtherTaskStep == ASSUME IInv, NEW w \in Worker, OtherTask(w) PROVE IInv'
<1>1. PICK s \in MeasuredMoves(opp) \cup {"ACQUIRING_TRAFFIC" : t \in {opp.state} \cap {"LIVE"}} :
          opp' = [opp EXCEPT !.state = s]
  BY DEF OtherTask
<1>2. /\ pc[w] = "idle" /\ pc' = [pc EXCEPT ![w] = "idle"] /\ overlaps' \in 0..MaxOverlaps
      /\ UNCHANGED <<paid, ledger, dropped, sent, tasks, lastId, wq, wtask, polled, books,
                     booked, unsold, takings, outcome, human>>
  BY Begins DEF OtherTask, world, worker, results, Process
<1>3. pc'[w] = "idle"
  BY <1>2, Functions
<1>4. Only(w)
  BY <1>2, Functions DEF Only
<1>5. s \in OppState /\ (s = opp.state \/ s \notin Sold)
  <2>1. "ACQUIRING_TRAFFIC" \in OppState \ Sold
    BY DEF OppState, Forward, Sold
  <2>2. QED
    BY <1>1, <2>1, Facts, MeasuredState
<1>6. /\ opp' \in OppRecord /\ opp'.deliveries = opp.deliveries /\ opp'.state = s
  BY <1>1, <1>5, Facts DEF OppRecord
<1>7. Truthful(opp', sent', EverBooked)
  BY <1>2, <1>5, <1>6, Facts DEF Truthful, Sold
<1>8. booked[w] = <<>>
  BY <1>2, Facts DEF BooksOK
<1>9. BooksOK(w)' /\ WorkOK(w)'
  BY <1>2, <1>3, <1>8, BooksStay DEF WorkOK
<1>10. Unspawned(w)' = {}
  BY <1>3 DEF Unspawned
<1>11. /\ Own(w)' /\ Sound(tasks', EverBooked, dropped) /\ Sound(wq'[w], EverBooked, dropped)
  BY <1>2, <1>10, OwnKept, VersionsKept, KeptItself
<1>12. WorkerTyped(w)' /\ SentInv'
  BY <1>2, <1>3, BooksKept, Facts DEF WorkerTyped, Label, SentInv
<1>13. QED
  BY <1>2, <1>4, <1>6, <1>7, <1>9, <1>11, <1>12, Facts, VersionsSound, WorkerMoves

LEMMA RecordDeliveryStep == ASSUME IInv, NEW w \in Worker, RecordDelivery(w) PROVE IInv'
<1>1. /\ pc[w] = "ran" /\ outcome[w] = "ok" /\ KeyOf(w) \in Pay
      /\ wq' = [wq EXCEPT ![w] = MarkSucceeded(wq[w], wtask[w])]
      /\ opp' = [Delivered(opp, KeyOf(w)) EXCEPT !.state = AfterDelivery(opp.state)]
      /\ Goto(w, "recorded")
      /\ UNCHANGED <<paid, ledger, dropped, sent, tasks, lastId, wtask, polled, books, booked,
                     unsold, takings, outcome, human>>
  BY DEF RecordDelivery, world, results
<1>2. wtask[w] \in Used(wq[w]) /\ sent[KeyOf(w)] > 0
  BY <1>1, Facts DEF WorkOK
<1>3. PICK q : q = MarkSucceeded(wq[w], wtask[w])
  OBVIOUS
<1>4. q \in Queue /\ Kept(wq[w], q)
  BY <1>2, <1>3, VersionsSound, SucceededKept
<1>5. pc' = [pc EXCEPT ![w] = "recorded"] /\ overlaps' \in 0..MaxOverlaps
  BY <1>1, Goes
<1>6. Only(w)
  BY <1>1, <1>5, Functions DEF Only
<1>7. pc'[w] = "recorded" /\ wq'[w] = q
  BY <1>1, <1>3, <1>5, Functions
<1>8. /\ opp' \in OppRecord /\ opp'.deliveries = opp.deliveries \cup {KeyOf(w)}
      /\ opp'.state \in {opp.state, "DELIVERING", "ACTIVE"}
  <2>1. PICK s : s = AfterDelivery(opp.state)
    OBVIOUS
  <2>2. opp.state \in OppState /\ opp \in OppRecord
    BY Facts DEF OppRecord
  <2>3. s \in OppState /\ s \in {opp.state, "DELIVERING", "ACTIVE"}
    BY <2>1, <2>2, AfterDeliveryState
  <2>4. PICK d : d = opp.deliveries \cup {KeyOf(w)}
    OBVIOUS
  <2>5. d \in SUBSET Pay
    BY <1>1, <2>2, <2>4 DEF OppRecord
  <2>6. opp' = [opp EXCEPT !.deliveries = d, !.state = s]
    BY <1>1, <2>1, <2>2, <2>4 DEF Delivered, OppRecord
  <2>7. opp' \in OppRecord /\ opp'.deliveries = d /\ opp'.state = s
    BY <2>2, <2>3, <2>5, <2>6 DEF OppRecord
  <2>8. QED
    BY <2>3, <2>4, <2>7
<1>9. Truthful(opp', sent', EverBooked)
  <2>1. KeyOf(w) \in EverBooked
    BY <1>1, <1>2, Facts DEF SentInv
  <2>2. QED
    BY <1>1, <1>2, <1>8, <2>1, Facts DEF Truthful
<1>10. BooksOK(w)'
  BY <1>1, <1>7, BooksStay
<1>11. Unspawned(w)' = {}
  BY <1>7 DEF Unspawned
<1>12. WorkOK(w)'
  BY <1>1, <1>2, <1>4, <1>7, KeptSame DEF WorkOK
<1>13. /\ Own(w)' /\ Sound(tasks', EverBooked, dropped) /\ Sound(wq'[w], EverBooked, dropped)
  BY <1>1, <1>4, <1>7, <1>11, OwnKept, VersionsKept, KeptItself
<1>14. WorkerTyped(w)' /\ SentInv'
  BY <1>1, <1>4, <1>7, BooksKept, Facts DEF WorkerTyped, Label, SentInv
<1>15. QED
  BY <1>1, <1>4, <1>6, <1>8, <1>9, <1>10, <1>12, <1>13, <1>14, Facts, VersionsSound,
     WorkerMoves

LEMMA RecordFailureStep == ASSUME IInv, NEW w \in Worker, RecordFailure(w) PROVE IInv'
<1>1. PICK again \in BOOLEAN : again = (outcome[w] = "retry")
  OBVIOUS
<1>2. /\ pc[w] = "ran"
      /\ wq' = [wq EXCEPT ![w] = MarkFailed(wq[w], wtask[w], again)]
      /\ Goto(w, "recorded")
      /\ UNCHANGED <<paid, ledger, dropped, sent, opp, tasks, lastId, wtask, polled, books,
                     booked, unsold, takings, outcome, human>>
  BY <1>1 DEF RecordFailure, world, results
<1>3. wtask[w] \in Used(wq[w])
  BY <1>2, Facts DEF WorkOK
<1>4. PICK q : q = MarkFailed(wq[w], wtask[w], again)
  OBVIOUS
<1>5. q \in Queue /\ Kept(wq[w], q)
  BY <1>3, <1>4, VersionsSound, FailedKept
<1>6. pc' = [pc EXCEPT ![w] = "recorded"] /\ overlaps' \in 0..MaxOverlaps
  BY <1>2, Goes
<1>7. Only(w)
  BY <1>2, <1>6, Functions DEF Only
<1>8. pc'[w] = "recorded" /\ wq'[w] = q
  BY <1>2, <1>4, <1>6, Functions
<1>9. BooksOK(w)'
  BY <1>2, <1>8, BooksStay
<1>10. Unspawned(w)' = {}
  BY <1>8 DEF Unspawned
<1>11. WorkOK(w)'
  BY <1>2, <1>3, <1>5, <1>8, KeptSame DEF WorkOK
<1>12. /\ Own(w)' /\ Sound(tasks', EverBooked, dropped) /\ Sound(wq'[w], EverBooked, dropped)
  BY <1>2, <1>5, <1>8, <1>10, OwnKept, VersionsKept, KeptItself
<1>13. WorkerTyped(w)' /\ SentInv'
  BY <1>2, <1>5, <1>8, BooksKept, Facts DEF WorkerTyped, Label, SentInv
<1>14. QED
  BY <1>2, <1>5, <1>7, <1>9, <1>11, <1>12, <1>13, Facts, VersionsSound, WorkerMoves

LEMMA RecordCheckStep == ASSUME IInv, NEW w \in Worker, RecordCheck(w) PROVE IInv'
<1>1. /\ pc[w] = "ran" /\ KeyOf(w) \in Cycle
      /\ lastId + Len(booked[w]) <= MaxTasks
      /\ wq' = [wq EXCEPT ![w] = Spawn(MarkSucceeded(wq[w], wtask[w]), booked[w])]
      /\ lastId' = lastId + Len(booked[w])
      /\ opp' = [opp EXCEPT !.state = AfterCheck(opp.state, unsold[w] /\ takings[w]),
                            !.revenue = takings[w]]
      /\ Goto(w, "recorded")
      /\ UNCHANGED <<paid, ledger, dropped, sent, tasks, wtask, polled, books, booked, unsold,
                     takings, outcome, human>>
  BY DEF RecordCheck, world, results
<1>2. wtask[w] \in Used(wq[w]) /\ booked[w] \in Seq(Pay) /\ lastId \in Nat
  BY <1>1, Facts, VersionsSound DEF WorkOK, WorkerTyped
<1>3. PICK q : q = MarkSucceeded(wq[w], wtask[w])
  OBVIOUS
<1>4. q \in Queue /\ Kept(wq[w], q)
  BY <1>2, <1>3, VersionsSound, SucceededKept
<1>5. PICK r : r = Spawn(q, booked[w])
  OBVIOUS
<1>6. /\ r \in Queue
      /\ \A t \in Task : \/ r[t] = q[t]
                         \/ r[t].status # "ABSENT"
  BY <1>2, <1>4, <1>5, Spawned
<1>7. pc' = [pc EXCEPT ![w] = "recorded"] /\ overlaps' \in 0..MaxOverlaps
  BY <1>1, Goes
<1>8. Only(w)
  BY <1>1, <1>7, Functions DEF Only
<1>9. pc'[w] = "recorded" /\ wq'[w] = r
  BY <1>1, <1>3, <1>5, <1>7, Functions
<1>10. /\ opp' \in OppRecord /\ opp'.deliveries = opp.deliveries
       /\ opp'.state = opp.state \/ (opp'.state = "FIRST_SALE" /\ takings[w])
  <2>1. PICK s : s = AfterCheck(opp.state, unsold[w] /\ takings[w])
    OBVIOUS
  <2>2. opp \in OppRecord /\ opp.state \in OppState /\ "FIRST_SALE" \in OppState
    BY Facts DEF OppRecord, OppState, Forward
  <2>3. s \in OppState /\ (s = opp.state \/ (s = "FIRST_SALE" /\ takings[w]))
    BY <2>1, <2>2, MovedState DEF AfterCheck
  <2>4. takings[w] \in BOOLEAN
    BY Facts DEF WorkerTyped
  <2>5. opp' = [opp EXCEPT !.state = s, !.revenue = takings[w]]
    BY <1>1, <2>1
  <2>6. QED
    BY <2>2, <2>3, <2>4, <2>5 DEF OppRecord
<1>11. Truthful(opp', sent', EverBooked)
  BY <1>1, <1>10, Facts DEF Truthful, BooksOK
<1>12. BooksOK(w)'
  BY <1>1, <1>9, BooksStay
<1>13. Unspawned(w)' = {} /\ Unspawned(w) = BookedBy(w)
  BY <1>1, <1>9 DEF Unspawned, Coming
<1>14. Sound(r, EverBooked, dropped)
  <2>1. Sound(q, EverBooked, dropped)
    BY <1>4, VersionsKept
  <2>2. /\ \A i, j \in DOMAIN booked[w] : booked[w][i] = booked[w][j] => i = j
        /\ BookedBy(w) \subseteq EverBooked
    BY Facts DEF BooksOK
  <2>3. Lacks(wq[w], BookedBy(w) \ dropped)
    BY <1>13, Facts DEF Own
  <2>4. Lacks(q, BookedBy(w) \ dropped)
    BY <1>4, <2>3, KeptLacks
  <2>5. QED
    BY <1>2, <1>4, <1>5, <2>1, <2>2, <2>4, SpawnedSound DEF BookedBy
<1>15. Sound(tasks', EverBooked, dropped) /\ Own(w)'
  BY <1>1, <1>13, VersionsSound, OwnKept
<1>16. WorkOK(w)'
  <2>1. wtask[w] \in Task /\ wtask[w] \in Used(q)
    BY <1>2, <1>4, KeptSame DEF Used
  <2>2. wtask[w] \in Used(r)
    BY <1>6, <2>1 DEF Used
  <2>3. QED
    BY <1>1, <1>9, <2>2 DEF WorkOK
<1>17. lastId' \in 0..MaxTasks
  <2>1. Len(booked[w]) \in Nat
    BY <1>2, LenProperties
  <2>2. QED
    BY <1>1, <1>2, <2>1, TaskConstants
<1>18. WorkerTyped(w)' /\ SentInv'
  BY <1>1, <1>6, <1>9, BooksKept, Facts DEF WorkerTyped, Label, SentInv
<1>19. QED
  BY <1>1, <1>6, <1>8, <1>9, <1>10, <1>11, <1>12, <1>14, <1>15, <1>16, <1>17, <1>18,
     Facts, VersionsSound, WorkerMoves

\* The queue a worker is about to save, with the check that follows.
LEMMA RescheduledSound ==
  ASSUME IInv, NEW w \in Worker, pc[w] = "recorded",
         DueAgain(wq[w], wtask[w]) => lastId < MaxTasks
  PROVE  /\ Rescheduled(wq[w], wtask[w]) \in Queue
         /\ Sound(Rescheduled(wq[w], wtask[w]), EverBooked, dropped)
<1> DEFINE t == wtask[w]
<1>1. wq[w] \in Queue /\ Sound(wq[w], EverBooked, dropped) /\ lastId \in Nat
  BY VersionsSound
<1>2. CASE DueAgain(wq[w], t)
  <2>1. t \in Checks(wq[w]) /\ wq[w][t].idempotency_key < MaxCycles
    BY <1>2 DEF DueAgain
  <2>2. wq[w][t].idempotency_key + 1 \in Cycle
    BY <2>1, SaleConstants DEF Checks, Cycle
  <2>3. PICK k \in Cycle : k = wq[w][t].idempotency_key + 1
    BY <2>2
  <2>4. PICK new : new = NewTask(k, {}, 3, FALSE, MaxDelay)
    OBVIOUS
  <2>5. new \in TaskRecord /\ new.idempotency_key = k
    BY <2>4, NextCheckType
  <2>6. lastId + 1 \in Task
    BY <1>1, <1>2, TaskConstants DEF Task
  <2>7. Rescheduled(wq[w], t) = Add(wq[w], lastId + 1, new)
    BY <1>2, <2>3, <2>4 DEF Rescheduled
  <2>8. Add(wq[w], lastId + 1, new) \in Queue
    BY <1>1, <2>5, <2>6, Added
  <2>9. Sound(Add(wq[w], lastId + 1, new), EverBooked, dropped)
    BY <1>1, <2>5, <2>6, AddedCheckSound
  <2>10. QED
    BY <2>7, <2>8, <2>9
<1>3. CASE ~DueAgain(wq[w], t)
  BY <1>1, <1>3 DEF Rescheduled
<1>4. QED
  BY <1>2, <1>3

LEMMA SaveQueueStep == ASSUME IInv, NEW w \in Worker, SaveQueue(w) PROVE IInv'
<1>1. PICK q : q = Rescheduled(wq[w], wtask[w])
  OBVIOUS
<1>2. /\ pc[w] = "recorded"
      /\ DueAgain(wq[w], wtask[w]) => lastId < MaxTasks
      /\ tasks' = ResolveDependencies(q)
      /\ lastId' = IF q = wq[w] THEN lastId ELSE lastId + 1
      /\ Forget(w) /\ UNCHANGED <<paid, ledger, dropped, sent, opp, human>>
  BY <1>1 DEF SaveQueue, world
<1>3. /\ Only(w) /\ pc'[w] = "idle" /\ wq'[w] = EmptyQueue
      /\ Unspawned(w)' = {} /\ BooksOK(w)' /\ WorkOK(w)' /\ WorkerTyped(w)'
  BY <1>2, Forgets
<1>4. q \in Queue /\ Sound(q, EverBooked, dropped)
  BY <1>1, <1>2, RescheduledSound
<1>5. PICK r : r = ResolveDependencies(q)
  OBVIOUS
<1>6. r \in Queue /\ Kept(q, r)
  BY <1>4, <1>5, ResolveKept
<1>7. Sound(r, EverBooked, dropped) /\ Sound(wq'[w], EverBooked, dropped)
  BY <1>3, <1>4, <1>6, KeptSound, EmptySound
<1>8. lastId' \in 0..MaxTasks
  <2>1. q # wq[w] => DueAgain(wq[w], wtask[w])
    BY <1>1 DEF Rescheduled
  <2>2. MaxTasks \in Nat /\ lastId \in 0..MaxTasks
    BY Facts, TaskConstants
  <2>3. QED
    BY <1>2, <2>1, <2>2
<1>9. SentInv' /\ Own(w)'
  BY <1>2, <1>3, BooksKept, Facts, OwnKept DEF SentInv
<1>10. QED
  BY <1>2, <1>3, <1>5, <1>6, <1>7, <1>8, <1>9, Facts, WorkerMoves

\* What a human's own step has to show.
LEMMA HumanStep ==
  ASSUME IInv, NEW h \in Human, HumanOnly(h),
         ledger' \subseteq paid, dropped' \subseteq Pay,
         EverBooked \subseteq EverBooked', dropped \subseteq dropped',
         tasks' \in Queue, opp' \in OppRecord, lastId' \in 0..MaxTasks, sent' \in [Pay -> 0..2],
         pc'[h] \in Label, hopp'[h] \in OppRecord, hpay'[h] \in Pay \cup {NonePay},
         hledger'[h] \subseteq paid,
         \A p \in Pay : sent[p] > 0 => sent'[p] > 0, SentInv',
         Sound(tasks', EverBooked', dropped'), Truthful(opp', sent', EverBooked'),
         Truthful(hopp'[h], sent', EverBooked'),
         pc'[h] \in {"delivering", "moving"} => hpay'[h] \in Pay /\ sent'[hpay'[h]] > 0
  PROVE  IInv'
<1>1. TypeOK /\ paid \subseteq Pay
  BY DEF IInv, TypeOK
<1>2. TypeOK'
  <2>1. pc' \in [Process -> Label]
    <3>1. \A a \in Process : pc'[a] \in Label
      BY <1>1 DEF HumanOnly, TypeOK, Label
    <3>2. QED
      BY <3>1 DEF HumanOnly
  <2>2. /\ hopp' \in [Human -> OppRecord] /\ hpay' \in [Human -> Pay \cup {NonePay}]
        /\ hledger' \in [Human -> SUBSET Pay]
    <3>1. \A g \in Human : /\ hopp'[g] \in OppRecord /\ hpay'[g] \in Pay \cup {NonePay}
                           /\ hledger'[g] \in SUBSET Pay
      BY <1>1 DEF HumanOnly, TypeOK
    <3>2. QED
      BY <3>1 DEF HumanOnly
  <2>3. QED
    BY <1>1, <2>1, <2>2 DEF HumanOnly, TypeOK, worker, results, Label
<1>3. /\ \A v \in Worker : pc'[v] = pc[v] /\ wq'[v] = wq[v]
      /\ UNCHANGED <<paid, wq, wtask, polled, books, booked, unsold, takings, outcome>>
  BY SaleConstants DEF HumanOnly, worker, results, Process
<1>4. QueueInv'
  <2>1. ASSUME NEW v \in Worker PROVE Sound(wq'[v], EverBooked', dropped')
    BY <1>3, VersionsSound, SameSound
  <2>2. QED
    BY <2>1 DEF QueueInv, Versions
<1>5. ASSUME NEW v \in Worker
      PROVE  BookedBy(v)' = BookedBy(v) /\ Unspawned(v)' = Unspawned(v) /\ KeyOf(v)' = KeyOf(v)
  <2>1. BookedBy(v)' = BookedBy(v) /\ Coming(v)' = Coming(v)
    BY <1>3 DEF BookedBy, Coming
  <2>2. QED
    BY <1>3, <2>1 DEF Unspawned, KeyOf
<1>6. OwnInv'
  <2>1. ASSUME NEW v \in Worker PROVE Own(v)'
    <3>1. Lacks(wq[v], Unspawned(v) \ dropped)
      BY Facts DEF Own
    <3>2. QED
      BY <1>3, <1>5, <3>1 DEF Own, Lacks
  <2>2. QED
    BY <2>1 DEF OwnInv
<1>7. BookInv'
  <2>1. ASSUME NEW v \in Worker PROVE BooksOK(v)'
    BY <1>3, <1>5, Facts DEF BooksOK
  <2>2. ASSUME NEW g \in Human PROVE hledger'[g] \subseteq paid
    BY HumanFacts DEF HumanOnly
  <2>3. QED
    BY <1>3, <2>1, <2>2 DEF BookInv
<1>8. WorkInv'
  <2>1. ASSUME NEW v \in Worker PROVE WorkOK(v)'
    <3>1. WorkOK(v)
      BY Facts
    <3>2. QED
      BY <1>3, <1>5, <3>1 DEF WorkOK
  <2>2. QED
    BY <2>1 DEF WorkInv
<1>9. RecordInv'
  <2>1. ASSUME NEW g \in Human
        PROVE  /\ Truthful(hopp'[g], sent', EverBooked')
               /\ pc'[g] \in {"delivering", "moving"} => hpay'[g] \in Pay /\ sent'[hpay'[g]] > 0
    <3>1. CASE g # h
      <4>1. hopp'[g] = hopp[g] /\ hpay'[g] = hpay[g] /\ pc'[g] = pc[g]
        BY <3>1 DEF HumanOnly, Process
      <4>2. Truthful(hopp[g], sent', EverBooked')
        BY HumanFacts, TruthfulStays
      <4>3. QED
        BY <4>1, <4>2, HumanFacts
    <3>2. QED
      BY <3>1
  <2>2. QED
    BY <2>1 DEF RecordInv
<1>10. QED
  BY <1>2, <1>4, <1>6, <1>7, <1>8, <1>9 DEF IInv

\* The steps of a human that leave the ledger alone.
LEMMA HumanMoves ==
  ASSUME IInv, NEW h \in Human, HumanOnly(h), UNCHANGED <<ledger, dropped>>,
         tasks' \in Queue, opp' \in OppRecord, lastId' \in 0..MaxTasks, sent' \in [Pay -> 0..2],
         pc'[h] \in Label, hopp'[h] \in OppRecord, hpay'[h] \in Pay \cup {NonePay},
         hledger'[h] \subseteq paid,
         \A p \in Pay : sent[p] > 0 => sent'[p] > 0, SentInv',
         Sound(tasks', EverBooked, dropped), Truthful(opp', sent', EverBooked),
         Truthful(hopp'[h], sent', EverBooked),
         pc'[h] \in {"delivering", "moving"} => hpay'[h] \in Pay /\ sent'[hpay'[h]] > 0
  PROVE  IInv'
<1>1. EverBooked' = EverBooked /\ dropped' = dropped /\ ledger' = ledger
  BY BooksKept
<1>2. QED
  BY <1>1, HumanFacts, HumanStep

LEMMA JustLiveTrue ==
  JustLive \in OppRecord /\ \A outbox, ever : Truthful(JustLive, outbox, ever)
<1>1. "LIVE" \in OppState
  BY DEF OppState, Forward
<1>2. QED
  BY <1>1 DEF JustLive, OppRecord, Truthful, Sold

LEMMA DeliverNowStep ==
  ASSUME IInv, NEW h \in Human, NEW p \in Pay, DeliverNow(h, p) PROVE IInv'
<1>1. /\ Cardinality(Deliveries(tasks, p)) = 1
      /\ sent' = [sent EXCEPT ![p] = Once(sent[p])]
      /\ hopp' = [hopp EXCEPT ![h] = opp]
      /\ hpay' = [hpay EXCEPT ![h] = p]
      /\ pc' = [pc EXCEPT ![h] = "delivering"] /\ overlaps' \in 0..MaxOverlaps
      /\ UNCHANGED <<paid, ledger, dropped, opp, tasks, lastId, worker, hledger>>
  BY HumanFacts, Begins DEF DeliverNow
<1>2. HumanOnly(h)
  BY <1>1, HumanFacts DEF HumanOnly
<1>3. pc'[h] = "delivering" /\ hopp'[h] = opp /\ hpay'[h] = p /\ pc'[h] \in Label
  BY <1>1, HumanFacts DEF Label
<1>4. /\ sent' \in [Pay -> 0..2] /\ \A x \in Pay : sent[x] > 0 => sent'[x] > 0
      /\ \A x \in Pay : x # p => sent'[x] = sent[x]
      /\ sent'[p] > 0
  <2>1. PICK n : n = Once(sent[p])
    OBVIOUS
  <2>2. n \in 0..2 /\ n > 0
    BY <2>1 DEF Once
  <2>3. QED
    BY <1>1, <2>1, <2>2, HumanFacts
<1>5. p \in EverBooked
  <2>1. Deliveries(tasks, p) # {}
    BY <1>1, FS_EmptySet
  <2>2. InBooks(tasks, EverBooked)
    BY VersionsSound DEF Sound
  <2>3. QED
    BY <2>1, <2>2 DEF Deliveries, InBooks
<1>6. SentInv'
  BY <1>1, <1>4, <1>5, HumanFacts, BooksKept DEF SentInv
<1>7. Truthful(opp, sent', EverBooked)
  BY <1>4, HumanFacts, TruthfulStays
<1>8. QED
  BY <1>1, <1>2, <1>3, <1>4, <1>6, <1>7, HumanFacts, VersionsSound, HumanMoves

LEMMA RecordNowStep == ASSUME IInv, NEW h \in Human, RecordNow(h) PROVE IInv'
<1>1. PICK record : record = Delivered(hopp[h], hpay[h])
  OBVIOUS
<1>2. /\ pc[h] = "delivering"
      /\ opp' = record
      /\ hopp' = [hopp EXCEPT ![h] = record]
      /\ pc' = [pc EXCEPT ![h] = "moving"] /\ overlaps' \in 0..MaxOverlaps
      /\ UNCHANGED <<paid, ledger, dropped, sent, tasks, lastId, worker, hpay, hledger>>
  BY <1>1, Goes DEF RecordNow, world
<1>3. HumanOnly(h)
  BY <1>2, HumanFacts DEF HumanOnly
<1>4. pc'[h] = "moving" /\ hopp'[h] = record /\ hpay'[h] = hpay[h] /\ pc'[h] \in Label
  BY <1>2, HumanFacts DEF Label
<1>5. hpay[h] \in Pay /\ sent[hpay[h]] > 0 /\ hopp[h] \in OppRecord
  BY <1>2, HumanFacts
<1>6. /\ record \in OppRecord /\ record.state = hopp[h].state
      /\ record.deliveries = hopp[h].deliveries \cup {hpay[h]}
  BY <1>1, <1>5 DEF Delivered, OppRecord
<1>7. Truthful(record, sent, EverBooked)
  BY <1>5, <1>6, HumanFacts DEF Truthful
<1>8. SentInv'
  BY <1>2, HumanFacts, BooksKept DEF SentInv
<1>9. QED
  BY <1>2, <1>3, <1>4, <1>5, <1>6, <1>7, <1>8, HumanFacts, VersionsSound, HumanMoves

LEMMA Returns ==
  ASSUME IInv, NEW h \in Human, Return(h), UNCHANGED <<worker, paid>>
  PROVE  /\ HumanOnly(h) /\ pc'[h] = "idle" /\ pc'[h] \in Label
         /\ hopp'[h] = JustLive /\ hpay'[h] = NonePay /\ hledger'[h] = {}
<1>1. pc' = [pc EXCEPT ![h] = "idle"] /\ overlaps' \in 0..MaxOverlaps
  BY Goes DEF Return
<1>2. /\ pc'[h] = "idle" /\ hopp'[h] = JustLive /\ hpay'[h] = NonePay /\ hledger'[h] = {}
  BY <1>1, HumanFacts DEF Return
<1>3. HumanOnly(h)
  <2>1. /\ \A a \in Process : a # h => pc'[a] = pc[a]
        /\ pc' = [a \in Process |-> pc'[a]]
    BY <1>1, HumanFacts
  <2>2. /\ \A g \in Human : g # h => hopp'[g] = hopp[g] /\ hpay'[g] = hpay[g]
        /\ hopp' = [g \in Human |-> hopp'[g]] /\ hpay' = [g \in Human |-> hpay'[g]]
    BY HumanFacts DEF Return
  <2>3. /\ \A g \in Human : g # h => hledger'[g] = hledger[g]
        /\ hledger' = [g \in Human |-> hledger'[g]]
    BY HumanFacts DEF Return
  <2>4. QED
    BY <1>1, <2>1, <2>2, <2>3 DEF HumanOnly
<1>4. QED
  BY <1>2, <1>3 DEF Label

\* A human command that ends leaves a truthful record.
LEMMA ReturnStep ==
  ASSUME IInv, NEW h \in Human, Return(h),
         UNCHANGED <<paid, ledger, dropped, sent, tasks, lastId, worker>>,
         opp' \in OppRecord, Truthful(opp', sent, EverBooked)
  PROVE  IInv'
<1>1. /\ HumanOnly(h) /\ pc'[h] = "idle" /\ pc'[h] \in Label
      /\ hopp'[h] = JustLive /\ hpay'[h] = NonePay /\ hledger'[h] = {}
  BY Returns
<1>2. SentInv'
  BY HumanFacts, BooksKept DEF SentInv
<1>3. /\ hopp'[h] \in OppRecord /\ Truthful(hopp'[h], sent', EverBooked)
      /\ Truthful(opp', sent', EverBooked)
  BY <1>1, JustLiveTrue
<1>4. QED
  BY <1>1, <1>2, <1>3, HumanFacts, VersionsSound, HumanMoves

LEMMA MoveNowStep == ASSUME IInv, NEW h \in Human, MoveNow(h) PROVE IInv'
<1>1. /\ pc[h] = "moving" /\ opp' = [hopp[h] EXCEPT !.state = AfterDelivery(hopp[h].state)]
      /\ Return(h) /\ UNCHANGED <<paid, ledger, dropped, sent, tasks, lastId, worker>>
  BY DEF MoveNow, world
<1>2. PICK s : s = AfterDelivery(hopp[h].state)
  OBVIOUS
<1>3. hopp[h] \in OppRecord /\ hopp[h].state \in OppState
  BY HumanFacts DEF OppRecord
<1>4. s \in OppState /\ s \in {hopp[h].state, "DELIVERING", "ACTIVE"}
  BY <1>2, <1>3, AfterDeliveryState
<1>5. opp' \in OppRecord /\ opp'.state = s /\ opp'.deliveries = hopp[h].deliveries
  BY <1>1, <1>2, <1>3, <1>4 DEF OppRecord
<1>6. hpay[h] \in Pay /\ sent[hpay[h]] > 0 /\ hpay[h] \in EverBooked
  BY <1>1, HumanFacts DEF SentInv
<1>7. Truthful(opp', sent, EverBooked)
  BY <1>4, <1>5, <1>6, HumanFacts DEF Truthful
<1>8. QED
  BY <1>1, <1>5, <1>7, ReturnStep

LEMMA MarkAcceptedStep == ASSUME IInv, NEW h \in Human, MarkAccepted(h) PROVE IInv'
<1>1. /\ opp' = [hopp[h] EXCEPT !.deliveries = {}, !.revenue = FALSE]
      /\ Return(h) /\ UNCHANGED <<paid, ledger, dropped, sent, tasks, lastId, worker>>
  BY DEF MarkAccepted, world
<1>2. hopp[h] \in OppRecord
  BY HumanFacts
<1>3. opp' \in OppRecord /\ opp'.state = hopp[h].state /\ opp'.deliveries = {}
  BY <1>1, <1>2 DEF OppRecord
<1>4. Truthful(opp', sent, EverBooked)
  BY <1>3, HumanFacts DEF Truthful
<1>5. QED
  BY <1>1, <1>3, <1>4, ReturnStep

LEMMA CrashHumanStep == ASSUME IInv, NEW h \in Human, CrashHuman(h) PROVE IInv'
<1>1. Return(h) /\ UNCHANGED <<paid, ledger, dropped, sent, opp, tasks, lastId, worker>>
  BY DEF CrashHuman, world
<1>2. QED
  BY <1>1, HumanFacts, ReturnStep

LEMMA OpenBooksStep == ASSUME IInv, NEW h \in Human, OpenBooks(h) PROVE IInv'
<1>1. /\ hledger' = [hledger EXCEPT ![h] = ledger]
      /\ pc' = [pc EXCEPT ![h] = "bookkeeping"] /\ overlaps' \in 0..MaxOverlaps
      /\ UNCHANGED <<paid, ledger, dropped, sent, opp, tasks, lastId, worker, hopp, hpay>>
  BY HumanFacts, Begins DEF OpenBooks, world
<1>2. HumanOnly(h)
  BY <1>1, HumanFacts DEF HumanOnly
<1>3. /\ pc'[h] = "bookkeeping" /\ hopp'[h] = hopp[h] /\ hpay'[h] = hpay[h]
      /\ hledger'[h] = ledger /\ pc'[h] \in Label
  BY <1>1, HumanFacts DEF Label
<1>4. SentInv'
  BY <1>1, HumanFacts, BooksKept DEF SentInv
<1>5. QED
  BY <1>1, <1>2, <1>3, <1>4, HumanFacts, VersionsSound, HumanMoves

\* Saving the copy may lose rows, never a payment that was ever booked.
LEMMA CloseBooksStep == ASSUME IInv, NEW h \in Human, CloseBooks(h) PROVE IInv'
<1>1. /\ ledger' = hledger[h] /\ dropped' = dropped \cup (ledger \ hledger[h])
      /\ Return(h) /\ UNCHANGED <<paid, sent, opp, tasks, lastId, worker>>
  BY DEF CloseBooks, Losing
<1>2. /\ HumanOnly(h) /\ pc'[h] = "idle" /\ pc'[h] \in Label
      /\ hopp'[h] = JustLive /\ hpay'[h] = NonePay /\ hledger'[h] = {}
  BY <1>1, Returns
<1>3. /\ ledger' \subseteq paid /\ dropped' \subseteq Pay
      /\ EverBooked \subseteq EverBooked' /\ dropped \subseteq dropped'
  BY <1>1, HumanFacts DEF EverBooked
<1>4. SentInv'
  BY <1>1, <1>3, HumanFacts DEF SentInv
<1>5. Sound(tasks', EverBooked', dropped')
  BY <1>1, <1>3, VersionsSound, SameSound
<1>6. /\ Truthful(opp', sent', EverBooked') /\ hopp'[h] \in OppRecord
      /\ Truthful(hopp'[h], sent', EverBooked')
  BY <1>1, <1>2, <1>3, HumanFacts, JustLiveTrue, TruthfulStays
<1>7. QED
  BY <1>1, <1>2, <1>3, <1>4, <1>5, <1>6, HumanFacts, VersionsSound, HumanStep

LEMMA AcceptAgainStep == ASSUME IInv, NEW h \in Human, AcceptAgain(h) PROVE IInv'
<1>1. PICK needed \in BOOLEAN : needed = (SameKey(tasks, 0) = {})
  OBVIOUS
<1>2. PICK new : new = NewTask(0, {}, 5, FALSE, 0)
  OBVIOUS
<1>3. PICK q : q = IF needed THEN Add(tasks, lastId + 1, new) ELSE tasks
  OBVIOUS
<1>4. /\ needed => lastId + 1 + Cardinality(Pay) + MaxCycles <= MaxTasks
      /\ tasks' = ResolveDependencies(q)
      /\ lastId' = IF needed THEN lastId + 1 ELSE lastId
      /\ hopp' = [hopp EXCEPT ![h] = opp]
      /\ Begin(h, "accepting")
      /\ UNCHANGED <<paid, ledger, dropped, sent, opp, worker, hpay, hledger>>
  BY <1>1, <1>2, <1>3 DEF AcceptAgain, world
<1>5. tasks \in Queue /\ Sound(tasks, EverBooked, dropped) /\ lastId \in Nat
  BY VersionsSound
<1>6. needed => lastId + 1 <= MaxTasks
  <2>1. Cardinality(Pay) \in Nat /\ MaxCycles \in Nat /\ MaxTasks \in Nat
    BY SaleConstants, TaskConstants, FS_CardinalityType
  <2>2. QED
    BY <1>4, <1>5, <2>1
<1>7. q \in Queue /\ Sound(q, EverBooked, dropped)
  <2>1. CASE needed
    <3>1. 0 \in Cycle /\ lastId + 1 \in Task
      BY <1>5, <1>6, <2>1, SaleConstants, TaskConstants DEF Cycle, Task
    <3>2. new \in TaskRecord /\ new.idempotency_key = 0
      BY <1>2, <3>1, FirstCheckType
    <3>3. new.idempotency_key \in Cycle
      BY <3>1, <3>2
    <3>4. Add(tasks, lastId + 1, new) \in Queue
      BY <1>5, <3>1, <3>2, Added
    <3>5. Sound(Add(tasks, lastId + 1, new), EverBooked, dropped)
      BY <1>5, <3>1, <3>2, <3>3, AddedCheckSound
    <3>6. QED
      BY <1>3, <2>1, <3>4, <3>5
  <2>2. CASE ~needed
    BY <1>3, <1>5, <2>2
  <2>3. QED
    BY <2>1, <2>2
<1>8. PICK r : r = ResolveDependencies(q)
  OBVIOUS
<1>9. r \in Queue /\ Sound(r, EverBooked, dropped)
  BY <1>7, <1>8, ResolveKept, KeptSound
<1>10. pc' = [pc EXCEPT ![h] = "accepting"] /\ overlaps' \in 0..MaxOverlaps
  BY <1>4, HumanFacts, Begins
<1>11. HumanOnly(h)
  BY <1>4, <1>10, HumanFacts DEF HumanOnly
<1>12. /\ pc'[h] = "accepting" /\ hopp'[h] = opp /\ hpay'[h] = hpay[h]
       /\ hledger'[h] = hledger[h] /\ pc'[h] \in Label
  BY <1>4, <1>10, HumanFacts DEF Label
<1>13. lastId' \in 0..MaxTasks
  BY <1>4, <1>5, <1>6, HumanFacts, TaskConstants
<1>14. SentInv'
  BY <1>4, HumanFacts, BooksKept DEF SentInv
<1>15. QED
  BY <1>4, <1>8, <1>9, <1>11, <1>12, <1>13, <1>14, HumanFacts, HumanMoves

LEMMA PassStep == ASSUME IInv, Pass PROVE IInv'
<1>1. /\ tasks' = Elapse(tasks)
      /\ wq' = [w \in Worker |-> Elapse(wq[w])]
      /\ UNCHANGED <<paid, ledger, dropped, sent, opp, lastId, pc, overlaps, wtask, polled, books,
                     booked, unsold, takings, outcome, human>>
  BY DEF Pass, world, results
<1>2. tasks' \in Queue /\ Kept(tasks, tasks')
  BY <1>1, VersionsSound, ElapseKept
<1>3. ASSUME NEW w \in Worker PROVE wq'[w] \in Queue /\ Kept(wq[w], wq'[w])
  BY <1>1, VersionsSound, ElapseKept
<1>4. wq' \in [Worker -> Queue]
  BY <1>1, <1>3
<1>5. TypeOK'
  BY <1>1, <1>2, <1>4 DEF IInv, TypeOK, human
<1>6. EverBooked' = EverBooked
  BY <1>1, BooksKept
<1>7. ASSUME NEW w \in Worker
      PROVE  BookedBy(w)' = BookedBy(w) /\ Unspawned(w)' = Unspawned(w) /\ BooksOK(w)'
  <2>1. BookedBy(w)' = BookedBy(w) /\ Coming(w)' = Coming(w)
    BY <1>1 DEF BookedBy, Coming
  <2>2. QED
    BY <1>1, <1>6, <2>1, Facts DEF Unspawned, BooksOK
<1>8. BookInv' /\ RecordInv' /\ SentInv'
  BY <1>1, <1>6, <1>7 DEF IInv, BookInv, RecordInv, SentInv, human
<1>9. QueueInv'
  <2>1. Sound(tasks', EverBooked, dropped)
    BY <1>2, VersionsSound, KeptSound
  <2>2. \A w \in Worker : Sound(wq'[w], EverBooked, dropped)
    BY <1>3, VersionsSound, KeptSound
  <2>3. QED
    BY <1>1, <1>6, <2>1, <2>2 DEF QueueInv, Versions
<1>10. OwnInv'
  BY <1>1, <1>3, <1>7, OwnKept DEF OwnInv
<1>11. WorkInv'
  <2>1. ASSUME NEW w \in Worker PROVE WorkOK(w)'
    <3>1. WorkOK(w) /\ Used(wq'[w]) = Used(wq[w])
      BY <1>3, KeptSame, Facts
    <3>2. wtask[w] \in Used(wq[w]) => KeyOf(w)' = KeyOf(w)
      BY <1>1, <1>3, KeptSame DEF KeyOf, Used
    <3>3. QED
      BY <1>1, <3>1, <3>2 DEF WorkOK
  <2>2. QED
    BY <2>1 DEF WorkInv
<1>12. QED
  BY <1>5, <1>8, <1>9, <1>10, <1>11 DEF IInv

\* Payments are confirmed, or nothing happens.
LEMMA PaysStep ==
  ASSUME IInv, paid \subseteq paid', paid' \subseteq Pay,
         UNCHANGED <<ledger, dropped, sent, opp, tasks, lastId, pc, worker, human, overlaps>>
  PROVE  IInv'
<1>1. TypeOK'
  BY DEF IInv, TypeOK, worker, results, human
<1>2. EverBooked' = EverBooked
  BY BooksKept
<1>3. ASSUME NEW w \in Worker
      PROVE  BookedBy(w)' = BookedBy(w) /\ Unspawned(w)' = Unspawned(w) /\ BooksOK(w)'
  <2>1. BookedBy(w)' = BookedBy(w) /\ Coming(w)' = Coming(w)
    BY DEF BookedBy, Coming, worker, results
  <2>2. QED
    BY <1>2, <2>1, Facts DEF Unspawned, BooksOK, worker, results
<1>4. BookInv' /\ RecordInv' /\ SentInv'
  BY <1>2, <1>3 DEF IInv, BookInv, RecordInv, SentInv, human
<1>5. QueueInv' /\ WorkInv'
  BY <1>2 DEF IInv, QueueInv, Versions, WorkInv, WorkOK, KeyOf, worker, results
<1>6. OwnInv'
  BY <1>3, KeptItself, OwnKept DEF OwnInv, worker
<1>7. QED
  BY <1>1, <1>4, <1>5, <1>6 DEF IInv

LEMMA InitIInv == ASSUME Init PROVE IInv
<1>1. PICK new : new = NewTask(0, {}, 5, FALSE, 0)
  OBVIOUS
<1>2. 0 \in Cycle /\ 1 \in Task /\ 1 \in 0..MaxTasks /\ 0 \in 0..MaxOverlaps
  BY SaleConstants, TaskConstants DEF Cycle, Task
<1>3. new \in TaskRecord /\ new.idempotency_key = 0 /\ new.status = "PENDING"
  BY <1>1, <1>2, FirstCheckType
<1>4. /\ tasks \in Queue /\ tasks[1] = new
      /\ \A t \in Task : t # 1 => tasks[t] = EmptyQueue[t]
  <2>1. PICK e \in Queue : e = EmptyQueue
    BY EmptyQueueType
  <2>2. tasks = [e EXCEPT ![1] = new]
    BY <1>1, <2>1 DEF Init
  <2>3. PICK one \in Task : one = 1
    BY <1>2
  <2>4. /\ [e EXCEPT ![one] = new] \in Queue
        /\ [e EXCEPT ![one] = new][one] = new
        /\ \A u \in Task : u # one => [e EXCEPT ![one] = new][u] = e[u]
    BY <1>3, PutKept
  <2>5. QED
    BY <2>1, <2>2, <2>3, <2>4
<1>5. \A t \in Used(tasks) : t = 1 /\ tasks[t].idempotency_key \notin Pay
  <2>1. \A t \in Task : EmptyQueue[t].status = "ABSENT"
    BY DEF EmptyQueue, NoTask
  <2>2. QED
    BY <1>2, <1>3, <1>4, <2>1, SaleConstants DEF Used
<1>6. /\ paid = {} /\ ledger = {} /\ dropped = {} /\ opp = JustLive /\ lastId = 1
      /\ pc \in [Process -> Label] /\ \A a \in Process : pc[a] = "idle"
      /\ wq \in [Worker -> Queue] /\ \A w \in Worker : wq[w] = EmptyQueue
      /\ \A h \in Human : hopp[h] = JustLive /\ hledger[h] = {}
      /\ \A p \in Pay : sent[p] = 0
  BY EmptyQueueType DEF Init, Label
<1>7. ASSUME NEW w \in Worker
      PROVE  /\ booked[w] = <<>> /\ polled[w] = {} /\ books[w] = NoBooks /\ takings[w] = FALSE
             /\ pc[w] = "idle"
  BY <1>6 DEF Init, Process
<1>8. ASSUME NEW w \in Worker PROVE BooksOK(w) /\ Unspawned(w) = {}
  <2>1. /\ booked[w] = <<>> /\ polled[w] = {} /\ books[w] = NoBooks /\ takings[w] = FALSE
        /\ pc[w] = "idle"
    BY <1>7
  <2>2. BooksOK(w)
    BY <2>1, SMT DEF BooksOK, BookedBy, NoBooks
  <2>3. QED
    BY <2>1, <2>2 DEF Unspawned
<1>9. BookInv /\ OwnInv
  BY <1>6, <1>8 DEF BookInv, OwnInv, Own, Lacks
<1>10. QueueInv
  <2>1. Sound(tasks, EverBooked, dropped)
    BY <1>5 DEF Sound, InBooks, Single
  <2>2. QED
    BY <1>6, <2>1, EmptySound DEF QueueInv, Versions
<1>11. WorkInv /\ RecordInv /\ SentInv
  BY <1>6, JustLiveTrue DEF WorkInv, WorkOK, RecordInv, SentInv, Process
<1>12. TypeOK
  <2>1. /\ sent \in [Pay -> 0..2] /\ polled \in [Worker -> SUBSET Pay]
        /\ unsold \in [Worker -> BOOLEAN] /\ takings \in [Worker -> BOOLEAN]
        /\ outcome \in [Worker -> {"none", "ok", "retry", "fail"}]
        /\ wtask \in [Worker -> Task \cup {NoneTask}]
        /\ hpay \in [Human -> Pay \cup {NonePay}] /\ hledger \in [Human -> SUBSET Pay]
    BY DEF Init
  <2>2. hopp \in [Human -> OppRecord] /\ opp \in OppRecord
    BY JustLiveTrue DEF Init
  <2>3. booked \in [Worker -> Seq(Pay)] /\ books \in [Worker -> BooksRecord]
    BY EmptySeq DEF Init, NoBooks, BooksRecord
  <2>4. overlaps \in 0..MaxOverlaps
    BY <1>2 DEF Init
  <2>5. QED
    BY <1>2, <1>4, <1>6, <2>1, <2>2, <2>3, <2>4 DEF TypeOK, Label, BooksRecord
<1>13. QED
  BY <1>9, <1>10, <1>11, <1>12 DEF IInv

LEMMA StepIInv == ASSUME IInv, [Next]_vars PROVE IInv'
<1>1. CASE Pass
  BY <1>1, PassStep
<1>2. ASSUME NEW p \in Pay, CustomerPays(p) PROVE IInv'
  <2>1. /\ paid' = paid \cup {p} /\ paid \subseteq Pay
        /\ UNCHANGED <<ledger, dropped, sent, opp, tasks, lastId, pc, worker, human, overlaps>>
    BY <1>2 DEF CustomerPays, IInv, TypeOK
  <2>2. QED
    BY <2>1, PaysStep
<1>3. ASSUME NEW w \in Worker, OtherTask(w) \/ Tick(w) \/ CrashWorker(w) PROVE IInv'
  <2>1. CASE RunAdapter(w)
    BY <2>1, PollStep, PollFailsStep, LoadLedgerStep, SaveLedgerStep, AllBookedStep, SendStep
       DEF RunAdapter
  <2>2. CASE Record(w)
    BY <2>2, RecordCheckStep, RecordDeliveryStep, RecordFailureStep DEF Record
  <2>3. QED
    BY <1>3, <2>1, <2>2, OtherTaskStep, CrashWorkerStep, LoadQueueStep, NothingReadyStep,
       ClaimReadyStep, SaveQueueStep DEF Tick
<1>4. ASSUME NEW h \in Human, Command(h) \/ CrashHuman(h) PROVE IInv'
  BY <1>4, DeliverNowStep, RecordNowStep, MoveNowStep, AcceptAgainStep, MarkAcceptedStep,
     OpenBooksStep, CloseBooksStep, CrashHumanStep DEF Command
<1>5. CASE UNCHANGED vars
  <2>1. /\ paid' = paid
        /\ UNCHANGED <<ledger, dropped, sent, opp, tasks, lastId, pc, worker, human, overlaps>>
    BY <1>5 DEF vars, world
  <2>2. paid \subseteq Pay
    BY DEF IInv, TypeOK
  <2>3. QED
    BY <2>1, <2>2, PaysStep
<1>6. QED
  BY <1>1, <1>2, <1>3, <1>4, <1>5 DEF Next

-----------------------------------------------------------------------------
\* What is in the queues, the records and the outbox was earned, and no
\* version of the queue asks twice for a delivery whose payment stays in the
\* ledger, in every reachable state: any number of workers and humans that
\* start beside each other, load the ledger before and save it after the
\* others, and die.
THEOREM SaleStaysSound == Spec => []IInv
BY InitIInv, StepIInv, PTL DEF Spec

\* Files, copies and program counters are well formed.
THEOREM TypeCorrect == Spec => []TypeOK
<1>1. IInv => TypeOK
  BY DEF IInv
<1>2. QED
  BY <1>1, SaleStaysSound, PTL

\* Nothing is sent that never was in the books, and no sale or delivery is
\* claimed that did not happen: overlap, deaths, lost rows and a second
\* acceptance included.
THEOREM EarnedOnlyAlways == Spec => []EarnedOnly
<1>1. IInv => EarnedOnly
  BY DEF IInv, SentInv, BookInv, RecordInv, Truthful, EarnedOnly
<1>2. QED
  BY <1>1, SaleStaysSound, PTL

\* No payment whose row stays in the ledger has two DELIVER tasks, however
\* many workers poll it and take it for new, and whoever dies.
THEOREM NoSecondDeliverAlways == Spec => []NoSecondDeliver
<1>1. ASSUME IInv, NEW p \in Pay \ dropped PROVE Cardinality(Deliveries(tasks, p)) <= 1
  <2>1. Single(tasks, dropped)
    BY <1>1, VersionsSound DEF Sound
  <2>2. \A t, u \in Deliveries(tasks, p) : t = u
    BY <2>1 DEF Deliveries, Single
  <2>3. CASE Deliveries(tasks, p) = {}
    BY <2>3, FS_EmptySet
  <2>4. ASSUME NEW t \in Deliveries(tasks, p) PROVE Cardinality(Deliveries(tasks, p)) = 1
    <3>1. Deliveries(tasks, p) = {t}
      BY <2>2, <2>4
    <3>2. QED
      BY <3>1, FS_Singleton
  <2>5. QED
    BY <2>3, <2>4
<1>2. IInv => NoSecondDeliver
  BY <1>1 DEF NoSecondDeliver
<1>3. QED
  BY <1>2, SaleStaysSound, PTL

-----------------------------------------------------------------------------
(***************************************************************************)
(* Part 4.  One at a time, to the end.  What the queue promises then.      *)
(***************************************************************************)
LEMMA SymmetricKept ==
  ASSUME NEW p, NEW r, Kept(p, r), SameLive(p, r)
  PROVE  Kept(r, p) /\ SameLive(r, p)
BY DEF Kept, TaskKept, SameLive

LEMMA BothTransitive ==
  ASSUME NEW p, NEW q, NEW r, Kept(p, q), SameLive(p, q), Kept(q, r), SameLive(q, r)
  PROVE  Kept(p, r) /\ SameLive(p, r)
BY KeptTransitive DEF SameLive

LEMMA KeptPlain ==
  ASSUME NEW p, NEW r, Kept(p, r), NEW last, Plain(p, last)
  PROVE  Plain(r, last)
<1>1. \A t \in Task : TaskKept(p[t], r[t])
  BY DEF Kept
<1>2. Used(r) = Used(p) /\ Used(p) \subseteq Task
  BY KeptSame DEF Used
<1>3. QED
  BY <1>1, <1>2 DEF Plain, TaskKept

LEMMA KeptCovers ==
  ASSUME NEW p, NEW r, Kept(p, r), NEW S, Covers(p, S)
  PROVE  Covers(r, S)
<1>1. /\ Used(r) = Used(p) /\ Used(p) \subseteq Task
      /\ \A t \in Task : r[t].idempotency_key = p[t].idempotency_key
  BY KeptSame DEF Used
<1>2. QED
  BY <1>1 DEF Covers

\* Nothing that was not live is.
LEMMA KeptChain ==
  ASSUME NEW p, NEW r, Kept(p, r), Chain(p),
         \A t \in Task : r[t].status \in Live => p[t].status \in Live
  PROVE  Chain(r)
<1>1. /\ Checks(r) = Checks(p) /\ Checks(p) \subseteq Task
      /\ \A t \in Task : r[t].idempotency_key = p[t].idempotency_key
  BY KeptSame DEF Checks, Used
<1>2. QED
  BY <1>1 DEF Chain

LEMMA KeptUnderWay ==
  ASSUME NEW p, NEW r, Kept(p, r), SameLive(p, r), UnderWay(p)
  PROVE  UnderWay(r)
<1>1. /\ Checks(r) = Checks(p) /\ Checks(p) \subseteq Task
      /\ \A t \in Task : r[t].idempotency_key = p[t].idempotency_key
  BY KeptSame DEF Checks, Used
<1>2. QED
  BY <1>1 DEF UnderWay, SameLive

\* A live task ends, or waits for its next attempt.
LEMMA Ended ==
  ASSUME NEW p, NEW r, Kept(p, r), Chain(p), NEW t \in Task, p[t].status \in Live,
         \A u \in Task : u # t => r[u] = p[u]
  PROVE  /\ Chain(r)
         /\ t \in Checks(r) =>
               \A u \in Checks(r) : r[u].idempotency_key <= r[t].idempotency_key
         /\ t \notin Checks(r) /\ UnderWay(p) => UnderWay(r)
<1>1. /\ Checks(r) = Checks(p) /\ Checks(p) \subseteq Task
      /\ \A u \in Task : r[u].idempotency_key = p[u].idempotency_key
  BY KeptSame DEF Checks, Used
<1>2. Chain(r)
  BY KeptChain
<1>3. t \in Checks(r) => \A u \in Checks(r) : r[u].idempotency_key <= r[t].idempotency_key
  BY <1>1 DEF Chain
<1>4. t \notin Checks(r) /\ UnderWay(p) => UnderWay(r)
  BY <1>1 DEF UnderWay
<1>5. QED
  BY <1>2, <1>3, <1>4

\* DELIVER tasks are added for payments that have none.
LEMMA SpawnedTidy ==
  ASSUME NEW p \in Queue, NEW s \in Seq(Pay), lastId \in Nat, lastId + Len(s) <= MaxTasks,
         Plain(p, lastId), Lacks(p, {s[i] : i \in DOMAIN s}), NEW r, r = Spawn(p, s)
  PROVE  /\ \A t \in Used(p) : t \in Used(r) /\ r[t] = p[t]
         /\ Checks(r) = Checks(p)
         /\ Plain(r, lastId + Len(s))
         /\ \A S : Covers(p, S) => Covers(r, S \cup {s[i] : i \in DOMAIN s})
<1>1. PICK n \in Nat : n = Len(s)
  BY LenProperties
<1>2. DOMAIN s = 1..n /\ \A i \in 1..n : s[i] \in Pay
  BY <1>1, LenProperties, ElementOfSeq
<1>3. MaxTasks \in Nat
  BY TaskConstants
<1>4. ASSUME NEW t \in Task
      PROVE  \/ r[t] = p[t]
             \/ /\ t - lastId \in 1..n
                /\ r[t].idempotency_key = s[t - lastId]
                /\ r[t].status = "PENDING"
                /\ r[t].depends_on = {}
                /\ r[t].requires_approval = FALSE
  <2>1. \/ Spawn(p, s)[t] = p[t]
        \/ /\ t - lastId \in DOMAIN s /\ Spawn(p, s)[t] = SpawnedAt(s, t)
           /\ SpawnedAt(s, t).idempotency_key = s[t - lastId]
           /\ SpawnedAt(s, t).status = "PENDING"
           /\ SpawnedAt(s, t).depends_on = {}
           /\ SpawnedAt(s, t).requires_approval = FALSE
    BY Spawned
  <2>2. QED
    BY <1>2, <2>1
<1>5. ASSUME NEW t \in Used(p) PROVE t \in Used(r) /\ r[t] = p[t]
  <2>1. t \in Task /\ t <= lastId /\ t \in Int
    BY DEF Used, Plain, Task
  <2>2. t - lastId \notin 1..n
    BY <2>1
  <2>3. r[t] = p[t]
    BY <1>4, <2>1, <2>2
  <2>4. QED
    BY <2>1, <2>3 DEF Used
<1>6. Checks(r) = Checks(p)
  <2>1. ASSUME NEW t \in Checks(r) PROVE t \in Checks(p)
    <3>1. t \in Task /\ r[t].status # "ABSENT" /\ r[t].idempotency_key \in Cycle
      BY DEF Checks, Used
    <3>2. r[t].idempotency_key \notin Pay
      BY <3>1, SaleConstants
    <3>3. r[t] = p[t]
      BY <1>2, <1>4, <3>1, <3>2
    <3>4. QED
      BY <3>1, <3>3 DEF Checks, Used
  <2>2. Checks(p) \subseteq Checks(r)
    BY <1>5 DEF Checks
  <2>3. QED
    BY <2>1, <2>2
<1>7. Plain(r, lastId + n)
  <2>1. ASSUME NEW t \in Used(r)
        PROVE  r[t].depends_on = {} /\ r[t].requires_approval = FALSE /\ t <= lastId + n
    <3>1. t \in Task /\ t \in Int /\ r[t].status # "ABSENT"
      BY DEF Used, Task
    <3>2. CASE r[t] = p[t]
      <4>1. t \in Used(p)
        BY <3>1, <3>2 DEF Used
      <4>2. t <= lastId
        BY <4>1 DEF Plain
      <4>3. QED
        BY <3>1, <3>2, <4>1, <4>2 DEF Plain
    <3>3. CASE t - lastId \in 1..n /\ r[t].depends_on = {} /\ r[t].requires_approval = FALSE
      BY <3>1, <3>3
    <3>4. QED
      BY <1>4, <3>1, <3>2, <3>3
  <2>2. QED
    BY <2>1 DEF Plain
<1>8. ASSUME NEW i \in 1..n PROVE \E t \in Used(r) : r[t].idempotency_key = s[i]
  <2>1. PICK t \in Task : t = lastId + i
    BY <1>1, <1>3 DEF Task
  <2>2. t - lastId = i
    BY <2>1
  <2>3. SameKey(p, s[i]) = {}
    <3>1. \A u \in Used(p) : p[u].idempotency_key # s[i]
      BY <1>2 DEF Lacks
    <3>2. ByStatus(p, Live \cup {"SUCCEEDED"}) \subseteq Used(p)
      BY DEF ByStatus, Used, Live
    <3>3. QED
      BY <3>1, <3>2 DEF SameKey
  <2>4. r[t] = SpawnedAt(s, t)
    BY <1>2, <2>2, <2>3, Spawned
  <2>5. PICK k \in Pay : k = s[i]
    BY <1>2
  <2>6. r[t] = NewTask(k, {}, 7, FALSE, 0)
    BY <2>2, <2>4, <2>5 DEF SpawnedAt
  <2>7. r[t].idempotency_key = s[i] /\ r[t].status = "PENDING"
    BY <2>5, <2>6, NewDeliverType
  <2>8. QED
    BY <2>7 DEF Used
<1>9. ASSUME NEW S, Covers(p, S) PROVE Covers(r, S \cup {s[i] : i \in DOMAIN s})
  BY <1>2, <1>5, <1>8, <1>9 DEF Covers
<1>10. QED
  BY <1>1, <1>5, <1>6, <1>7, <1>9

\* The number after the last is not taken.
LEMMA NextCheckFree ==
  ASSUME NEW p, NEW t \in Checks(p), FollowsUp(p, t),
         NEW k \in Cycle, k = p[t].idempotency_key + 1
  PROVE  /\ SameKey(p, k) = {}
         /\ \A v \in Checks(p) : p[v].idempotency_key < k /\ p[v].idempotency_key \in Int
<1>1. \A v \in Checks(p) : p[v].idempotency_key < k /\ p[v].idempotency_key \in Int
  BY SaleConstants DEF FollowsUp, Checks, Cycle
<1>2. ASSUME NEW v \in SameKey(p, k) PROVE FALSE
  <2>1. v \in Used(p) /\ p[v].idempotency_key = k
    BY DEF SameKey, ByStatus, Used, Live
  <2>2. v \in Checks(p)
    BY <2>1 DEF Checks
  <2>3. QED
    BY <1>1, <2>1, <2>2 DEF Cycle
<1>3. QED
  BY <1>1, <1>2

\* r is p with one more check at u, of a higher number than those there are.
OneMoreCheck(p, r, last, u, k) ==
    /\ u \in Task /\ last \in Nat /\ last < u /\ k \in Cycle
    /\ \A v \in Checks(p) : p[v].idempotency_key < k /\ p[v].idempotency_key \in Int
    /\ \A v \in Checks(p) : p[v].status \notin Live
    /\ r[u].status = "PENDING" /\ r[u].idempotency_key = k
    /\ r[u].depends_on = {} /\ r[u].requires_approval = FALSE
    /\ \A v \in Task : v # u => r[v] = p[v]

LEMMA NextCheckTidy ==
  ASSUME NEW p, NEW r, NEW last, NEW u, NEW k, OneMoreCheck(p, r, last, u, k),
         Plain(p, last), Chain(p)
  PROVE  /\ r # p /\ Plain(r, u) /\ Chain(r) /\ UnderWay(r)
         /\ \A v \in Used(p) : v \in Used(r) /\ r[v] = p[v]
<1> USE DEF OneMoreCheck
<1>1. u \notin Used(p)
  BY DEF Plain, Task
<1>2. Used(r) = Used(p) \cup {u}
  BY DEF Used
<1>3. Checks(r) = Checks(p) \cup {u}
  <2>1. Checks(r) \subseteq Task /\ Checks(p) \subseteq Task
    BY DEF Checks, Used
  <2>2. \A v \in Task : v # u => (v \in Checks(r) <=> v \in Checks(p))
    BY <1>2 DEF Checks
  <2>3. u \in Checks(r)
    BY <1>2 DEF Checks
  <2>4. QED
    BY <2>1, <2>2, <2>3
<1>4. \A v \in Used(p) : v # u /\ r[v] = p[v]
  BY <1>1 DEF Used
<1>5. Plain(r, u)
  <2>1. ASSUME NEW v \in Used(p)
        PROVE  r[v].depends_on = {} /\ r[v].requires_approval = FALSE /\ v <= u
    <3>1. v <= last /\ v \in Int /\ p[v].depends_on = {} /\ p[v].requires_approval = FALSE
      BY DEF Plain, Used, Task
    <3>2. r[v] = p[v] /\ u \in Int
      BY <1>4 DEF Task
    <3>3. QED
      BY <3>1, <3>2
  <2>2. u <= u
    BY DEF Task
  <2>3. QED
    BY <1>2, <2>1, <2>2 DEF Plain
<1>6. \A v \in Checks(p) : v # u /\ r[v] = p[v]
  BY <1>4 DEF Checks
<1>7. k \in Int
  BY DEF Cycle
<1>8. Chain(r)
  <2>1. ASSUME NEW v \in Checks(r), NEW x \in Checks(r),
               r[v].idempotency_key = r[x].idempotency_key
        PROVE  v = x
    <3>1. CASE v = u /\ x # u
      BY <1>3, <1>6, <1>7, <2>1, <3>1
    <3>2. CASE v # u /\ x = u
      BY <1>3, <1>6, <1>7, <2>1, <3>2
    <3>3. CASE v # u /\ x # u
      BY <1>3, <1>6, <2>1, <3>3 DEF Chain
    <3>4. QED
      BY <3>1, <3>2, <3>3
  <2>2. ASSUME NEW v \in Checks(r), NEW x \in Checks(r), r[v].status \in Live
        PROVE  r[x].idempotency_key <= r[v].idempotency_key
    <3>1. v = u
      BY <1>3, <1>6, <2>2
    <3>2. r[x].idempotency_key \in Int /\ r[x].idempotency_key <= k
      BY <1>3, <1>6, <1>7
    <3>3. QED
      BY <3>1, <3>2
  <2>3. QED
    BY <2>1, <2>2 DEF Chain
<1>9. UnderWay(r)
  BY <1>3 DEF UnderWay, Live
<1>10. QED
  BY <1>1, <1>2, <1>4, <1>5, <1>8, <1>9

\* What a worker saves when it is through with a task.
LEMMA RescheduledTidy ==
  ASSUME NEW w \in Worker, wq[w] \in Queue, lastId \in Nat,
         DueAgain(wq[w], wtask[w]) => lastId < MaxTasks,
         Plain(wq[w], lastId), Chain(wq[w]),
         wtask[w] \in Checks(wq[w]) =>
            wq[w][wtask[w]].status \in Live \/ FollowsUp(wq[w], wtask[w]),
         InMeasurement => UnderWay(wq[w]) \/ wtask[w] \in Checks(wq[w]),
         NEW q, q = Rescheduled(wq[w], wtask[w]),
         NEW last, last = IF q = wq[w] THEN lastId ELSE lastId + 1
  PROVE  /\ q \in Queue /\ Plain(q, last) /\ Chain(q) /\ (InMeasurement => UnderWay(q))
         /\ \A S : Covers(wq[w], S) => Covers(q, S)
<1> DEFINE t == wtask[w]
<1>1. PICK p \in Queue : p = wq[w]
  OBVIOUS
<1>2. CASE DueAgain(p, t)
  <2>1. /\ t \in Checks(p) /\ p[t].idempotency_key < MaxCycles
        /\ p[t].status \in {"SUCCEEDED", "FAILED_FINAL"}
        /\ ByStatus(p, Live) \cap Checks(p) \subseteq {t}
    BY <1>2 DEF DueAgain
  <2>2. p[t].idempotency_key + 1 \in Cycle
    BY <2>1, SaleConstants DEF Checks, Cycle
  <2>3. PICK k \in Cycle : k = p[t].idempotency_key + 1
    BY <2>2
  <2>4. PICK new : new = NewTask(k, {}, 3, FALSE, MaxDelay)
    OBVIOUS
  <2>5. /\ new \in TaskRecord /\ new.status = "PENDING" /\ new.idempotency_key = k
        /\ new.depends_on = {} /\ new.requires_approval = FALSE
    BY <2>4, NextCheckType
  <2>6. PICK u \in Task : u = lastId + 1
    BY <1>1, <1>2, TaskConstants DEF Task
  <2>7. q = Add(p, u, new)
    BY <1>1, <1>2, <2>3, <2>4, <2>6 DEF Rescheduled
  <2>8. p[t].status \notin Live
    BY <2>1 DEF Live
  <2>9. \A v \in Checks(p) : p[v].status \notin Live
    BY <2>1, <2>8 DEF ByStatus, Checks, Used
  <2>10. FollowsUp(p, t) /\ Plain(p, lastId) /\ Chain(p)
    BY <1>1, <2>1, <2>8
  <2>11. /\ SameKey(p, k) = {}
         /\ \A v \in Checks(p) : p[v].idempotency_key < k /\ p[v].idempotency_key \in Int
    BY <2>1, <2>3, <2>10, NextCheckFree
  <2>12. /\ Add(p, u, new) \in Queue /\ Add(p, u, new)[u] = new
         /\ \A v \in Task : v # u => Add(p, u, new)[v] = p[v]
    BY <2>5, <2>11, Added
  <2>13. /\ q \in Queue /\ q[u].status = "PENDING" /\ q[u].idempotency_key = k
         /\ q[u].depends_on = {} /\ q[u].requires_approval = FALSE
         /\ \A v \in Task : v # u => q[v] = p[v]
    BY <2>5, <2>7, <2>12
  <2>14. PICK i \in Nat : i = lastId /\ i < u
    BY <2>6
  <2>15. /\ q # p /\ Plain(q, u) /\ Chain(q) /\ UnderWay(q)
         /\ \A v \in Used(p) : v \in Used(q) /\ q[v] = p[v]
    <3>1. Plain(p, i) /\ Chain(p)
      BY <2>10, <2>14
    <3>2. OneMoreCheck(p, q, i, u, k)
      BY <2>9, <2>11, <2>13, <2>14 DEF OneMoreCheck
    <3>3. QED
      BY <3>1, <3>2, NextCheckTidy
  <2>16. \A S : Covers(p, S) => Covers(q, S)
    BY <2>15 DEF Covers
  <2>17. last = u
    BY <1>1, <2>6, <2>15
  <2>18. QED
    BY <1>1, <2>13, <2>15, <2>16, <2>17
<1>3. CASE ~DueAgain(p, t)
  <2>1. q = p /\ last = lastId
    BY <1>1, <1>3 DEF Rescheduled
  <2>2. ASSUME InMeasurement, t \in Checks(p) PROVE UnderWay(p)
    <3>1. CASE p[t].status \in Live
      BY <2>2, <3>1 DEF UnderWay
    <3>2. CASE FollowsUp(p, t)
      <4>1. \/ ~(p[t].idempotency_key < MaxCycles)
            \/ ~(ByStatus(p, Live) \cap Checks(p) \subseteq {t})
        BY <1>3, <2>2, <3>2 DEF DueAgain, FollowsUp, InMeasurement
      <4>2. p[t].idempotency_key \in Cycle
        BY <2>2 DEF Checks
      <4>3. CASE ~(p[t].idempotency_key < MaxCycles)
        BY <2>2, <4>2, <4>3, SaleConstants DEF UnderWay, Cycle
      <4>4. CASE ~(ByStatus(p, Live) \cap Checks(p) \subseteq {t})
        BY <4>4 DEF UnderWay, ByStatus
      <4>5. QED
        BY <4>1, <4>3, <4>4
    <3>3. QED
      BY <1>1, <2>2, <3>1, <3>2
  <2>3. QED
    BY <1>1, <2>1, <2>2
<1>4. QED
  BY <1>2, <1>3

(***************************************************************************)
(* Part 5.  Who acts is alone: the invariant as the one who acts sees it.  *)
(***************************************************************************)
Others(p) == \A a \in Process : a # p => pc[a] = "idle"

\* What the record says of the state of the opportunity.
StateOK ==
    /\ opp.state \in KeepMeasuring \cup {"NO_TRACTION"}
    /\ opp.state = "NO_TRACTION" => ledger = {}

Queued(S) == Covers(tasks, S) /\ (InMeasurement => UnderWay(tasks))

SentOK(p, sending) == sent[p] <= 1 /\ (sent[p] > 0 => p \in opp.deliveries \/ sending)

WorkerSees(w) ==
    /\ Plain(tasks, lastId) /\ Chain(tasks) /\ CopyOK(w) /\ StateOK
    /\ dropped = {} /\ RowsOK(w)
    /\ pc[w] # "recorded" => Queued(ledger \ Unspawned(w))
    /\ \A p \in Pay : SentOK(p, pc[w] = "ran" /\ outcome[w] = "ok" /\ KeyOf(w) = p)
    /\ (opp.revenue <=> ledger # {}) \/ Checking(w)

HumanSees(h) ==
    /\ Plain(tasks, lastId) /\ Chain(tasks) /\ StateOK
    /\ dropped = {} /\ (pc[h] = "bookkeeping" => hledger[h] = ledger)
    /\ Queued(ledger)
    /\ \A p \in Pay : SentOK(p, pc[h] = "delivering" /\ hpay[h] = p)
    /\ opp.revenue <=> ledger # {}
    /\ (pc[h] \in {"delivering", "moving"} => hopp[h] = opp) /\ pc[h] # "accepting"

\* Nothing starts while something else runs.
LEMMA Starts ==
  ASSUME Orderly, OrderlyInv, NEW a \in Process, NEW label, Begin(a, label)
  PROVE  /\ Idle /\ pc[a] = "idle" /\ pc' = [pc EXCEPT ![a] = label]
         /\ overlaps' \in 0..MaxOverlaps
<1>1. overlaps \in 0..0 /\ MaxOverlaps = 0
  BY DEF Orderly, OrderlyInv, IInv, TypeOK
<1>2. ~(overlaps < MaxOverlaps)
  BY <1>1
<1>3. Idle
  BY <1>2 DEF Begin
<1>4. QED
  BY <1>3, Begins DEF OrderlyInv

LEMMA ActsAlone ==
  ASSUME Alone, NEW p \in Process, Idle \/ pc[p] # "idle"
  PROVE  Others(p)
BY DEF Alone, Idle, Others

LEMMA IdleOthers ==
  ASSUME NEW p, Others(p), NEW w \in Worker, w # p
  PROVE  /\ pc[w] = "idle" /\ Unspawned(w) = {} /\ ~Checking(w)
         /\ \A k : ~(pc[w] = "ran" /\ outcome[w] = "ok" /\ KeyOf(w) = k)
BY DEF Others, Process, Unspawned, Checking

LEMMA WorkerLooks ==
  ASSUME OrderlyInv, NEW w \in Worker, Others(w)
  PROVE  WorkerSees(w) /\ Pending = Unspawned(w)
<1>1. Pending = Unspawned(w)
  BY IdleOthers DEF Pending
<1>2. pc[w] # "recorded" => Queued(ledger \ Unspawned(w))
  <2>1. FileOK
    BY DEF OrderlyInv, CopyInv
  <2>2. \A v \in Worker : v # w => pc[v] # "recorded"
    BY IdleOthers
  <2>3. QED
    BY <1>1, <2>1, <2>2 DEF FileOK, Queued
<1>3. \A p \in Pay : SentOK(p, pc[w] = "ran" /\ outcome[w] = "ok" /\ KeyOf(w) = p)
  <2>1. \A h \in Human : pc[h] # "delivering"
    BY SaleConstants DEF Others, Process
  <2>2. ASSUME NEW p \in Pay
        PROVE  Sending(p) => pc[w] = "ran" /\ outcome[w] = "ok" /\ KeyOf(w) = p
    BY <2>1, IdleOthers DEF Sending
  <2>3. QED
    BY <2>2 DEF OrderlyInv, OutboxInv, SentOK
<1>4. ((opp.revenue <=> ledger # {}) \/ Checking(w)) /\ dropped = {} /\ RowsOK(w)
  BY IdleOthers DEF OrderlyInv, RevenueInv
<1>5. QED
  BY <1>1, <1>2, <1>3, <1>4 DEF OrderlyInv, CopyInv, RevenueInv, WorkerSees, StateOK

LEMMA WorkerActs ==
  ASSUME NEW w \in Worker, IInv', Others(w)', WorkerSees(w)',
         \A v \in Worker : v # w => polled'[v] = {}
  PROVE  OrderlyInv'
<1>1. \A a \in Process : a # w => pc'[a] = "idle"
  BY DEF Others
<1>2. Alone'
  BY <1>1 DEF Alone
<1>3. ASSUME NEW v \in Worker, v # w
      PROVE  /\ pc'[v] = "idle" /\ Unspawned(v)' = {} /\ CopyOK(v)'
  BY <1>1, <1>3 DEF Process, Unspawned, CopyOK
<1>4. Pending' = Unspawned(w)'
  BY <1>3 DEF Pending
<1>5. CopyInv'
  <2>1. FileOK'
    BY <1>4 DEF FileOK, WorkerSees, Queued
  <2>2. \A v \in Worker : CopyOK(v)'
    BY <1>3 DEF WorkerSees
  <2>3. QED
    BY <2>1, <2>2 DEF CopyInv, WorkerSees
<1>6. OutboxInv'
  <2>1. \A h \in Human : pc'[h] = "idle"
    BY <1>1, SaleConstants DEF Process
  <2>2. \A p \in Pay : sent'[p] <= 1 /\ (sent'[p] > 0 => p \in opp'.deliveries \/ Sending(p)')
    BY DEF WorkerSees, SentOK, Sending
  <2>3. QED
    BY <2>1, <2>2 DEF OutboxInv
<1>7. RevenueInv'
  <2>1. ASSUME NEW v \in Worker PROVE RowsOK(v)'
    <3>1. CASE v # w
      BY <1>3, <3>1 DEF RowsOK
    <3>2. QED
      BY <3>1 DEF WorkerSees
  <2>2. \A h \in Human : pc'[h] = "idle"
    BY <1>1, SaleConstants DEF Process
  <2>3. QED
    BY <2>1, <2>2 DEF RevenueInv, WorkerSees, StateOK
<1>8. QED
  BY <1>2, <1>5, <1>6, <1>7 DEF OrderlyInv

LEMMA HumanLooks ==
  ASSUME OrderlyInv, NEW h \in Human, Others(h)
  PROVE  HumanSees(h)
<1>1. h \notin Worker
  BY SaleConstants
<1>2. Pending = {}
  BY <1>1, IdleOthers DEF Pending
<1>3. Queued(ledger)
  <2>1. FileOK
    BY DEF OrderlyInv, CopyInv
  <2>2. \A v \in Worker : pc[v] # "recorded"
    BY <1>1, IdleOthers
  <2>3. QED
    BY <1>2, <2>1, <2>2 DEF FileOK, Queued
<1>4. \A p \in Pay : SentOK(p, pc[h] = "delivering" /\ hpay[h] = p)
  <2>1. \A g \in Human : g # h => pc[g] # "delivering"
    BY DEF Others, Process
  <2>2. ASSUME NEW p \in Pay PROVE Sending(p) => pc[h] = "delivering" /\ hpay[h] = p
    BY <1>1, <2>1, IdleOthers DEF Sending
  <2>3. QED
    BY <2>2 DEF OrderlyInv, OutboxInv, SentOK
<1>5. opp.revenue <=> ledger # {}
  BY <1>1, IdleOthers DEF OrderlyInv, RevenueInv
<1>6. QED
  BY <1>3, <1>4, <1>5 DEF OrderlyInv, CopyInv, OutboxInv, RevenueInv, HumanSees, StateOK

LEMMA HumanActs ==
  ASSUME NEW h \in Human, IInv', Others(h)', HumanSees(h)',
         \A v \in Worker : polled'[v] = {}
  PROVE  OrderlyInv'
<1>1. h \notin Worker /\ \A a \in Process : a # h => pc'[a] = "idle"
  BY SaleConstants DEF Others
<1>2. Alone'
  BY <1>1 DEF Alone
<1>3. ASSUME NEW v \in Worker
      PROVE  /\ pc'[v] = "idle" /\ Unspawned(v)' = {} /\ CopyOK(v)'
  BY <1>1, <1>3 DEF Process, Unspawned, CopyOK
<1>4. Pending' = {}
  BY <1>3 DEF Pending
<1>5. CopyInv'
  <2>1. FileOK'
    BY <1>4 DEF FileOK, HumanSees, Queued
  <2>2. QED
    BY <1>3, <2>1 DEF CopyInv, HumanSees
<1>6. OutboxInv'
  <2>1. \A g \in Human : g # h => pc'[g] = "idle"
    BY <1>1 DEF Process
  <2>2. \A p \in Pay : sent'[p] <= 1 /\ (sent'[p] > 0 => p \in opp'.deliveries \/ Sending(p)')
    BY DEF HumanSees, SentOK, Sending
  <2>3. QED
    BY <2>1, <2>2 DEF OutboxInv, HumanSees
<1>7. RevenueInv'
  <2>1. \A v \in Worker : RowsOK(v)'
    BY <1>3 DEF RowsOK
  <2>2. \A g \in Human : g # h => pc'[g] = "idle"
    BY <1>1 DEF Process
  <2>3. QED
    BY <2>1, <2>2 DEF RevenueInv, HumanSees, StateOK
<1>8. QED
  BY <1>2, <1>5, <1>6, <1>7 DEF OrderlyInv

\* The same for a step of w, whose effect on the others is none.
LEMMA WorkerSteps ==
  ASSUME Orderly, OrderlyInv, IInv', NEW w \in Worker, Only(w),
         Idle \/ pc[w] # "idle", WorkerSees(w)'
  PROVE  OrderlyInv'
<1>1. Others(w)
  BY ActsAlone DEF OrderlyInv, Process
<1>2. Others(w)'
  BY <1>1 DEF Others, Only
<1>3. ASSUME NEW v \in Worker, v # w PROVE polled'[v] = {}
  <2>1. pc[v] = "idle"
    BY <1>1, <1>3 DEF Others, Process
  <2>2. polled[v] = {}
    BY <2>1 DEF OrderlyInv, RevenueInv, RowsOK
  <2>3. QED
    BY <1>3, <2>2 DEF Only
<1>4. QED
  BY <1>2, <1>3, WorkerActs

LEMMA HumanSteps ==
  ASSUME Orderly, OrderlyInv, IInv', NEW h \in Human, HumanOnly(h),
         Idle \/ pc[h] # "idle", HumanSees(h)'
  PROVE  OrderlyInv'
<1>1. Others(h)
  BY ActsAlone DEF OrderlyInv, Process
<1>2. Others(h)'
  BY <1>1 DEF Others, HumanOnly
<1>3. ASSUME NEW v \in Worker PROVE polled'[v] = {}
  <2>1. pc[v] = "idle"
    BY <1>1, SaleConstants DEF Others, Process
  <2>2. polled[v] = {}
    BY <2>1 DEF OrderlyInv, RevenueInv, RowsOK
  <2>3. QED
    BY <2>2 DEF HumanOnly, worker, results
<1>4. QED
  BY <1>2, <1>3, HumanActs

LEMMA WorkerSight ==
  ASSUME Orderly, OrderlyInv, NEW w \in Worker, Idle \/ pc[w] # "idle"
  PROVE  WorkerSees(w) /\ Pending = Unspawned(w)
BY ActsAlone, WorkerLooks DEF OrderlyInv, Process

LEMMA HumanSight ==
  ASSUME Orderly, OrderlyInv, NEW h \in Human, Idle \/ pc[h] # "idle"
  PROVE  HumanSees(h)
BY ActsAlone, HumanLooks DEF OrderlyInv, Process

(***************************************************************************)
(* Part 6.  The steps, one at a time.                                      *)
(***************************************************************************)
LEMMA LoadQueueOrderly ==
  ASSUME Orderly, OrderlyInv, IInv', NEW w \in Worker, LoadQueue(w) PROVE OrderlyInv'
<1>1. PICK q : q = Housekept(tasks)
  OBVIOUS
<1>2. /\ IInv /\ Idle /\ pc[w] = "idle" /\ pc' = [pc EXCEPT ![w] = "loaded"]
      /\ overlaps' \in 0..MaxOverlaps
  BY Starts DEF OrderlyInv, LoadQueue, Process
<1>3. WorkerSees(w)
  BY <1>2, WorkerSight
<1>4. Kept(tasks, q) /\ SameLive(tasks, q) /\ Plain(q, lastId)
  <2>1. Plain(tasks, lastId) /\ tasks \in Queue
    BY <1>2, <1>3, VersionsSound DEF WorkerSees
  <2>2. \A t \in Used(tasks) : tasks[t].depends_on = {}
    BY <2>1 DEF Plain
  <2>3. Kept(tasks, q) /\ SameLive(tasks, q)
    BY <1>1, <2>1, <2>2, HousekeptKept
  <2>4. QED
    BY <2>1, <2>3, KeptPlain
<1>5. Only(w)
  BY <1>2, Functions DEF LoadQueue, results, Only
<1>6. /\ pc'[w] = "loaded" /\ wq'[w] = q
      /\ UNCHANGED <<ledger, dropped, sent, opp, tasks, lastId, wtask, polled, books, booked,
                     takings, outcome>>
  BY <1>1, <1>2, Functions DEF LoadQueue, world, results
<1>7. CopyOK(w)'
  BY <1>4, <1>6 DEF CopyOK
<1>8. WorkerSees(w)'
  BY <1>2, <1>3, <1>6, <1>7
     DEF WorkerSees, RowsOK, StateOK, Queued, InMeasurement, Unspawned, SentOK, Checking
<1>9. QED
  BY <1>2, <1>5, <1>8, WorkerSteps

\* The queue of the worker is saved as it is.
LEMMA SavedTidy ==
  ASSUME NEW p, NEW r, Kept(p, r), SameLive(p, r), NEW last, Plain(p, last), Chain(p)
  PROVE  /\ Plain(r, last) /\ Chain(r) /\ (UnderWay(p) => UnderWay(r))
         /\ \A S : Covers(p, S) => Covers(r, S)
<1>1. Plain(r, last)
  BY KeptPlain
<1>2. Chain(r)
  BY KeptChain DEF SameLive
<1>3. QED
  BY <1>1, <1>2, KeptUnderWay, KeptCovers

LEMMA NothingReadyOrderly ==
  ASSUME Orderly, OrderlyInv, IInv', NEW w \in Worker, NothingReady(w) PROVE OrderlyInv'
<1>1. IInv /\ pc[w] = "loaded"
  BY DEF OrderlyInv, NothingReady
<1>2. WorkerSees(w)
  BY <1>1, WorkerSight
<1>3. /\ Only(w) /\ pc'[w] = "idle" /\ polled'[w] = {} /\ Unspawned(w)' = {}
  BY <1>1, Forgets DEF NothingReady
<1>4. tasks' = wq[w] /\ UNCHANGED <<ledger, dropped, sent, opp, lastId>>
  BY DEF NothingReady, world
<1>5. Kept(tasks, tasks') /\ SameLive(tasks, tasks')
  BY <1>1, <1>2, <1>4 DEF WorkerSees, CopyOK
<1>6. /\ Plain(tasks', lastId) /\ Chain(tasks') /\ (UnderWay(tasks) => UnderWay(tasks'))
      /\ \A S : Covers(tasks, S) => Covers(tasks', S)
  BY <1>2, <1>5, SavedTidy DEF WorkerSees
<1>7. CopyOK(w)'
  BY <1>3 DEF CopyOK
<1>8. Unspawned(w) = {} /\ ~Checking(w)
  BY <1>1 DEF Unspawned, Checking
<1>9. WorkerSees(w)'
  BY <1>1, <1>2, <1>3, <1>4, <1>6, <1>7, <1>8
     DEF WorkerSees, RowsOK, StateOK, Queued, InMeasurement, SentOK
<1>10. QED
  BY <1>1, <1>3, <1>9, WorkerSteps

LEMMA ClaimReadyOrderly ==
  ASSUME Orderly, OrderlyInv, IInv', NEW w \in Worker, ClaimReady(w) PROVE OrderlyInv'
<1>1. PICK t \in NextReady(wq[w]) :
          /\ wq' = [wq EXCEPT ![w] = Claim(wq[w], t)]
          /\ tasks' = Claim(wq[w], t)
          /\ wtask' = [wtask EXCEPT ![w] = t]
  BY DEF ClaimReady
<1>2. IInv /\ pc[w] = "loaded"
  BY DEF OrderlyInv, ClaimReady
<1>3. WorkerSees(w)
  BY <1>2, WorkerSight
<1>4. PICK q : q = Claim(wq[w], t)
  OBVIOUS
<1>5. Kept(wq[w], q) /\ SameLive(wq[w], q) /\ q[t].status \in Live
  BY <1>2, <1>4, VersionsSound, ClaimKept
<1>6. Kept(tasks, q) /\ SameLive(tasks, q)
  BY <1>2, <1>3, <1>5, BothTransitive DEF WorkerSees, CopyOK
<1>7. /\ Plain(q, lastId) /\ Chain(q) /\ (UnderWay(tasks) => UnderWay(q))
      /\ \A S : Covers(tasks, S) => Covers(q, S)
  BY <1>3, <1>6, SavedTidy DEF WorkerSees
<1>8. Only(w) /\ pc' = [pc EXCEPT ![w] = "claimed"]
  <2>1. pc' = [pc EXCEPT ![w] = "claimed"] /\ overlaps' \in 0..MaxOverlaps
    BY <1>2, Goes DEF ClaimReady
  <2>2. QED
    BY <1>1, <1>2, <2>1, Functions DEF ClaimReady, results, Only
<1>9. /\ pc'[w] = "claimed" /\ wq'[w] = q /\ tasks' = q /\ wtask'[w] = t
      /\ UNCHANGED <<ledger, dropped, sent, opp, lastId, polled, books, booked, takings, outcome>>
  BY <1>1, <1>2, <1>4, <1>8, Functions DEF ClaimReady, world, results
<1>10. CopyOK(w)'
  BY <1>5, <1>7, <1>9, KeptItself DEF CopyOK
<1>11. /\ Unspawned(w) = {} /\ Unspawned(w)' = {} /\ ~Checking(w)
       /\ pc'[w] # "ran" /\ pc'[w] # "recorded"
  BY <1>2, <1>9 DEF Unspawned, Checking
<1>12. WorkerSees(w)'
  BY <1>2, <1>3, <1>7, <1>9, <1>10, <1>11
     DEF WorkerSees, RowsOK, StateOK, Queued, InMeasurement, SentOK
<1>13. QED
  BY <1>2, <1>8, <1>12, WorkerSteps

\* The copy while the adapter runs: it does not touch the queue.
LEMMA CopyStays ==
  ASSUME NEW w \in Worker, CopyOK(w), pc[w] \in {"claimed", "booking", "saving"},
         pc'[w] \in {"booking", "saving", "ran"}, UNCHANGED <<tasks, lastId, wq, wtask>>,
         pc'[w] = "ran" /\ booked'[w] # <<>> => Checking(w)'
  PROVE  CopyOK(w)'
BY DEF CopyOK

LEMMA PollOrderly ==
  ASSUME Orderly, OrderlyInv, IInv', NEW w \in Worker, Poll(w) PROVE OrderlyInv'
<1>1. IInv /\ pc[w] = "claimed"
  BY DEF OrderlyInv, Poll
<1>2. WorkerSees(w)
  BY <1>1, WorkerSight
<1>3. Only(w) /\ pc' = [pc EXCEPT ![w] = "booking"]
  <2>1. pc' = [pc EXCEPT ![w] = "booking"] /\ overlaps' \in 0..MaxOverlaps
    BY <1>1, Goes DEF Poll
  <2>2. QED
    BY <1>1, <2>1, Functions DEF Poll, Only
<1>4. /\ polled'[w] # {} => opp.state \in KeepMeasuring
      /\ UNCHANGED <<ledger, dropped, sent, opp, tasks, lastId, wq, wtask, books, booked>>
  BY <1>1, Functions DEF Poll, world
<1>5. pc'[w] = "booking"
  BY <1>1, <1>3, Functions
<1>6. booked[w] = <<>>
  BY <1>1, Facts DEF BooksOK
<1>7. Unspawned(w) = {} /\ Unspawned(w)' = {} /\ Checking(w)' /\ ~Checking(w)
  BY <1>1, <1>4, <1>5, <1>6 DEF Unspawned, BookedBy, Coming, Checking
<1>8. CopyOK(w)'
  BY <1>1, <1>2, <1>4, <1>5, CopyStays DEF WorkerSees
<1>9. polled'[w] # {} => opp.state # "NO_TRACTION"
  BY <1>4, <1>5 DEF KeepMeasuring
<1>10. WorkerSees(w)'
  BY <1>1, <1>2, <1>4, <1>5, <1>7, <1>8, <1>9
     DEF WorkerSees, RowsOK, StateOK, Queued, InMeasurement, SentOK
<1>11. QED
  BY <1>1, <1>3, <1>10, WorkerSteps

LEMMA PollFailsOrderly ==
  ASSUME Orderly, OrderlyInv, IInv', NEW w \in Worker, PollFails(w) PROVE OrderlyInv'
<1>1. IInv /\ pc[w] = "claimed"
  BY DEF OrderlyInv, PollFails
<1>2. WorkerSees(w)
  BY <1>1, WorkerSight
<1>3. Only(w) /\ pc' = [pc EXCEPT ![w] = "ran"]
  <2>1. pc' = [pc EXCEPT ![w] = "ran"] /\ overlaps' \in 0..MaxOverlaps
    BY <1>1, Goes DEF PollFails
  <2>2. QED
    BY <1>1, <2>1, Functions DEF PollFails, Only
<1>4. /\ pc'[w] = "ran" /\ outcome'[w] # "ok"
      /\ UNCHANGED <<ledger, dropped, sent, opp, tasks, lastId, wq, wtask, polled, books, booked,
                     takings>>
  BY <1>1, <1>3, Functions DEF PollFails, world
<1>5. booked[w] = <<>>
  BY <1>1, Facts DEF BooksOK
<1>6. Unspawned(w) = {} /\ Unspawned(w)' = {} /\ ~Checking(w)
  BY <1>1, <1>4, <1>5 DEF Unspawned, BookedBy, Coming, Checking
<1>7. CopyOK(w)'
  BY <1>1, <1>2, <1>4, <1>5, CopyStays DEF WorkerSees
<1>8. ~Checking(w)'
  BY <1>4 DEF Checking
<1>9. WorkerSees(w)'
  BY <1>1, <1>2, <1>4, <1>6, <1>7, <1>8
     DEF WorkerSees, RowsOK, StateOK, Queued, InMeasurement, SentOK
<1>10. QED
  BY <1>1, <1>3, <1>9, WorkerSteps

LEMMA AllBookedOrderly ==
  ASSUME Orderly, OrderlyInv, IInv', NEW w \in Worker, AllBooked(w) PROVE OrderlyInv'
<1>1. IInv /\ pc[w] = "booking" /\ polled[w] = {}
  BY DEF OrderlyInv, AllBooked
<1>2. WorkerSees(w)
  BY <1>1, WorkerSight
<1>3. Only(w) /\ pc' = [pc EXCEPT ![w] = "ran"]
  <2>1. pc' = [pc EXCEPT ![w] = "ran"] /\ overlaps' \in 0..MaxOverlaps
    BY <1>1, Goes DEF AllBooked
  <2>2. QED
    BY <1>1, <2>1, Functions DEF AllBooked, Only
<1>4. /\ pc'[w] = "ran" /\ outcome'[w] = "ok"
      /\ takings'[w] <=> ledger # {}
      /\ UNCHANGED <<ledger, dropped, sent, opp, tasks, lastId, wq, wtask, polled, books, booked>>
  <2>1. PICK b \in BOOLEAN : b = (ledger # {})
    OBVIOUS
  <2>2. takings' = [takings EXCEPT ![w] = b]
    BY <2>1 DEF AllBooked
  <2>3. takings'[w] = b
    BY <1>1, <2>2, Functions
  <2>4. QED
    BY <1>1, <1>3, <2>1, <2>3, Functions DEF AllBooked, world
<1>5. KeyOf(w) \in Cycle /\ KeyOf(w)' = KeyOf(w)
  BY <1>1, <1>4, Facts DEF WorkOK, KeyOf
<1>6. Checking(w)' /\ Unspawned(w)' = Unspawned(w)
  BY <1>1, <1>4, <1>5 DEF Checking, Unspawned, BookedBy, Coming
<1>7. CopyOK(w)'
  BY <1>1, <1>2, <1>4, <1>6, CopyStays DEF WorkerSees
<1>8. WorkerSees(w)'
  BY <1>1, <1>2, <1>4, <1>6, <1>7 DEF WorkerSees, RowsOK, StateOK, Queued, InMeasurement, SentOK
<1>9. QED
  BY <1>1, <1>3, <1>8, WorkerSteps

LEMMA LoadLedgerOrderly ==
  ASSUME Orderly, OrderlyInv, IInv', NEW w \in Worker, LoadLedger(w) PROVE OrderlyInv'
<1>1. PICK p \in polled[w] :
          \/ /\ p \in ledger
             /\ polled' = [polled EXCEPT ![w] = polled[w] \ {p}]
             /\ UNCHANGED <<pc, overlaps, books>>
          \/ /\ p \notin ledger
             /\ books' = [books EXCEPT ![w] = [event |-> p, rows |-> ledger]]
             /\ Goto(w, "saving")
             /\ UNCHANGED polled
  BY DEF LoadLedger, HasRef
<1>2. /\ IInv /\ pc[w] = "booking" /\ overlaps \in 0..MaxOverlaps
      /\ UNCHANGED <<paid, ledger, dropped, sent, opp, tasks, lastId, wq, wtask, booked,
                     unsold, takings, outcome, human>>
  BY DEF OrderlyInv, LoadLedger, world, IInv, TypeOK
<1>3. WorkerSees(w)
  BY <1>2, WorkerSight
<1>4. /\ opp.state # "NO_TRACTION" /\ Unspawned(w) = BookedBy(w)
      /\ BookedBy(w)' = BookedBy(w) /\ KeyOf(w)' = KeyOf(w)
  BY <1>1, <1>2, <1>3 DEF WorkerSees, RowsOK, Unspawned, Coming, BookedBy, KeyOf
<1>5. CASE /\ p \in ledger /\ polled' = [polled EXCEPT ![w] = polled[w] \ {p}]
           /\ UNCHANGED <<pc, overlaps, books>>
  <2>1. Only(w) /\ pc'[w] = "booking"
    BY <1>2, <1>5, Functions DEF Only
  <2>2. CopyOK(w)' /\ Checking(w)'
    BY <1>2, <1>3, <2>1, CopyStays DEF WorkerSees, Checking
  <2>3. Unspawned(w)' = Unspawned(w)
    BY <1>4, <2>1 DEF Unspawned, Coming
  <2>4. WorkerSees(w)'
    BY <1>2, <1>3, <1>4, <2>1, <2>2, <2>3
       DEF WorkerSees, RowsOK, StateOK, Queued, InMeasurement, SentOK
  <2>5. QED
    BY <1>2, <2>1, <2>4, WorkerSteps
<1>6. CASE /\ p \notin ledger /\ books' = [books EXCEPT ![w] = [event |-> p, rows |-> ledger]]
           /\ Goto(w, "saving") /\ UNCHANGED polled
  <2>1. pc' = [pc EXCEPT ![w] = "saving"] /\ overlaps' \in 0..MaxOverlaps
    BY <1>2, <1>6, Goes
  <2>2. /\ Only(w) /\ pc'[w] = "saving" /\ books'[w].event = p /\ books'[w].rows = ledger
    BY <1>2, <1>6, <2>1, Functions DEF Only
  <2>3. CopyOK(w)' /\ Checking(w)'
    BY <1>2, <1>3, <2>2, CopyStays DEF WorkerSees, Checking
  <2>4. ledger' \ Unspawned(w)' = ledger \ Unspawned(w)
    <3>1. Unspawned(w)' = BookedBy(w) \cup {p}
      BY <1>4, <2>2 DEF Unspawned, Coming
    <3>2. QED
      BY <1>2, <1>4, <1>6, <3>1
  <2>5. WorkerSees(w)'
    BY <1>2, <1>3, <1>4, <2>2, <2>3, <2>4
       DEF WorkerSees, RowsOK, StateOK, Queued, InMeasurement, SentOK
  <2>6. QED
    BY <1>2, <2>2, <2>5, WorkerSteps
<1>7. QED
  BY <1>1, <1>5, <1>6

\* What is saved is what was loaded, with the new row: none is lost.
LEMMA SaveLedgerOrderly ==
  ASSUME Orderly, OrderlyInv, IInv', NEW w \in Worker, SaveLedger(w) PROVE OrderlyInv'
<1>1. PICK p : p = books[w].event
  OBVIOUS
<1>2. PICK rows : rows = books[w].rows \cup {p}
  OBVIOUS
<1>3. /\ IInv /\ pc[w] = "saving" /\ ledger' = rows
      /\ dropped' = dropped \cup (ledger \ rows)
      /\ booked' = [booked EXCEPT ![w] = Append(booked[w], p)]
      /\ polled' = [polled EXCEPT ![w] = polled[w] \ {p}]
      /\ books' = [books EXCEPT ![w] = NoBooks]
      /\ Goto(w, "booking")
      /\ UNCHANGED <<paid, sent, opp, tasks, lastId, wq, wtask, unsold, takings, outcome, human>>
  BY <1>1, <1>2 DEF OrderlyInv, SaveLedger, Losing
<1>4. WorkerSees(w)
  BY <1>3, WorkerSight
<1>5. pc' = [pc EXCEPT ![w] = "booking"] /\ overlaps' \in 0..MaxOverlaps
  BY <1>3, Goes
<1>6. Only(w)
  BY <1>3, <1>5, Functions DEF Only
<1>7. /\ pc'[w] = "booking" /\ booked'[w] = Append(booked[w], p)
      /\ polled'[w] = polled[w] \ {p}
  BY <1>3, <1>5, Functions
<1>8. /\ p \in polled[w] /\ p \in Pay /\ p \notin BookedBy(w) /\ booked[w] \in Seq(Pay)
      /\ \A i, j \in DOMAIN booked[w] : booked[w][i] = booked[w][j] => i = j
  BY <1>1, <1>3, Facts DEF BooksOK, WorkerTyped
<1>9. ledger' = ledger \cup {p} /\ dropped' = {} /\ opp.state # "NO_TRACTION"
  BY <1>2, <1>3, <1>4, <1>8 DEF WorkerSees, RowsOK
<1>10. BookedBy(w)' = BookedBy(w) \cup {p}
  <2>1. PICK s \in Seq(Pay) : s = booked[w]
    BY <1>8
  <2>2. PICK r : r = Append(s, p)
    OBVIOUS
  <2>3. p \notin {s[i] : i \in DOMAIN s} /\ \A i, j \in DOMAIN s : s[i] = s[j] => i = j
    BY <1>8, <2>1 DEF BookedBy
  <2>4. {r[i] : i \in DOMAIN r} = {s[i] : i \in DOMAIN s} \cup {p}
    BY <1>8, <2>1, <2>2, <2>3, Longer
  <2>5. BookedBy(w) = {s[i] : i \in DOMAIN s}
    BY <2>1 DEF BookedBy
  <2>6. BookedBy(w)' = {r[i] : i \in DOMAIN r}
    BY <1>7, <2>1, <2>2 DEF BookedBy
  <2>7. QED
    BY <2>4, <2>5, <2>6
<1>11. ledger' \ Unspawned(w)' \subseteq ledger \ Unspawned(w)
  <2>1. Unspawned(w) = BookedBy(w) \cup {p} /\ Unspawned(w)' = BookedBy(w) \cup {p}
    BY <1>1, <1>3, <1>7, <1>10 DEF Unspawned, Coming
  <2>2. QED
    BY <1>9, <2>1
<1>12. Queued(ledger' \ Unspawned(w)')
  BY <1>3, <1>4, <1>11 DEF WorkerSees, Queued, Covers
<1>13. CopyOK(w)' /\ Checking(w)' /\ KeyOf(w)' = KeyOf(w)
  BY <1>3, <1>4, <1>7, CopyStays DEF WorkerSees, Checking, KeyOf
<1>14. WorkerSees(w)'
  BY <1>3, <1>4, <1>7, <1>9, <1>12, <1>13
     DEF WorkerSees, RowsOK, StateOK, Queued, InMeasurement, SentOK
<1>15. QED
  BY <1>3, <1>6, <1>14, WorkerSteps

LEMMA SendOrderly ==
  ASSUME Orderly, OrderlyInv, IInv', NEW w \in Worker, Send(w) PROVE OrderlyInv'
<1>1. /\ IInv /\ pc[w] = "claimed" /\ KeyOf(w) \in Pay
      /\ \/ /\ KeyOf(w) \in opp.deliveries /\ UNCHANGED sent
         \/ outcome' = [outcome EXCEPT ![w] = "fail"] /\ UNCHANGED sent
         \/ /\ KeyOf(w) \notin opp.deliveries
            /\ outcome' = [outcome EXCEPT ![w] = "ok"]
            /\ sent' = [sent EXCEPT ![KeyOf(w)] = Once(sent[KeyOf(w)])]
         \/ outcome' = [outcome EXCEPT ![w] = "retry"] /\ UNCHANGED sent
      /\ \E r \in {"ok", "retry", "fail"} : outcome' = [outcome EXCEPT ![w] = r]
      /\ Goto(w, "ran")
      /\ UNCHANGED <<paid, ledger, dropped, opp, tasks, lastId, wq, wtask, polled, books, booked,
                     unsold, takings, human>>
  BY DEF OrderlyInv, Send, DeliveredBefore
<1>2. WorkerSees(w)
  BY <1>1, WorkerSight
<1>3. Only(w) /\ pc' = [pc EXCEPT ![w] = "ran"]
  <2>1. pc' = [pc EXCEPT ![w] = "ran"] /\ overlaps' \in 0..MaxOverlaps
    BY <1>1, Goes
  <2>2. QED
    BY <1>1, <2>1, Functions DEF Only
<1>4. pc'[w] = "ran" /\ booked[w] = <<>> /\ KeyOf(w)' = KeyOf(w)
  BY <1>1, <1>3, Functions, Facts DEF BooksOK, KeyOf
<1>5. Unspawned(w) = {} /\ Unspawned(w)' = {} /\ ~Checking(w) /\ ~Checking(w)'
  BY <1>1, <1>4, SaleConstants DEF Unspawned, BookedBy, Coming, Checking
<1>6. CopyOK(w)'
  BY <1>1, <1>2, <1>4, CopyStays DEF WorkerSees
<1>7. PICK k \in Pay : k = KeyOf(w)
  BY <1>1
<1>8. ASSUME NEW p \in Pay
      PROVE  /\ sent'[p] <= 1
             /\ sent'[p] > 0 => p \in opp.deliveries \/ (outcome'[w] = "ok" /\ k = p)
  <2>1. /\ sent[p] <= 1 /\ (sent[p] > 0 => p \in opp.deliveries)
        /\ sent \in [Pay -> 0..2] /\ outcome \in [Worker -> Result]
    BY <1>1, <1>2, Facts, Functions DEF WorkerSees, SentOK
  <2>2. CASE UNCHANGED sent
    BY <2>1, <2>2
  <2>3. CASE /\ k \notin opp.deliveries /\ outcome' = [outcome EXCEPT ![w] = "ok"]
             /\ sent' = [sent EXCEPT ![k] = Once(sent[k])]
    <3>1. outcome'[w] = "ok"
      BY <2>1, <2>3
    <3>2. CASE p = k
      <4>1. sent[p] = 0
        BY <2>1, <2>3, <3>2
      <4>2. sent'[p] = 1
        BY <2>1, <2>3, <3>2, <4>1 DEF Once
      <4>3. QED
        BY <3>1, <3>2, <4>2
    <3>3. CASE p # k
      BY <2>1, <2>3, <3>3
    <3>4. QED
      BY <3>2, <3>3
  <2>4. QED
    BY <1>1, <1>7, <2>2, <2>3
<1>9. \A p \in Pay : SentOK(p, pc[w] = "ran" /\ outcome[w] = "ok" /\ KeyOf(w) = p)'
  BY <1>1, <1>4, <1>7, <1>8 DEF SentOK
<1>10. WorkerSees(w)'
  BY <1>1, <1>2, <1>4, <1>5, <1>6, <1>9 DEF WorkerSees, RowsOK, StateOK, Queued, InMeasurement
<1>11. QED
  BY <1>1, <1>3, <1>10, WorkerSteps

\* Measuring goes on, unless nothing was earned.
LEMMA MeasuredOn ==
  ASSUME NEW s \in MeasuredMoves(opp) \cup {"ACQUIRING_TRAFFIC" : t \in {opp.state} \cap {"LIVE"}},
         opp.state \in KeepMeasuring \cup {"NO_TRACTION"}
  PROVE  /\ s \in KeepMeasuring \cup {"NO_TRACTION"}
         /\ s = "NO_TRACTION" => opp.state = "NO_TRACTION" \/ ~opp.revenue
         /\ opp.state = "NO_TRACTION" => s = "NO_TRACTION"
<1>1. Measuring(opp.state) \in {opp.state, "MEASURING"}
  BY DEF Measuring, MoveIfLegal
<1>2. opp.state = "NO_TRACTION" => Measuring(opp.state) = "NO_TRACTION"
  BY DEF Measuring
<1>3. \/ s = Measuring(opp.state)
      \/ s = "FIRST_VISITOR" /\ Measuring(opp.state) = "MEASURING"
      \/ s = "FIRST_LEAD" /\ Measuring(opp.state) \in {"MEASURING", "FIRST_VISITOR"}
      \/ /\ s = "NO_TRACTION" /\ ~opp.revenue
         /\ Measuring(opp.state) \in {"MEASURING", "FIRST_VISITOR"}
      \/ s = "ACQUIRING_TRAFFIC" /\ opp.state = "LIVE"
  BY DEF MeasuredMoves, Tractionless
<1>4. QED
  BY <1>1, <1>2, <1>3 DEF KeepMeasuring

LEMMA OtherTaskOrderly ==
  ASSUME Orderly, OrderlyInv, IInv', NEW w \in Worker, OtherTask(w) PROVE OrderlyInv'
<1>1. PICK s \in MeasuredMoves(opp) \cup {"ACQUIRING_TRAFFIC" : t \in {opp.state} \cap {"LIVE"}} :
          opp' = [opp EXCEPT !.state = s]
  BY DEF OtherTask
<1>2. /\ IInv /\ Idle /\ pc[w] = "idle" /\ pc' = [pc EXCEPT ![w] = "idle"]
      /\ overlaps' \in 0..MaxOverlaps
      /\ UNCHANGED <<paid, ledger, dropped, sent, tasks, lastId, wq, wtask, polled, books, booked,
                     unsold, takings, outcome, human>>
  BY Starts DEF OrderlyInv, OtherTask, world, worker, results, Process
<1>3. WorkerSees(w)
  BY <1>2, WorkerSight
<1>4. Only(w) /\ pc'[w] = "idle"
  BY <1>2, Functions DEF Only
<1>5. ~Checking(w) /\ ~Checking(w)' /\ Unspawned(w) = {} /\ Unspawned(w)' = {}
  BY <1>2, <1>4 DEF Checking, Unspawned
<1>6. /\ opp'.state = s /\ opp'.revenue = opp.revenue /\ opp'.deliveries = opp.deliveries
  BY <1>1, <1>2, Facts DEF OppRecord
<1>7. /\ s \in KeepMeasuring \cup {"NO_TRACTION"}
      /\ s = "NO_TRACTION" => ledger = {}
      /\ s \in KeepMeasuring => InMeasurement
  <2>1. /\ opp.state \in KeepMeasuring \cup {"NO_TRACTION"}
        /\ opp.state = "NO_TRACTION" => ledger = {}
    BY <1>3 DEF WorkerSees, StateOK
  <2>2. opp.revenue <=> ledger # {}
    BY <1>3, <1>5 DEF WorkerSees
  <2>3. "NO_TRACTION" \notin KeepMeasuring
    BY DEF KeepMeasuring
  <2>4. QED
    BY <2>1, <2>2, <2>3, MeasuredOn DEF InMeasurement
<1>8. StateOK' /\ Queued(ledger)'
  BY <1>2, <1>3, <1>5, <1>6, <1>7 DEF StateOK, Queued, InMeasurement, WorkerSees
<1>9. CopyOK(w)'
  BY <1>4 DEF CopyOK
<1>10. WorkerSees(w)'
  BY <1>2, <1>3, <1>4, <1>5, <1>6, <1>8, <1>9 DEF WorkerSees, RowsOK, SentOK
<1>11. QED
  BY <1>2, <1>4, <1>10, WorkerSteps

LEMMA RecordCheckOrderly ==
  ASSUME Orderly, OrderlyInv, IInv', NEW w \in Worker, RecordCheck(w) PROVE OrderlyInv'
<1>1. /\ IInv /\ pc[w] = "ran" /\ KeyOf(w) \in Cycle
      /\ lastId + Len(booked[w]) <= MaxTasks
      /\ wq' = [wq EXCEPT ![w] = Spawn(MarkSucceeded(wq[w], wtask[w]), booked[w])]
      /\ lastId' = lastId + Len(booked[w])
      /\ opp' = [opp EXCEPT !.state = AfterCheck(opp.state, unsold[w] /\ takings[w]),
                            !.revenue = takings[w]]
      /\ Goto(w, "recorded") /\ outcome[w] = "ok"
      /\ UNCHANGED <<paid, ledger, dropped, sent, tasks, wtask, polled, books, booked, unsold,
                     takings, outcome, human>>
  BY DEF OrderlyInv, RecordCheck, world, results
<1>2. /\ WorkerSees(w) /\ CopyOK(w) /\ dropped = {}
      /\ takings[w] <=> ledger # {}
  <2>1. WorkerSees(w) /\ Checking(w)
    BY <1>1, WorkerSight DEF Checking
  <2>2. QED
    BY <1>1, <2>1 DEF WorkerSees, RowsOK
<1>3. Only(w) /\ pc' = [pc EXCEPT ![w] = "recorded"]
  <2>1. pc' = [pc EXCEPT ![w] = "recorded"] /\ overlaps' \in 0..MaxOverlaps
    BY <1>1, Goes
  <2>2. QED
    BY <1>1, <2>1, Functions DEF Only
<1>4. /\ wtask[w] \in Used(wq[w]) /\ booked[w] \in Seq(Pay) /\ lastId \in Nat
      /\ wq[w] \in Queue /\ Lacks(wq[w], BookedBy(w))
  <2>1. Lacks(wq[w], Unspawned(w) \ dropped) /\ Unspawned(w) = BookedBy(w)
    BY <1>1, Facts DEF Own, Unspawned, Coming
  <2>2. Unspawned(w) \ dropped = BookedBy(w)
    BY <1>2, <2>1
  <2>3. QED
    BY <1>1, <2>1, <2>2, Facts, VersionsSound DEF WorkOK, WorkerTyped
<1>5. PICK t \in Task : t = wtask[w]
  BY <1>4 DEF Used
<1>6. PICK p \in Queue : p = wq[w]
  BY <1>4
<1>7. PICK q : q = MarkSucceeded(p, t)
  OBVIOUS
<1>8. /\ q \in Queue /\ Kept(p, q) /\ q[t].status = "SUCCEEDED"
      /\ \A u \in Task : u # t => q[u] = p[u]
  BY <1>4, <1>5, <1>6, <1>7, SucceededKept
<1>9. /\ Plain(p, lastId) /\ Kept(tasks, p) /\ SameLive(tasks, p) /\ p[t].status \in Live
  BY <1>1, <1>2, <1>5, <1>6 DEF CopyOK
<1>10. Chain(p) /\ Covers(p, ledger \ BookedBy(w))
  <2>1. Chain(tasks) /\ Covers(tasks, ledger \ BookedBy(w))
    BY <1>1, <1>2 DEF WorkerSees, Queued, Unspawned, Coming
  <2>2. Chain(p)
    BY <1>9, <2>1, KeptChain DEF SameLive
  <2>3. QED
    BY <1>9, <2>1, <2>2, KeptCovers
<1>11. t \in Checks(q)
  BY <1>1, <1>4, <1>5, <1>6, <1>8, KeptSame DEF Checks, KeyOf
<1>12. /\ Chain(q) /\ Plain(q, lastId) /\ Covers(q, ledger \ BookedBy(w))
       /\ \A u \in Checks(q) : q[u].idempotency_key <= q[t].idempotency_key
  <2>1. Chain(q) /\ \A u \in Checks(q) : q[u].idempotency_key <= q[t].idempotency_key
    BY <1>8, <1>9, <1>10, <1>11, Ended
  <2>2. QED
    BY <1>8, <1>9, <1>10, <2>1, KeptPlain, KeptCovers
<1>13. PICK s \in Seq(Pay) : s = booked[w]
  BY <1>4
<1>14. Lacks(q, {s[i] : i \in DOMAIN s})
  <2>1. Lacks(p, BookedBy(w))
    BY <1>4, <1>6
  <2>2. /\ Used(q) = Used(p) /\ Used(p) \subseteq Task
        /\ \A u \in Task : q[u].idempotency_key = p[u].idempotency_key
    BY <1>8, KeptSame DEF Used
  <2>3. QED
    BY <1>13, <2>1, <2>2 DEF Lacks, BookedBy
<1>15. PICK r : r = Spawn(q, s)
  OBVIOUS
<1>16. /\ \A u \in Used(q) : u \in Used(r) /\ r[u] = q[u]
       /\ Checks(r) = Checks(q) /\ Plain(r, lastId + Len(s))
       /\ \A S : Covers(q, S) => Covers(r, S \cup {s[i] : i \in DOMAIN s})
  <2>1. /\ q \in Queue /\ s \in Seq(Pay) /\ lastId \in Nat /\ lastId + Len(s) <= MaxTasks
        /\ Plain(q, lastId) /\ Lacks(q, {s[i] : i \in DOMAIN s}) /\ r = Spawn(q, s)
    BY <1>1, <1>4, <1>8, <1>12, <1>13, <1>14, <1>15
  <2>2. QED
    BY <2>1, SpawnedTidy
<1>17. pc'[w] = "recorded" /\ wq'[w] = r /\ lastId' = lastId + Len(s)
  BY <1>1, <1>3, <1>5, <1>6, <1>7, <1>13, <1>15, Functions
<1>18. CopyOK(w)'
  <2>1. \A u \in Checks(q) : r[u] = q[u]
    BY <1>16 DEF Checks
  <2>2. Chain(r)
    BY <1>12, <1>16, <2>1 DEF Chain
  <2>3. t \in Checks(r) /\ FollowsUp(r, t)
    BY <1>8, <1>11, <1>12, <1>16, <2>1 DEF FollowsUp
  <2>4. Covers(r, ledger)
    <3>1. Covers(r, (ledger \ BookedBy(w)) \cup {s[i] : i \in DOMAIN s})
      BY <1>12, <1>16
    <3>2. ledger \subseteq (ledger \ BookedBy(w)) \cup {s[i] : i \in DOMAIN s}
      BY <1>13 DEF BookedBy
    <3>3. QED
      BY <3>1, <3>2 DEF Covers
  <2>5. QED
    BY <1>1, <1>5, <1>16, <1>17, <2>2, <2>3, <2>4 DEF CopyOK
<1>19. /\ opp'.deliveries = opp.deliveries /\ (opp'.revenue <=> ledger # {})
       /\ \/ opp'.state = opp.state
          \/ opp'.state = "FIRST_SALE" /\ ledger # {}
  <2>1. PICK x : x = AfterCheck(opp.state, unsold[w] /\ takings[w])
    OBVIOUS
  <2>2. x = opp.state \/ (x = "FIRST_SALE" /\ ledger # {})
    BY <1>2, <2>1 DEF AfterCheck, MoveIfLegal
  <2>3. PICK b \in BOOLEAN : b = takings[w] /\ (b <=> ledger # {})
    BY <1>1, <1>2, Facts DEF WorkerTyped
  <2>4. opp' = [opp EXCEPT !.state = x, !.revenue = b] /\ opp \in OppRecord
    BY <1>1, <2>1, <2>3, Facts
  <2>5. opp'.deliveries = opp.deliveries /\ opp'.revenue = b /\ opp'.state = x
    BY <2>4 DEF OppRecord
  <2>6. QED
    BY <2>2, <2>3, <2>5
<1>20. StateOK'
  BY <1>1, <1>2, <1>19 DEF WorkerSees, StateOK, KeepMeasuring
<1>21. Plain(tasks, lastId')
  <2>1. Len(s) \in Nat
    BY LenProperties
  <2>2. \A u \in Used(tasks) : u <= lastId /\ u \in Int
    BY <1>2 DEF WorkerSees, Plain, Used, Task
  <2>3. \A u \in Used(tasks) : u <= lastId'
    BY <1>4, <1>17, <2>1, <2>2
  <2>4. QED
    BY <1>2, <2>3 DEF WorkerSees, Plain
<1>22. \A k \in Pay : SentOK(k, FALSE) /\ KeyOf(w) # k /\ polled[w] = {}
  BY <1>1, <1>2, SaleConstants DEF WorkerSees, RowsOK, SentOK
<1>23. \A k \in Pay : SentOK(k, pc[w] = "ran" /\ outcome[w] = "ok" /\ KeyOf(w) = k)'
  BY <1>1, <1>19, <1>22 DEF SentOK
<1>24. polled'[w] = {} /\ RowsOK(w)'
  BY <1>1, <1>2, <1>17 DEF WorkerSees, RowsOK
<1>25. WorkerSees(w)'
  BY <1>1, <1>2, <1>17, <1>18, <1>19, <1>20, <1>21, <1>23, <1>24 DEF WorkerSees
<1>26. QED
  BY <1>1, <1>3, <1>25, WorkerSteps

\* The copy when the task has ended, or waits for its next attempt.
LEMMA EndedCopy ==
  ASSUME IInv, NEW w \in Worker, pc[w] = "ran", WorkerSees(w), booked[w] = <<>>,
         NEW q, Kept(wq[w], q),
         q[wtask[w]].status \in {"SUCCEEDED", "FAILED_RETRYABLE", "FAILED_FINAL"},
         \A u \in Task : u # wtask[w] => q[u] = wq[w][u],
         pc'[w] = "recorded", wq'[w] = q, UNCHANGED <<lastId, ledger, wtask>>,
         InMeasurement' => InMeasurement
  PROVE  CopyOK(w)'
<1>1. wtask[w] \in Used(wq[w]) /\ CopyOK(w)
  BY Facts DEF WorkOK, WorkerSees
<1>2. PICK t \in Task : t = wtask[w]
  BY <1>1 DEF Used
<1>3. PICK p : p = wq[w]
  OBVIOUS
<1>4. /\ Plain(p, lastId) /\ Kept(tasks, p) /\ SameLive(tasks, p) /\ p[t].status \in Live
  BY <1>1, <1>2, <1>3 DEF CopyOK
<1>5. Unspawned(w) = {}
  BY DEF Unspawned, BookedBy, Coming
<1>6. /\ Chain(tasks) /\ Covers(tasks, ledger) /\ (InMeasurement => UnderWay(tasks))
  BY <1>5 DEF WorkerSees, Queued
<1>7. Chain(p) /\ Covers(p, ledger) /\ (InMeasurement => UnderWay(p))
  <2>1. Chain(p)
    BY <1>4, <1>6, KeptChain DEF SameLive
  <2>2. QED
    BY <1>4, <1>6, <2>1, KeptCovers, KeptUnderWay
<1>8. /\ Kept(p, q) /\ \A u \in Task : u # t => q[u] = p[u]
      /\ q[t].status \in {"SUCCEEDED", "FAILED_RETRYABLE", "FAILED_FINAL"}
  BY <1>2, <1>3
<1>9. /\ Chain(q)
      /\ t \in Checks(q) => \A u \in Checks(q) : q[u].idempotency_key <= q[t].idempotency_key
      /\ t \notin Checks(q) /\ UnderWay(p) => UnderWay(q)
  BY <1>4, <1>7, <1>8, Ended
<1>10. Plain(q, lastId) /\ Covers(q, ledger)
  BY <1>4, <1>7, <1>8, KeptPlain, KeptCovers
<1>11. t \in Checks(q) => q[t].status \in Live \/ FollowsUp(q, t)
  BY <1>8, <1>9 DEF FollowsUp, Live
<1>12. InMeasurement' => UnderWay(q) \/ t \in Checks(q)
  BY <1>7, <1>9
<1>13. QED
  BY <1>2, <1>9, <1>10, <1>11, <1>12 DEF CopyOK

LEMMA RecordFailureOrderly ==
  ASSUME Orderly, OrderlyInv, IInv', NEW w \in Worker, RecordFailure(w) PROVE OrderlyInv'
<1>1. PICK again \in BOOLEAN : again = (outcome[w] = "retry")
  OBVIOUS
<1>2. /\ IInv /\ pc[w] = "ran" /\ outcome[w] # "ok"
      /\ wq' = [wq EXCEPT ![w] = MarkFailed(wq[w], wtask[w], again)]
      /\ Goto(w, "recorded")
      /\ UNCHANGED <<paid, ledger, dropped, sent, opp, tasks, lastId, wtask, polled, books, booked,
                     unsold, takings, outcome, human>>
  BY <1>1 DEF OrderlyInv, RecordFailure, world, results
<1>3. WorkerSees(w) /\ CopyOK(w)
  BY <1>2, WorkerSight DEF WorkerSees
<1>4. Only(w) /\ pc' = [pc EXCEPT ![w] = "recorded"]
  <2>1. pc' = [pc EXCEPT ![w] = "recorded"] /\ overlaps' \in 0..MaxOverlaps
    BY <1>2, Goes
  <2>2. QED
    BY <1>2, <2>1, Functions DEF Only
<1>5. wtask[w] \in Used(wq[w]) /\ wq[w] \in Queue
  BY <1>2, Facts, VersionsSound DEF WorkOK
<1>6. PICK q : q = MarkFailed(wq[w], wtask[w], again)
  OBVIOUS
<1>7. /\ Kept(wq[w], q) /\ q[wtask[w]].status \in {"FAILED_RETRYABLE", "FAILED_FINAL"}
      /\ \A u \in Task : u # wtask[w] => q[u] = wq[w][u]
  BY <1>5, <1>6, FailedKept
<1>8. pc'[w] = "recorded" /\ wq'[w] = q
  BY <1>2, <1>4, <1>6, Functions
<1>9. ~Checking(w) /\ booked[w] = <<>>
  BY <1>2, <1>3 DEF Checking, CopyOK
<1>10. CopyOK(w)'
  BY <1>2, <1>3, <1>7, <1>8, <1>9, EndedCopy DEF InMeasurement
<1>11. WorkerSees(w)'
  BY <1>2, <1>3, <1>8, <1>9, <1>10 DEF WorkerSees, RowsOK, StateOK, SentOK
<1>12. QED
  BY <1>2, <1>4, <1>11, WorkerSteps

LEMMA RecordDeliveryOrderly ==
  ASSUME Orderly, OrderlyInv, IInv', NEW w \in Worker, RecordDelivery(w) PROVE OrderlyInv'
<1>1. /\ IInv /\ pc[w] = "ran" /\ outcome[w] = "ok" /\ KeyOf(w) \in Pay
      /\ wq' = [wq EXCEPT ![w] = MarkSucceeded(wq[w], wtask[w])]
      /\ opp' = [Delivered(opp, KeyOf(w)) EXCEPT !.state = AfterDelivery(opp.state)]
      /\ Goto(w, "recorded")
      /\ UNCHANGED <<paid, ledger, dropped, sent, tasks, lastId, wtask, polled, books, booked,
                     unsold, takings, outcome, human>>
  BY DEF OrderlyInv, RecordDelivery, world, results
<1>2. WorkerSees(w) /\ CopyOK(w)
  BY <1>1, WorkerSight DEF WorkerSees
<1>3. Only(w) /\ pc' = [pc EXCEPT ![w] = "recorded"]
  <2>1. pc' = [pc EXCEPT ![w] = "recorded"] /\ overlaps' \in 0..MaxOverlaps
    BY <1>1, Goes
  <2>2. QED
    BY <1>1, <2>1, Functions DEF Only
<1>4. /\ wtask[w] \in Used(wq[w]) /\ wq[w] \in Queue /\ KeyOf(w) \in ledger
  BY <1>1, <1>2, Facts, VersionsSound DEF WorkOK, SentInv, EverBooked, WorkerSees
<1>5. PICK q : q = MarkSucceeded(wq[w], wtask[w])
  OBVIOUS
<1>6. /\ Kept(wq[w], q) /\ q[wtask[w]].status = "SUCCEEDED"
      /\ \A u \in Task : u # wtask[w] => q[u] = wq[w][u]
  BY <1>4, <1>5, SucceededKept
<1>7. pc'[w] = "recorded" /\ wq'[w] = q
  BY <1>1, <1>3, <1>5, Functions
<1>8. ~Checking(w) /\ booked[w] = <<>>
  BY <1>1, <1>2, SaleConstants DEF Checking, CopyOK
<1>9. /\ opp'.deliveries = opp.deliveries \cup {KeyOf(w)} /\ opp'.revenue = opp.revenue
      /\ opp'.state \in {opp.state, "DELIVERING", "ACTIVE"}
  <2>1. PICK s : s = AfterDelivery(opp.state)
    OBVIOUS
  <2>2. opp \in OppRecord /\ opp.state \in OppState
    BY <1>1, Facts DEF OppRecord
  <2>3. s \in {opp.state, "DELIVERING", "ACTIVE"}
    BY <2>1, <2>2, AfterDeliveryState
  <2>4. PICK d : d = opp.deliveries \cup {KeyOf(w)}
    OBVIOUS
  <2>5. opp' = [opp EXCEPT !.deliveries = d, !.state = s]
    BY <1>1, <2>1, <2>2, <2>4 DEF Delivered, OppRecord
  <2>6. opp'.deliveries = d /\ opp'.state = s /\ opp'.revenue = opp.revenue
    BY <2>2, <2>5 DEF OppRecord
  <2>7. QED
    BY <2>3, <2>4, <2>6
<1>10. opp.state \in KeepMeasuring
  BY <1>2, <1>4 DEF WorkerSees, StateOK
<1>11. StateOK'
  BY <1>9, <1>10 DEF StateOK, KeepMeasuring
<1>12. CopyOK(w)'
  BY <1>1, <1>2, <1>6, <1>7, <1>8, <1>10, EndedCopy DEF InMeasurement
<1>13. \A p \in Pay : SentOK(p, pc[w] = "ran" /\ outcome[w] = "ok" /\ KeyOf(w) = p)'
  BY <1>1, <1>2, <1>9 DEF WorkerSees, SentOK
<1>14. WorkerSees(w)'
  BY <1>1, <1>2, <1>7, <1>8, <1>9, <1>11, <1>12, <1>13 DEF WorkerSees, RowsOK
<1>15. QED
  BY <1>1, <1>3, <1>14, WorkerSteps

LEMMA SaveQueueOrderly ==
  ASSUME Orderly, OrderlyInv, IInv', NEW w \in Worker, SaveQueue(w) PROVE OrderlyInv'
<1>1. PICK q : q = Rescheduled(wq[w], wtask[w])
  OBVIOUS
<1>2. PICK last : last = IF q = wq[w] THEN lastId ELSE lastId + 1
  OBVIOUS
<1>3. /\ IInv /\ pc[w] = "recorded"
      /\ DueAgain(wq[w], wtask[w]) => lastId < MaxTasks
      /\ tasks' = ResolveDependencies(q) /\ lastId' = last
      /\ Forget(w) /\ UNCHANGED <<ledger, dropped, sent, opp, human>>
  BY <1>1, <1>2 DEF OrderlyInv, SaveQueue, world
<1>4. WorkerSees(w) /\ CopyOK(w)
  BY <1>3, WorkerSight DEF WorkerSees
<1>5. /\ Only(w) /\ pc'[w] = "idle" /\ polled'[w] = {} /\ Unspawned(w)' = {}
  BY <1>3, Forgets
<1>6. wq[w] \in Queue /\ lastId \in Nat
  BY <1>3, VersionsSound
<1>7. /\ Plain(wq[w], lastId) /\ Chain(wq[w]) /\ Covers(wq[w], ledger)
      /\ wtask[w] \in Checks(wq[w]) =>
            wq[w][wtask[w]].status \in Live \/ FollowsUp(wq[w], wtask[w])
      /\ InMeasurement => UnderWay(wq[w]) \/ wtask[w] \in Checks(wq[w])
  BY <1>3, <1>4 DEF CopyOK
<1>8. /\ q \in Queue /\ Plain(q, last) /\ Chain(q) /\ (InMeasurement => UnderWay(q))
      /\ \A S : Covers(wq[w], S) => Covers(q, S)
  BY <1>1, <1>2, <1>3, <1>6, <1>7, RescheduledTidy
<1>9. PICK r : r = ResolveDependencies(q)
  OBVIOUS
<1>10. Kept(q, r) /\ SameLive(q, r)
  <2>1. \A t \in Used(q) : q[t].depends_on = {}
    BY <1>8 DEF Plain
  <2>2. QED
    BY <1>8, <1>9, <2>1, ResolveKept
<1>11. /\ Plain(r, last) /\ Chain(r) /\ (UnderWay(q) => UnderWay(r))
       /\ Covers(r, ledger)
  <2>1. Covers(q, ledger)
    BY <1>7, <1>8
  <2>2. QED
    BY <1>8, <1>10, <2>1, SavedTidy
<1>12. CopyOK(w)' /\ ~Checking(w)
  BY <1>3, <1>5 DEF CopyOK, Checking
<1>13. Queued(ledger)' /\ StateOK' /\ Plain(tasks', lastId') /\ Chain(tasks')
  BY <1>3, <1>4, <1>8, <1>9, <1>11 DEF Queued, InMeasurement, WorkerSees, StateOK
<1>14. WorkerSees(w)'
  BY <1>3, <1>4, <1>5, <1>12, <1>13 DEF WorkerSees, RowsOK, SentOK
<1>15. QED
  BY <1>3, <1>5, <1>14, WorkerSteps

LEMMA DeliverNowOrderly ==
  ASSUME Orderly, OrderlyInv, IInv', NEW h \in Human, NEW p \in Pay, DeliverNow(h, p)
  PROVE  OrderlyInv'
<1>1. /\ IInv /\ Idle /\ pc[h] = "idle" /\ p \notin opp.deliveries
      /\ sent' = [sent EXCEPT ![p] = Once(sent[p])]
      /\ hopp' = [hopp EXCEPT ![h] = opp]
      /\ hpay' = [hpay EXCEPT ![h] = p]
      /\ pc' = [pc EXCEPT ![h] = "delivering"] /\ overlaps' \in 0..MaxOverlaps
      /\ UNCHANGED <<paid, ledger, dropped, opp, tasks, lastId, worker, hledger>>
  BY Starts DEF OrderlyInv, DeliverNow, DeliveredBefore, Process
<1>2. HumanSees(h)
  BY <1>1, HumanSight
<1>3. HumanOnly(h)
  BY <1>1, HumanFacts DEF HumanOnly
<1>4. pc'[h] = "delivering" /\ hopp'[h] = opp /\ hpay'[h] = p
  BY <1>1, HumanFacts
<1>5. ASSUME NEW x \in Pay
      PROVE  sent'[x] <= 1 /\ (sent'[x] > 0 => x \in opp.deliveries \/ p = x)
  <2>1. /\ sent[x] <= 1 /\ (sent[x] > 0 => x \in opp.deliveries) /\ sent \in [Pay -> 0..2]
    BY <1>1, <1>2, HumanFacts DEF HumanSees, SentOK
  <2>2. CASE x = p
    <3>1. sent[x] = 0
      BY <1>1, <2>1, <2>2
    <3>2. sent'[x] = 1
      BY <1>1, <2>1, <2>2, <3>1 DEF Once
    <3>3. QED
      BY <2>2, <3>2
  <2>3. CASE x # p
    BY <1>1, <2>1, <2>3
  <2>4. QED
    BY <2>2, <2>3
<1>6. \A x \in Pay : SentOK(x, pc[h] = "delivering" /\ hpay[h] = x)'
  BY <1>1, <1>4, <1>5 DEF SentOK
<1>7. HumanSees(h)'
  BY <1>1, <1>2, <1>4, <1>6 DEF HumanSees, StateOK, Queued, InMeasurement
<1>8. QED
  BY <1>1, <1>3, <1>7, HumanSteps

LEMMA RecordNowOrderly ==
  ASSUME Orderly, OrderlyInv, IInv', NEW h \in Human, RecordNow(h) PROVE OrderlyInv'
<1>1. PICK record : record = Delivered(hopp[h], hpay[h])
  OBVIOUS
<1>2. /\ IInv /\ pc[h] = "delivering"
      /\ opp' = record
      /\ hopp' = [hopp EXCEPT ![h] = record]
      /\ pc' = [pc EXCEPT ![h] = "moving"] /\ overlaps' \in 0..MaxOverlaps
      /\ UNCHANGED <<paid, ledger, dropped, sent, tasks, lastId, worker, hpay, hledger>>
  BY <1>1, Goes DEF OrderlyInv, RecordNow, world
<1>3. HumanSees(h) /\ hopp[h] = opp
  BY <1>2, HumanSight DEF HumanSees
<1>4. HumanOnly(h)
  BY <1>2, HumanFacts DEF HumanOnly
<1>5. pc'[h] = "moving" /\ hopp'[h] = record /\ opp \in OppRecord
  BY <1>2, HumanFacts
<1>6. /\ record.state = opp.state /\ record.revenue = opp.revenue
      /\ record.deliveries = opp.deliveries \cup {hpay[h]}
  BY <1>1, <1>3, <1>5 DEF Delivered, OppRecord
<1>7. \A x \in Pay : SentOK(x, pc[h] = "delivering" /\ hpay[h] = x)'
  BY <1>2, <1>3, <1>6 DEF HumanSees, SentOK
<1>8. HumanSees(h)'
  BY <1>2, <1>3, <1>5, <1>6, <1>7 DEF HumanSees, StateOK, Queued, InMeasurement
<1>9. QED
  BY <1>2, <1>4, <1>8, HumanSteps

LEMMA MoveNowOrderly ==
  ASSUME Orderly, OrderlyInv, IInv', NEW h \in Human, MoveNow(h) PROVE OrderlyInv'
<1>1. /\ IInv /\ pc[h] = "moving"
      /\ opp' = [hopp[h] EXCEPT !.state = AfterDelivery(hopp[h].state)]
      /\ Return(h) /\ UNCHANGED <<paid, ledger, dropped, sent, tasks, lastId, worker>>
  BY DEF OrderlyInv, MoveNow, world
<1>2. HumanSees(h) /\ hopp[h] = opp
  BY <1>1, HumanSight DEF HumanSees
<1>3. HumanOnly(h) /\ pc'[h] = "idle"
  BY <1>1, Returns
<1>4. PICK s : s = AfterDelivery(opp.state)
  OBVIOUS
<1>5. opp \in OppRecord /\ opp.state \in OppState
  BY <1>1, HumanFacts DEF OppRecord
<1>6. s \in {opp.state, "DELIVERING", "ACTIVE"}
  BY <1>4, <1>5, AfterDeliveryState
<1>7. opp'.state = s /\ opp'.deliveries = opp.deliveries /\ opp'.revenue = opp.revenue
  BY <1>1, <1>2, <1>4, <1>5 DEF OppRecord
<1>8. hpay[h] \in ledger
  BY <1>1, <1>2, HumanFacts DEF SentInv, EverBooked, HumanSees
<1>9. opp.state \in KeepMeasuring
  BY <1>2, <1>8 DEF HumanSees, StateOK
<1>10. StateOK' /\ Queued(ledger)'
  BY <1>1, <1>2, <1>6, <1>7, <1>9 DEF HumanSees, StateOK, KeepMeasuring, Queued, InMeasurement
<1>11. \A x \in Pay : SentOK(x, pc[h] = "delivering" /\ hpay[h] = x)'
  BY <1>1, <1>2, <1>7 DEF HumanSees, SentOK
<1>12. HumanSees(h)'
  BY <1>1, <1>2, <1>3, <1>7, <1>10, <1>11 DEF HumanSees
<1>13. QED
  BY <1>1, <1>3, <1>12, HumanSteps

LEMMA OpenBooksOrderly ==
  ASSUME Orderly, OrderlyInv, IInv', NEW h \in Human, OpenBooks(h) PROVE OrderlyInv'
<1>1. /\ IInv /\ Idle /\ pc[h] = "idle" /\ hledger' = [hledger EXCEPT ![h] = ledger]
      /\ pc' = [pc EXCEPT ![h] = "bookkeeping"] /\ overlaps' \in 0..MaxOverlaps
      /\ UNCHANGED <<paid, ledger, dropped, sent, opp, tasks, lastId, worker, hopp, hpay>>
  BY Starts DEF OrderlyInv, OpenBooks, Process, world
<1>2. HumanSees(h)
  BY <1>1, HumanSight
<1>3. HumanOnly(h)
  BY <1>1, HumanFacts DEF HumanOnly
<1>4. pc'[h] = "bookkeeping" /\ hledger'[h] = ledger
  BY <1>1, HumanFacts
<1>5. HumanSees(h)'
  BY <1>1, <1>2, <1>4 DEF HumanSees, StateOK, Queued, InMeasurement, SentOK
<1>6. QED
  BY <1>1, <1>3, <1>5, HumanSteps

\* Nobody has booked since the file was loaded.
LEMMA CloseBooksOrderly ==
  ASSUME Orderly, OrderlyInv, IInv', NEW h \in Human, CloseBooks(h) PROVE OrderlyInv'
<1>1. /\ IInv /\ pc[h] = "bookkeeping" /\ ledger' = hledger[h]
      /\ dropped' = dropped \cup (ledger \ hledger[h])
      /\ Return(h) /\ UNCHANGED <<paid, sent, opp, tasks, lastId, worker>>
  BY DEF OrderlyInv, CloseBooks, Losing
<1>2. HumanSees(h)
  BY <1>1, HumanSight
<1>3. ledger' = ledger /\ dropped' = {}
  BY <1>1, <1>2 DEF HumanSees
<1>4. HumanOnly(h) /\ pc'[h] = "idle"
  BY <1>1, Returns
<1>5. HumanSees(h)'
  BY <1>1, <1>2, <1>3, <1>4 DEF HumanSees, StateOK, Queued, InMeasurement, SentOK
<1>6. QED
  BY <1>1, <1>4, <1>5, HumanSteps

LEMMA PassOrderly == ASSUME OrderlyInv, IInv', Pass PROVE OrderlyInv'
<1>1. /\ IInv /\ tasks' = Elapse(tasks)
      /\ wq' = [w \in Worker |-> Elapse(wq[w])]
      /\ UNCHANGED <<paid, ledger, dropped, sent, opp, lastId, pc, wtask, polled, books, booked,
                     unsold, takings, outcome, human>>
  BY DEF OrderlyInv, Pass, world, results
<1>2. /\ Kept(tasks, tasks') /\ SameLive(tasks, tasks')
      /\ Kept(tasks', tasks) /\ SameLive(tasks', tasks)
  BY <1>1, VersionsSound, ElapseKept, SymmetricKept
<1>3. ASSUME NEW w \in Worker
      PROVE  /\ Kept(wq[w], wq'[w]) /\ SameLive(wq[w], wq'[w])
             /\ \A t \in Task : wq'[w][t].status = wq[w][t].status
             /\ \A t \in Task : wq'[w][t].idempotency_key = wq[w][t].idempotency_key
             /\ Checks(wq'[w]) = Checks(wq[w]) /\ Checks(wq[w]) \subseteq Task
  <2>1. wq'[w] = Elapse(wq[w]) /\ wq[w] \in Queue
    BY <1>1, VersionsSound
  <2>2. /\ Kept(wq[w], wq'[w]) /\ SameLive(wq[w], wq'[w])
        /\ \A t \in Task : wq'[w][t].status = wq[w][t].status
    BY <2>1, ElapseKept
  <2>3. QED
    BY <2>2, KeptSame DEF Checks, Used
<1>4. /\ Plain(tasks', lastId) /\ Chain(tasks') /\ (UnderWay(tasks) => UnderWay(tasks'))
      /\ \A S : Covers(tasks, S) => Covers(tasks', S)
  BY <1>2, SavedTidy DEF OrderlyInv, CopyInv
<1>5. ASSUME NEW w \in Worker PROVE CopyOK(w)'
  <2>1. CopyOK(w) /\ WorkOK(w)
    BY DEF OrderlyInv, CopyInv, IInv, WorkInv
  <2>2. pc[w] # "idle" => Plain(wq'[w], lastId)
    BY <1>3, <2>1, KeptPlain DEF CopyOK
  <2>3. pc[w] \in {"loaded", "claimed", "booking", "saving", "ran"} =>
           Kept(tasks', wq'[w]) /\ SameLive(tasks', wq'[w])
    BY <1>2, <1>3, <2>1, BothTransitive DEF CopyOK
  <2>4. pc[w] \in {"claimed", "booking", "saving", "ran", "recorded"} => wtask[w] \in Task
    BY <2>1 DEF WorkOK, Used
  <2>5. pc[w] \in {"claimed", "booking", "saving", "ran"} => wq'[w][wtask[w]].status \in Live
    BY <1>3, <2>1, <2>4 DEF CopyOK
  <2>6. pc[w] \in {"claimed", "booking", "saving", "ran", "recorded"} => KeyOf(w)' = KeyOf(w)
    BY <1>1, <1>3, <2>4 DEF KeyOf
  <2>7. pc[w] = "ran" /\ booked[w] # <<>> => Checking(w)'
    BY <1>1, <2>1, <2>6 DEF CopyOK, Checking
  <2>8. ASSUME pc[w] = "recorded"
        PROVE  /\ Chain(wq'[w]) /\ Covers(wq'[w], ledger)
               /\ wtask[w] \in Checks(wq'[w]) =>
                     wq'[w][wtask[w]].status \in Live \/ FollowsUp(wq'[w], wtask[w])
               /\ InMeasurement => UnderWay(wq'[w]) \/ wtask[w] \in Checks(wq'[w])
    <3>1. /\ Chain(wq[w]) /\ Covers(wq[w], ledger) /\ Plain(wq[w], lastId)
          /\ wtask[w] \in Checks(wq[w]) =>
                wq[w][wtask[w]].status \in Live \/ FollowsUp(wq[w], wtask[w])
          /\ InMeasurement => UnderWay(wq[w]) \/ wtask[w] \in Checks(wq[w])
      BY <2>1, <2>8 DEF CopyOK
    <3>2. /\ Chain(wq'[w]) /\ Covers(wq'[w], ledger) /\ (UnderWay(wq[w]) => UnderWay(wq'[w]))
      BY <1>3, <3>1, SavedTidy
    <3>3. wtask[w] \in Checks(wq[w]) /\ FollowsUp(wq[w], wtask[w]) => FollowsUp(wq'[w], wtask[w])
      BY <1>3 DEF FollowsUp
    <3>4. QED
      BY <1>3, <3>1, <3>2, <3>3
  <2>9. QED
    BY <1>1, <2>2, <2>3, <2>5, <2>7, <2>8 DEF CopyOK, InMeasurement
<1>6. Pending' = Pending
  BY <1>1 DEF Pending, Unspawned, BookedBy, Coming
<1>7. CopyInv'
  <2>1. FileOK'
    BY <1>1, <1>4, <1>6 DEF OrderlyInv, CopyInv, FileOK, InMeasurement
  <2>2. QED
    BY <1>1, <1>4, <1>5, <2>1 DEF CopyInv
<1>8. ASSUME NEW w \in Worker, pc[w] \in {"ran", "booking", "saving"} PROVE KeyOf(w)' = KeyOf(w)
  <2>1. wtask[w] \in Task
    BY <1>8 DEF OrderlyInv, IInv, WorkInv, WorkOK, Used
  <2>2. QED
    BY <1>1, <1>3, <2>1 DEF KeyOf
<1>9. OutboxInv'
  <2>1. \A p \in Pay : Sending(p) => Sending(p)'
    BY <1>1, <1>8 DEF Sending, human
  <2>2. QED
    BY <1>1, <2>1 DEF OrderlyInv, OutboxInv, human
<1>10. RevenueInv'
  <2>1. \A w \in Worker : Checking(w) <=> Checking(w)'
    BY <1>1, <1>8 DEF Checking
  <2>2. \A w \in Worker : RowsOK(w)'
    BY <1>1, <2>1 DEF OrderlyInv, RevenueInv, RowsOK
  <2>3. QED
    BY <1>1, <2>1, <2>2 DEF OrderlyInv, RevenueInv, human
<1>11. QED
  BY <1>1, <1>7, <1>9, <1>10 DEF OrderlyInv, Alone

\* Payments are confirmed, or nothing happens.
LEMMA PaysOrderly ==
  ASSUME OrderlyInv, IInv',
         UNCHANGED <<ledger, dropped, sent, opp, tasks, lastId, pc, worker, human>>
  PROVE  OrderlyInv'
<1>1. UNCHANGED <<ledger, dropped, sent, opp, tasks, lastId, pc, wq, wtask, polled, books, booked,
                  takings, outcome, hopp, hpay, hledger>>
  BY DEF worker, results, human
<1>2. /\ \A w \in Worker : /\ Checking(w)' = Checking(w) /\ CopyOK(w)' = CopyOK(w)
                           /\ RowsOK(w)' = RowsOK(w)
      /\ Pending' = Pending /\ \A p \in Pay : Sending(p)' = Sending(p)
  BY <1>1
     DEF Checking, KeyOf, CopyOK, RowsOK, InMeasurement, Pending, Unspawned, BookedBy, Coming,
         Sending
<1>3. CopyInv'
  BY <1>1, <1>2 DEF OrderlyInv, CopyInv, FileOK, InMeasurement
<1>4. OutboxInv' /\ RevenueInv' /\ Alone'
  BY <1>1, <1>2 DEF OrderlyInv, OutboxInv, RevenueInv, Alone
<1>5. QED
  BY <1>3, <1>4 DEF OrderlyInv

LEMMA InitOrderly == ASSUME Init PROVE OrderlyInv
<1>1. IInv
  BY InitIInv
<1>2. PICK new : new = NewTask(0, {}, 5, FALSE, 0)
  OBVIOUS
<1>3. 0 \in Cycle /\ 1 \in Task
  BY SaleConstants, TaskConstants DEF Cycle, Task
<1>4. /\ new \in TaskRecord /\ new.idempotency_key = 0 /\ new.status = "PENDING"
      /\ new.depends_on = {} /\ new.requires_approval = FALSE
  BY <1>2, <1>3, FirstCheckType
<1>5. /\ tasks[1] = new /\ \A t \in Task : t # 1 => tasks[t].status = "ABSENT"
  <2>1. tasks = [EmptyQueue EXCEPT ![1] = new]
    BY <1>2 DEF Init
  <2>2. QED
    BY <1>3, <2>1 DEF EmptyQueue, NoTask
<1>6. Used(tasks) = {1} /\ Checks(tasks) = {1}
  BY <1>3, <1>4, <1>5 DEF Used, Checks
<1>7. /\ ledger = {} /\ dropped = {} /\ opp = JustLive /\ lastId = 1
      /\ \A a \in Process : pc[a] = "idle"
      /\ \A w \in Worker : polled[w] = {}
      /\ \A p \in Pay : sent[p] = 0
  BY DEF Init
<1>8. Plain(tasks, lastId) /\ Chain(tasks) /\ Covers(tasks, {}) /\ UnderWay(tasks)
  BY <1>4, <1>5, <1>6, <1>7 DEF Plain, Chain, Covers, UnderWay, Live
<1>9. CopyInv
  <2>1. \A w \in Worker : CopyOK(w)
    BY <1>7 DEF CopyOK, Process
  <2>2. FileOK
    <3>1. ledger \ Pending = {}
      BY <1>7
    <3>2. QED
      BY <1>8, <3>1 DEF FileOK
  <2>3. QED
    BY <1>8, <2>1, <2>2 DEF CopyInv
<1>10. OutboxInv
  BY <1>7 DEF OutboxInv, Process
<1>11. RevenueInv
  BY <1>7 DEF RevenueInv, RowsOK, JustLive, KeepMeasuring, Process
<1>12. QED
  BY <1>1, <1>7, <1>9, <1>10, <1>11 DEF OrderlyInv, Alone

LEMMA StepOrderly == ASSUME Orderly, OrderlyInv, [Next]_vars PROVE OrderlyInv'
<1>1. IInv'
  BY StepIInv DEF OrderlyInv
<1>2. CASE Pass
  BY <1>1, <1>2, PassOrderly
<1>3. ASSUME NEW p \in Pay, CustomerPays(p) PROVE OrderlyInv'
  BY <1>1, <1>3, PaysOrderly DEF CustomerPays
<1>4. ASSUME NEW w \in Worker, OtherTask(w) \/ Tick(w) \/ CrashWorker(w) PROVE OrderlyInv'
  <2>1. CASE RunAdapter(w)
    BY <1>1, <2>1, PollOrderly, PollFailsOrderly, LoadLedgerOrderly, SaveLedgerOrderly,
       AllBookedOrderly, SendOrderly DEF RunAdapter
  <2>2. CASE Record(w)
    BY <1>1, <2>2, RecordCheckOrderly, RecordDeliveryOrderly, RecordFailureOrderly DEF Record
  <2>3. ~CrashWorker(w)
    BY DEF Orderly, CrashWorker
  <2>4. QED
    BY <1>1, <1>4, <2>1, <2>2, <2>3, OtherTaskOrderly, LoadQueueOrderly, NothingReadyOrderly,
       ClaimReadyOrderly, SaveQueueOrderly DEF Tick
<1>5. ASSUME NEW h \in Human, Command(h) \/ CrashHuman(h) PROVE OrderlyInv'
  <2>1. ~CrashHuman(h) /\ ~AcceptAgain(h)
    BY DEF Orderly, CrashHuman, AcceptAgain
  <2>2. ~MarkAccepted(h)
    BY DEF MarkAccepted, OrderlyInv, OutboxInv
  <2>3. QED
    BY <1>1, <1>5, <2>1, <2>2, DeliverNowOrderly, RecordNowOrderly, MoveNowOrderly,
       OpenBooksOrderly, CloseBooksOrderly DEF Command
<1>6. CASE UNCHANGED vars
  BY <1>1, <1>6, PaysOrderly DEF vars, world
<1>7. QED
  BY <1>2, <1>3, <1>4, <1>5, <1>6 DEF Next

-----------------------------------------------------------------------------
\* Whoever runs alone and to the end leaves books, queue, record and outbox
\* that agree, works on copies that differ from the files by its own changes
\* only, and loses no row of the ledger.
THEOREM OrderlyStaysSound == ASSUME Orderly PROVE Spec => []OrderlyInv
<1>1. Init => OrderlyInv
  BY InitOrderly
<1>2. OrderlyInv /\ [Next]_vars => OrderlyInv'
  BY StepOrderly
<1>3. QED
  BY <1>1, <1>2, PTL DEF Spec

\* One DELIVER task per booked payment, on disk, when nobody is half way.
THEOREM DeliverPerPaymentAlways == ASSUME Orderly PROVE Spec => []DeliverPerPayment
<1>1. ASSUME OrderlyInv, Idle, NEW p \in ledger PROVE Cardinality(Deliveries(tasks, p)) = 1
  <2>1. \A w \in Worker : pc[w] = "idle"
    BY <1>1 DEF Idle, Process
  <2>2. Pending = {}
    BY <2>1 DEF Pending, Unspawned
  <2>3. Covers(tasks, ledger)
    BY <1>1, <2>1, <2>2 DEF OrderlyInv, CopyInv, FileOK
  <2>4. Single(tasks, {}) /\ p \in Pay
    BY <1>1, VersionsSound DEF OrderlyInv, RevenueInv, Sound, IInv, TypeOK
  <2>5. PICK t \in Used(tasks) : tasks[t].idempotency_key = p
    BY <1>1, <2>3 DEF Covers
  <2>6. Deliveries(tasks, p) = {t}
    BY <2>4, <2>5 DEF Deliveries, Single
  <2>7. QED
    BY <2>6, FS_Singleton
<1>2. OrderlyInv => DeliverPerPayment
  BY <1>1 DEF DeliverPerPayment
<1>3. QED
  BY <1>2, OrderlyStaysSound, PTL

\* The worker's attempts and a human's deliver_now send a product once.
THEOREM SentOnceAlways == ASSUME Orderly PROVE Spec => []SentOnce
<1>1. OrderlyInv => SentOnce
  BY DEF OrderlyInv, OutboxInv, SentOnce
<1>2. QED
  BY <1>1, OrderlyStaysSound, PTL

\* The deliveries on record are those that were sent.
THEOREM RecordMatchesOutboxAlways == ASSUME Orderly PROVE Spec => []RecordMatchesOutbox
<1>1. ASSUME OrderlyInv, Idle, NEW p \in Pay PROVE p \in opp.deliveries <=> sent[p] > 0
  <2>1. ~Sending(p)
    BY <1>1 DEF Idle, Process, Sending
  <2>2. QED
    BY <1>1, <2>1 DEF OrderlyInv, OutboxInv, IInv, RecordInv, Truthful
<1>2. OrderlyInv => RecordMatchesOutbox
  BY <1>1 DEF RecordMatchesOutbox
<1>3. QED
  BY <1>2, OrderlyStaysSound, PTL

\* NO_TRACTION is never the verdict on an opportunity that has earned money.
THEOREM NoTractionUnsoldAlways == ASSUME Orderly PROVE Spec => []NoTractionUnsold
<1>1. OrderlyInv => NoTractionUnsold
  BY DEF OrderlyInv, RevenueInv, NoTractionUnsold
<1>2. QED
  BY <1>1, OrderlyStaysSound, PTL

\* While the opportunity is measured and cycles are left, exactly one check
\* is under way.
THEOREM OneCheckUnderWayAlways == ASSUME Orderly PROVE Spec => []OneCheckUnderWay
<1>1. ASSUME OrderlyInv, Idle, opp.state \in KeepMeasuring, ~LastCycleOver
      PROVE  Cardinality(ByStatus(tasks, Live) \cap Checks(tasks)) = 1
  <2>1. UnderWay(tasks)
    BY <1>1 DEF OrderlyInv, CopyInv, FileOK, InMeasurement, Idle, Process
  <2>2. PICK t \in Checks(tasks) :
           tasks[t].status \in Live \/ tasks[t].idempotency_key = MaxCycles
    BY <2>1 DEF UnderWay
  <2>3. t \in Task /\ tasks[t] \in TaskRecord /\ tasks[t].status # "ABSENT"
    BY <1>1, RecordOfTask DEF OrderlyInv, IInv, TypeOK, Checks, Used
  <2>4. tasks[t].status \in Live
    BY <1>1, <2>2, <2>3 DEF LastCycleOver, TaskRecord, Status
  <2>5. ASSUME NEW u \in ByStatus(tasks, Live) \cap Checks(tasks) PROVE u = t
    <3>1. Chain(tasks) /\ u \in Checks(tasks) /\ tasks[u].status \in Live
      BY <1>1 DEF OrderlyInv, CopyInv, ByStatus
    <3>2. tasks[u].idempotency_key \in Int /\ tasks[t].idempotency_key \in Int
      BY <3>1 DEF Checks, Cycle
    <3>3. /\ tasks[u].idempotency_key <= tasks[t].idempotency_key
          /\ tasks[t].idempotency_key <= tasks[u].idempotency_key
      BY <2>4, <3>1 DEF Chain
    <3>4. tasks[u].idempotency_key = tasks[t].idempotency_key
      BY <3>2, <3>3
    <3>5. QED
      BY <3>1, <3>4 DEF Chain
  <2>6. t \in ByStatus(tasks, Live) \cap Checks(tasks)
    BY <2>3, <2>4 DEF ByStatus
  <2>7. ByStatus(tasks, Live) \cap Checks(tasks) = {t}
    BY <2>5, <2>6
  <2>8. QED
    BY <2>7, FS_Singleton
<1>2. OrderlyInv => OneCheckUnderWay
  BY <1>1 DEF OneCheckUnderWay
<1>3. QED
  BY <1>2, OrderlyStaysSound, PTL
=============================================================================
