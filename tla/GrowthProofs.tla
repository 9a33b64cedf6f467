---------------------------- MODULE GrowthProofs ----------------------------
(***************************************************************************)
(* Theorems about module Growth, for every number of channels, every       *)
(* policy and every length of the series: what succeeded is recorded, what *)
(* is scaled is bounded, the fan-out is complete and the variants keep     *)
(* their distance, wherever the worker dies.                               *)
(*                                                                         *)
(* The claims about a version f of tasks.json are operators of f, of the   *)
(* record o and of the number m of measurements, so that the file and the  *)
(* copy of the worker share every lemma.                                   *)
(***************************************************************************)
EXTENDS Growth, FiniteSetTheorems, SequenceTheorems, TLAPS

Made == [id : Variant, rounds : 0..SeriesCap, at : 0..MaxMeasured]
OppRecord == [state : OppState, series : Seq(Entry), variants : Seq(Made),
              scaled : SUBSET Variant, shared : SUBSET Channel]

RecordType == opp \in OppRecord /\ Len(opp.series) <= SeriesCap

(* The series may forget rounds but never counts more than there were:     *)
(* later rounds minus earlier ones is at most what was measured since.     *)
Since(rounds, at, o, m) == at - rounds <= m - Rounds(o)

Apart(v) == \A i \in DOMAIN v : /\ v[i].at >= MinRounds
                                /\ \A j \in 1..(i - 1) : v[i].at - v[j].at >= Cooldown

Spaced(o, m) ==
    /\ Rounds(o) <= m
    /\ Apart(o.variants)
    /\ \A i \in DOMAIN o.variants : /\ o.variants[i].id = i
                                    /\ Since(o.variants[i].rounds, o.variants[i].at, o, m)

(* What a version of the file may say.                                     *)
Recorded(f, o) ==
    \A n \in Variant :
        /\ f.q[OptimizeTask(n)].status = "SUCCEEDED" => n <= Len(o.variants)
        /\ f.q[ScaleTask(n)].status = "SUCCEEDED" => n \in o.scaled

LiveScales(q) == {n \in Variant : q[ScaleTask(n)].status \in Live}
Bounded(f, o) == Cardinality(o.scaled \cup LiveScales(f.q)) <= MaxScalings

FannedOut(f, o) ==
    f.q[ShareTask(Web)].status = "SUCCEEDED" /\ Web \in o.shared =>
        \A c \in Channel : f.q[ShareTask(c)].status # "ABSENT"

\* A variant that is asked for and not recorded is the next one, and it was
\* told no more rounds than there were, late enough after the others.
Fits(s, n, o, m) ==
    /\ n = Len(o.variants) + 1
    /\ s.at >= MinRounds /\ Since(s.rounds, s.at, o, m)
    /\ \A j \in DOMAIN o.variants : s.at - o.variants[j].at >= Cooldown

Told(f, o, m) ==
    \A n \in Variant :
        f.q[OptimizeTask(n)].status \in Live /\ n > Len(o.variants) =>
            Fits(f.signal[n], n, o, m)

Sound(f, o, m) == Recorded(f, o) /\ Bounded(f, o) /\ FannedOut(f, o) /\ Told(f, o, m)

\* While a task runs the copy is what the file says.
WorkerInv ==
    /\ pc \in {"claimed", "measuring"} => copy = tasks
    /\ pc = "claimed" => wtask \in Task /\ tasks.q[wtask].status = "RUNNING"
    /\ pc = "measuring" => kind \in Kind

IInv ==
    /\ TypeOK /\ RecordType /\ WorkerInv
    /\ Spaced(opp, measured) /\ Sound(tasks, opp, measured) /\ Sound(copy, opp, measured)

-----------------------------------------------------------------------------
(***************************************************************************)
(* The ids of the tasks.                                                   *)
(***************************************************************************)
LEMMA Numbering ==
  /\ MaxVariants \in Nat /\ NumChannels \in Nat /\ NumChannels >= 1
  /\ \A n \in Variant : OptimizeTask(n) \in Task /\ ScaleTask(n) \in Task
  /\ \A c \in Channel : ShareTask(c) \in Task
  /\ Web \in Channel
<1>1. /\ MaxVariants \in Nat /\ NumChannels \in Nat /\ NumChannels >= 1
      /\ MaxTasks = 2 * MaxVariants + NumChannels
  BY GrowthConstants
<1>2. \A n \in Variant : OptimizeTask(n) \in Task /\ ScaleTask(n) \in Task
  BY <1>1 DEF Variant, Task, OptimizeTask, ScaleTask
<1>3. \A c \in Channel : ShareTask(c) \in Task
  BY <1>1 DEF Channel, Task, ShareTask
<1>4. QED
  BY <1>1, <1>2, <1>3 DEF Channel, Web

LEMMA Distinct ==
  /\ \A n, m \in Variant : OptimizeTask(n) # ScaleTask(m)
  /\ \A n, m \in Variant : OptimizeTask(n) = OptimizeTask(m) => n = m
  /\ \A n, m \in Variant : ScaleTask(n) = ScaleTask(m) => n = m
  /\ \A n \in Variant, c \in Channel : OptimizeTask(n) # ShareTask(c) /\ ScaleTask(n) # ShareTask(c)
  /\ \A c, d \in Channel : ShareTask(c) = ShareTask(d) => c = d
BY Numbering DEF Variant, Channel, OptimizeTask, ScaleTask, ShareTask

(***************************************************************************)
(* The operations on the queue: each keeps it a queue, and all but the     *)
(* creation and the success of a task let no task become live, succeeded   *)
(* or absent.                                                              *)
(***************************************************************************)
TaskWaits(a, b) ==
    /\ b.status = "SUCCEEDED" => a.status = "SUCCEEDED"
    /\ b.status \in Live => a.status \in Live
    /\ a.status # "ABSENT" => b.status # "ABSENT"
Waits(p, r) == \A t \in Task : TaskWaits(p[t], r[t])

LEMMA WaitsTransitive ==
  ASSUME NEW p, NEW q, NEW r, Waits(p, q), Waits(q, r)
  PROVE  Waits(p, r)
BY DEF Waits, TaskWaits

LEMMA RecordOfTask == ASSUME NEW p \in Queue, NEW t \in Task PROVE p[t] \in TaskRecord
BY DEF Queue

\* One task changes.
LEMMA PutWaits ==
  ASSUME NEW p \in Queue, NEW t \in Task, NEW b \in TaskRecord
  PROVE  /\ [p EXCEPT ![t] = b] \in Queue
         /\ [p EXCEPT ![t] = b][t] = b
         /\ \A u \in Task : u # t => [p EXCEPT ![t] = b][u] = p[u]
         /\ TaskWaits(p[t], b) => Waits(p, [p EXCEPT ![t] = b])
<1>1. /\ [p EXCEPT ![t] = b] \in Queue
      /\ [p EXCEPT ![t] = b][t] = b
      /\ \A u \in Task : u # t => [p EXCEPT ![t] = b][u] = p[u]
  BY DEF Queue
<1>2. ASSUME TaskWaits(p[t], b), NEW u \in Task PROVE TaskWaits(p[u], [p EXCEPT ![t] = b][u])
  <2>1. CASE u = t
    BY <1>1, <1>2, <2>1
  <2>2. CASE u # t
    BY <1>1, <2>2 DEF TaskWaits
  <2>3. QED
    BY <2>1, <2>2
<1>3. QED
  BY <1>1, <1>2 DEF Waits

LEMMA ResolvedWaits ==
  ASSUME NEW p \in Queue
  PROVE  Resolved(p) \in Queue /\ Waits(p, Resolved(p))
<1>1. ASSUME NEW t \in Task
      PROVE  Resolved(p)[t] \in TaskRecord /\ TaskWaits(p[t], Resolved(p)[t])
  <2>1. p[t] \in TaskRecord
    BY RecordOfTask
  <2>2. \/ Resolved(p)[t] = p[t]
        \/ /\ p[t].status = "PENDING"
           /\ \/ Resolved(p)[t] = [p[t] EXCEPT !.status = "BLOCKED_APPROVAL"]
              \/ Resolved(p)[t] = [p[t] EXCEPT !.status = "READY"]
    BY DEF Resolved
  <2>3. QED
    BY <2>1, <2>2 DEF TaskRecord, Status, Live, Terminal, TaskWaits
<1>2. QED
  BY <1>1 DEF Resolved, Queue, Waits

LEMMA RequeueWaits ==
  ASSUME NEW p \in Queue
  PROVE  RequeueDue(p) \in Queue /\ Waits(p, RequeueDue(p))
<1>1. ASSUME NEW t \in Task
      PROVE  RequeueDue(p)[t] \in TaskRecord /\ TaskWaits(p[t], RequeueDue(p)[t])
  <2>1. p[t] \in TaskRecord
    BY RecordOfTask
  <2>2. \/ RequeueDue(p)[t] = p[t]
        \/ /\ p[t].status = "FAILED_RETRYABLE"
           /\ RequeueDue(p)[t] = [p[t] EXCEPT !.status = "PENDING"]
    BY DEF RequeueDue, RetryDue
  <2>3. QED
    BY <2>1, <2>2 DEF TaskRecord, Status, Live, Terminal, TaskWaits
<1>2. QED
  BY <1>1 DEF RequeueDue, Queue, Waits

LEMMA ReclaimWaits ==
  ASSUME NEW p \in Queue
  PROVE  ReclaimStale(p) \in Queue /\ Waits(p, ReclaimStale(p))
<1>1. ASSUME NEW t \in Task
      PROVE  ReclaimStale(p)[t] \in TaskRecord /\ TaskWaits(p[t], ReclaimStale(p)[t])
  <2>1. p[t] \in TaskRecord
    BY RecordOfTask
  <2>2. \/ ReclaimStale(p)[t] = p[t]
        \/ /\ p[t].status = "RUNNING"
           /\ ReclaimStale(p)[t] = [p[t] EXCEPT !.status = "PENDING"]
    BY DEF ReclaimStale, Stale
  <2>3. QED
    BY <2>1, <2>2 DEF TaskRecord, Status, Live, Terminal, TaskWaits
<1>2. QED
  BY <1>1 DEF ReclaimStale, Queue, Waits

\* The housekeeping of a tick.
LEMMA HousekeepingWaits ==
  ASSUME NEW p \in Queue
  PROVE  /\ Resolved(RequeueDue(ReclaimStale(p))) \in Queue
         /\ Waits(p, Resolved(RequeueDue(ReclaimStale(p))))
<1> DEFINE p1 == ReclaimStale(p)
           p2 == RequeueDue(p1)
<1>1. p1 \in Queue /\ Waits(p, p1)
  BY ReclaimWaits
<1> HIDE DEF p1
<1>2. p2 \in Queue /\ Waits(p1, p2)
  BY <1>1, RequeueWaits
<1> HIDE DEF p2
<1>3. Resolved(p2) \in Queue /\ Waits(p2, Resolved(p2))
  BY <1>2, ResolvedWaits
<1>4. Resolved(p2) \in Queue /\ Waits(p, Resolved(p2))
  BY <1>1, <1>2, <1>3, WaitsTransitive
<1>5. QED
  BY <1>4 DEF p1, p2

LEMMA ClaimWaits ==
  ASSUME NEW p \in Queue, NEW t \in Task, p[t].status = "READY"
  PROVE  Claim(p, t) \in Queue /\ Waits(p, Claim(p, t)) /\ Claim(p, t)[t].status = "RUNNING"
<1> DEFINE a == p[t]
           b == [a EXCEPT !.status = "RUNNING", !.lease_until = LeaseTime,
                          !.attempt_count = CountUp(a.attempt_count)]
<1>1. a \in TaskRecord /\ a.status = "READY"
  BY RecordOfTask
<1>2. LeaseTime \in 0..LeaseTime /\ CountUp(a.attempt_count) \in AttemptCount
  BY <1>1, TaskConstants DEF CountUp, TaskRecord, AttemptCount
<1>3. Claim(p, t) = [p EXCEPT ![t] = b]
  BY DEF Claim
<1> HIDE DEF a
<1>4. b \in TaskRecord /\ b.status = "RUNNING"
  BY <1>1, <1>2 DEF TaskRecord, Status, Live, Terminal
<1> HIDE DEF b
<1>5. TaskWaits(a, b)
  BY <1>1, <1>4 DEF TaskWaits, Live
<1>6. /\ [p EXCEPT ![t] = b] \in Queue /\ [p EXCEPT ![t] = b][t] = b
      /\ Waits(p, [p EXCEPT ![t] = b])
  BY <1>4, <1>5, PutWaits DEF a
<1>7. QED
  BY <1>3, <1>4, <1>6

LEMMA BackoffType == \A n : Backoff(n) \in 0..RetryCap
BY TaskConstants DEF Backoff

LEMMA FailedWaits ==
  ASSUME NEW p \in Queue, NEW t \in Task, NEW retryable \in BOOLEAN, p[t].status = "RUNNING"
  PROVE  MarkFailed(p, t, retryable) \in Queue /\ Waits(p, MarkFailed(p, t, retryable))
<1> DEFINE a == p[t]
           b == [a EXCEPT !.status = "FAILED_RETRYABLE", !.lease_until = 0,
                          !.next_retry_at = Backoff(a.attempt_count)]
           c == [a EXCEPT !.status = "FAILED_FINAL", !.lease_until = 0]
<1>1. a \in TaskRecord /\ a.status = "RUNNING"
  BY RecordOfTask
<1>2. MarkFailed(p, t, retryable) \in {[p EXCEPT ![t] = b], [p EXCEPT ![t] = c]}
  BY DEF MarkFailed
<1>3. 0 \in 0..LeaseTime
  BY TaskConstants
<1> HIDE DEF a
<1>4. b \in TaskRecord /\ b.status = "FAILED_RETRYABLE"
  BY <1>1, <1>3, BackoffType DEF TaskRecord, Status, Live, Terminal
<1>5. c \in TaskRecord /\ c.status = "FAILED_FINAL"
  BY <1>1, <1>3 DEF TaskRecord, Status, Live, Terminal
<1> HIDE DEF b, c
<1>6. TaskWaits(a, b) /\ TaskWaits(a, c)
  BY <1>1, <1>4, <1>5 DEF TaskWaits, Live
<1>7. /\ [p EXCEPT ![t] = b] \in Queue /\ Waits(p, [p EXCEPT ![t] = b])
      /\ [p EXCEPT ![t] = c] \in Queue /\ Waits(p, [p EXCEPT ![t] = c])
  BY <1>4, <1>5, <1>6, PutWaits DEF a
<1>8. QED
  BY <1>2, <1>7

LEMMA BlockWaits ==
  ASSUME NEW p \in Queue, NEW t \in Task, p[t].status = "RUNNING"
  PROVE  BlockForApproval(p, t) \in Queue /\ Waits(p, BlockForApproval(p, t))
<1> DEFINE a == p[t]
           b == [a EXCEPT !.status = "BLOCKED_APPROVAL", !.requires_approval = TRUE]
<1>1. a \in TaskRecord /\ a.status = "RUNNING"
  BY RecordOfTask
<1>2. BlockForApproval(p, t) = [p EXCEPT ![t] = b]
  BY DEF BlockForApproval
<1> HIDE DEF a
<1>3. b \in TaskRecord /\ b.status = "BLOCKED_APPROVAL"
  BY <1>1 DEF TaskRecord, Status, Live, Terminal
<1> HIDE DEF b
<1>4. TaskWaits(a, b)
  BY <1>1, <1>3 DEF TaskWaits, Live
<1>5. [p EXCEPT ![t] = b] \in Queue /\ Waits(p, [p EXCEPT ![t] = b])
  BY <1>3, <1>4, PutWaits DEF a
<1>6. QED
  BY <1>2, <1>5

LEMMA UnblockWaits ==
  ASSUME NEW p \in Queue, NEW t \in Task, p[t].status = "BLOCKED_APPROVAL"
  PROVE  Unblock(p, t) \in Queue /\ Waits(p, Unblock(p, t))
<1> DEFINE a == p[t]
           b == [a EXCEPT !.status = "PENDING", !.requires_approval = FALSE,
                          !.approval_granted = TRUE]
<1>1. a \in TaskRecord /\ a.status = "BLOCKED_APPROVAL"
  BY RecordOfTask
<1>2. Unblock(p, t) = [p EXCEPT ![t] = b]
  BY DEF Unblock
<1> HIDE DEF a
<1>3. b \in TaskRecord /\ b.status = "PENDING"
  BY <1>1 DEF TaskRecord, Status, Live, Terminal
<1> HIDE DEF b
<1>4. TaskWaits(a, b)
  BY <1>1, <1>3 DEF TaskWaits, Live
<1>5. [p EXCEPT ![t] = b] \in Queue /\ Waits(p, [p EXCEPT ![t] = b])
  BY <1>3, <1>4, PutWaits DEF a
<1>6. QED
  BY <1>2, <1>5

\* The task that succeeds is the only one that changes.
LEMMA SucceededTask ==
  ASSUME NEW p \in Queue, NEW t \in Task
  PROVE  /\ MarkSucceeded(p, t) \in Queue
         /\ MarkSucceeded(p, t)[t].status = "SUCCEEDED"
         /\ \A u \in Task : u # t => MarkSucceeded(p, t)[u] = p[u]
<1> DEFINE a == p[t]
           b == [a EXCEPT !.status = "SUCCEEDED", !.lease_until = 0]
<1>1. a \in TaskRecord
  BY RecordOfTask
<1>2. MarkSucceeded(p, t) = [p EXCEPT ![t] = b]
  BY DEF MarkSucceeded
<1>3. 0 \in 0..LeaseTime
  BY TaskConstants
<1> HIDE DEF a
<1>4. b \in TaskRecord /\ b.status = "SUCCEEDED"
  BY <1>1, <1>3 DEF TaskRecord, Status, Live, Terminal
<1> HIDE DEF b
<1>5. /\ [p EXCEPT ![t] = b] \in Queue /\ [p EXCEPT ![t] = b][t] = b
      /\ \A u \in Task : u # t => [p EXCEPT ![t] = b][u] = p[u]
  BY <1>4, PutWaits
<1>6. QED
  BY <1>2, <1>4, <1>5

LEMMA Fresh ==
  ASSUME NEW t \in Task
  PROVE  /\ NewTask(t, {}, Urgency(t), FALSE, 0) \in TaskRecord
         /\ NewTask(t, {}, Urgency(t), FALSE, 0).status = "PENDING"
<1>1. t \in Key \cup {NoKey} /\ Urgency(t) \in Nat
  BY GrowthConstants DEF Task, Urgency
<1>2. NoTask \in TaskRecord
  BY TaskConstants DEF NoTask, TaskRecord, AttemptCount, Status, Live, Terminal
<1>3. 0 \in 0..MaxDelay
  BY TaskConstants
<1>4. QED
  BY <1>1, <1>2, <1>3 DEF NewTask, TaskRecord, Status, Live, Terminal

\* A task that is created: it is live unless its key was taken.
LEMMA CreatedTask ==
  ASSUME NEW p \in Queue, NEW t \in Task
  PROVE  /\ Create(p, t) \in Queue
         /\ \A u \in Task : u # t => Create(p, t)[u] = p[u]
         /\ Create(p, t)[t].status # "ABSENT"
         /\ Create(p, t)[t].status = "SUCCEEDED" => p[t].status = "SUCCEEDED"
<1> DEFINE b == NewTask(t, {}, Urgency(t), FALSE, 0)
<1>1. b \in TaskRecord /\ b.status = "PENDING"
  BY Fresh
<1> HIDE DEF b
<1>2. CASE Taken(p, t)
  BY <1>2 DEF Create, Taken, Live
<1>3. CASE ~Taken(p, t)
  <2>1. Create(p, t) = [p EXCEPT ![t] = b]
    BY <1>3 DEF Create, b
  <2>2. /\ [p EXCEPT ![t] = b] \in Queue /\ [p EXCEPT ![t] = b][t] = b
        /\ \A u \in Task : u # t => [p EXCEPT ![t] = b][u] = p[u]
    BY <1>1, PutWaits
  <2>3. QED
    BY <1>1, <2>1, <2>2
<1>4. QED
  BY <1>2, <1>3

-----------------------------------------------------------------------------
(***************************************************************************)
(* The claims about a version of the file.                                 *)
(***************************************************************************)
LEMMA VariantsFinite ==
  /\ IsFiniteSet(Variant)
  /\ \A S \in SUBSET Variant : IsFiniteSet(S) /\ Cardinality(S) \in Nat
  /\ \A S \in SUBSET Variant : \A T \in SUBSET S : Cardinality(T) <= Cardinality(S)
<1>1. IsFiniteSet(Variant)
  BY Numbering, FS_Interval DEF Variant
<1>2. ASSUME NEW S \in SUBSET Variant PROVE IsFiniteSet(S) /\ Cardinality(S) \in Nat
  BY <1>1, FS_Subset, FS_CardinalityType
<1>3. ASSUME NEW S \in SUBSET Variant, NEW T \in SUBSET S
      PROVE  Cardinality(T) <= Cardinality(S)
  BY <1>2, FS_Subset
<1>4. QED
  BY <1>1, <1>2, <1>3

\* What is scaled or under way may only lose variants.
LEMMA FewerBounded ==
  ASSUME NEW f, NEW o, Bounded(f, o), o.scaled \subseteq Variant, NEW g, NEW r,
         r.scaled \cup LiveScales(g.q) \subseteq o.scaled \cup LiveScales(f.q)
  PROVE  Bounded(g, r)
<1> DEFINE S == o.scaled \cup LiveScales(f.q)
           T == r.scaled \cup LiveScales(g.q)
<1>1. S \in SUBSET Variant /\ T \in SUBSET S
  BY DEF LiveScales
<1>2. Cardinality(T) <= Cardinality(S) /\ Cardinality(T) \in Nat /\ Cardinality(S) \in Nat
  BY <1>1, VariantsFinite
<1>3. Cardinality(S) <= MaxScalings /\ MaxScalings \in Nat
  BY GrowthConstants DEF Bounded
<1>4. Cardinality(T) <= MaxScalings
  BY <1>2, <1>3
<1>5. QED
  BY <1>4 DEF Bounded

LEMMA WaitsSound ==
  ASSUME NEW f, NEW g, NEW o, NEW m, o.scaled \subseteq Variant,
         Waits(f.q, g.q), g.signal = f.signal, Sound(f, o, m)
  PROVE  Sound(g, o, m)
<1>1. \A t \in Task : TaskWaits(f.q[t], g.q[t])
  BY DEF Waits
<1>2. \A n \in Variant : /\ TaskWaits(f.q[OptimizeTask(n)], g.q[OptimizeTask(n)])
                         /\ TaskWaits(f.q[ScaleTask(n)], g.q[ScaleTask(n)])
  BY <1>1, Numbering
<1>3. \A c \in Channel : TaskWaits(f.q[ShareTask(c)], g.q[ShareTask(c)])
  BY <1>1, Numbering
<1>4. Recorded(g, o)
  BY <1>2 DEF Sound, Recorded, TaskWaits
<1>5. LiveScales(g.q) \subseteq LiveScales(f.q)
  BY <1>2 DEF LiveScales, TaskWaits
<1>6. Bounded(g, o)
  BY <1>5, FewerBounded DEF Sound
<1>7. FannedOut(g, o)
  BY <1>3, Numbering DEF Sound, FannedOut, TaskWaits
<1>8. Told(g, o, m)
  BY <1>2 DEF Sound, Told, TaskWaits
<1>9. QED
  BY <1>4, <1>6, <1>7, <1>8 DEF Sound

\* A version with nothing in it.
LEMMA EmptySound ==
  ASSUME NEW f, NEW o, NEW m, o.scaled \subseteq Variant, Bounded(f, o)
  PROVE  EmptyFile \in File /\ Sound(EmptyFile, o, m)
<1>1. EmptyQueue \in Queue
  BY TaskConstants DEF EmptyQueue, Queue, NoTask, TaskRecord, AttemptCount, Status, Live, Terminal
<1>2. EmptyFile \in File
  BY <1>1, GrowthConstants DEF EmptyFile, File, NoSignal, Signal, Due
<1>3. \A t \in Task : EmptyFile.q[t].status = "ABSENT"
  BY DEF EmptyFile, EmptyQueue, NoTask
<1>4. /\ \A n \in Variant : /\ EmptyFile.q[OptimizeTask(n)].status = "ABSENT"
                            /\ EmptyFile.q[ScaleTask(n)].status = "ABSENT"
      /\ EmptyFile.q[ShareTask(Web)].status = "ABSENT"
  BY <1>3, Numbering
<1>5. LiveScales(EmptyFile.q) = {}
  BY <1>4 DEF LiveScales, Live
<1>6. Bounded(EmptyFile, o)
  BY <1>5, FewerBounded
<1>7. Recorded(EmptyFile, o) /\ FannedOut(EmptyFile, o) /\ Told(EmptyFile, o, m)
  BY <1>4 DEF Recorded, FannedOut, Told, Live
<1>8. QED
  BY <1>2, <1>6, <1>7 DEF Sound

-----------------------------------------------------------------------------
(***************************************************************************)
(* The series.                                                             *)
(***************************************************************************)
Traffic(s) == {i \in DOMAIN s : s[i].kind = "traffic"}

LEMMA TrafficFinite ==
  ASSUME NEW s \in Seq(Entry)
  PROVE  /\ IsFiniteSet(Traffic(s)) /\ Cardinality(Traffic(s)) \in Nat
         /\ Cardinality(Traffic(s)) <= Len(s)
<1>1. DOMAIN s = 1..Len(s) /\ Len(s) \in Nat
  BY LenProperties
<1>2. IsFiniteSet(1..Len(s)) /\ Cardinality(1..Len(s)) = Len(s)
  BY <1>1, FS_Interval
<1>3. Traffic(s) \in SUBSET (1..Len(s))
  BY <1>1 DEF Traffic
<1>4. QED
  BY <1>2, <1>3, FS_Subset, FS_CardinalityType

LEMMA RoundsType ==
  ASSUME NEW o \in OppRecord, Len(o.series) <= SeriesCap
  PROVE  Rounds(o) \in 0..SeriesCap /\ Rounds(o) = Cardinality(Traffic(o.series))
<1>1. o.series \in Seq(Entry) /\ Len(o.series) \in Nat /\ SeriesCap \in Nat
  BY GrowthConstants, LenProperties DEF OppRecord
<1>2. Rounds(o) = Cardinality(Traffic(o.series))
  BY DEF Rounds, Traffic
<1>3. QED
  BY <1>1, <1>2, TrafficFinite

\* Keeping the last entries only forgets rounds.
LEMMA LastForgets ==
  ASSUME NEW s \in Seq(Entry), NEW n \in Nat \ {0}
  PROVE  /\ Last(s, n) \in Seq(Entry) /\ Len(Last(s, n)) <= n
         /\ Cardinality(Traffic(Last(s, n))) <= Cardinality(Traffic(s))
<1>1. DOMAIN s = 1..Len(s) /\ Len(s) \in Nat /\ \A i \in 1..Len(s) : s[i] \in Entry
  BY LenProperties, ElementOfSeq
<1>2. CASE ~(Len(s) > n)
  <2>1. Last(s, n) = s
    BY <1>2 DEF Last
  <2>2. QED
    BY <1>1, <1>2, <2>1, TrafficFinite
<1>3. CASE Len(s) > n
  <2> DEFINE d == Len(s) - n
             z == SubSeq(s, d + 1, Len(s))
             f == [i \in Traffic(z) |-> i + d]
  <2>1. d \in Nat /\ Len(s) - (d + 1) + 1 = n /\ d + 1 <= Len(s)
    BY <1>1, <1>3
  <2>2. \A i \in (d + 1)..Len(s) : s[i] \in Entry
    BY <1>1, <2>1
  <2>3. Last(s, n) = z
    BY <1>3 DEF Last
  <2>4. /\ z \in Seq(Entry) /\ Len(z) = n
        /\ \A i \in 1..n : z[i] = s[d + 1 + i - 1]
    <3>1. d + 1 \in Int /\ Len(s) \in Int
      BY <1>1, <2>1
    <3>2. /\ z \in Seq(Entry)
          /\ Len(z) = IF d + 1 <= Len(s) THEN Len(s) - (d + 1) + 1 ELSE 0
          /\ \A i \in 1..(Len(s) - (d + 1) + 1) : z[i] = s[d + 1 + i - 1]
      BY <2>2, <3>1, SubSeqProperties
    <3>3. QED
      BY <2>1, <3>2
  <2> HIDE DEF z, d
  <2>5. DOMAIN z = 1..n
    BY <2>4, LenProperties
  <2>6. \A i \in Traffic(z) : i \in 1..n /\ i + d \in Traffic(s)
    <3> SUFFICES ASSUME NEW i \in Traffic(z) PROVE i \in 1..n /\ i + d \in Traffic(s)
      OBVIOUS
    <3>1. i \in 1..n /\ z[i].kind = "traffic"
      BY <2>5 DEF Traffic
    <3>2. d + 1 + i - 1 = i + d /\ i + d \in 1..Len(s)
      BY <1>1, <1>3, <2>1, <3>1 DEF d
    <3>3. QED
      BY <1>1, <2>4, <3>1, <3>2 DEF Traffic
  <2>7. f \in Injection(Traffic(z), Traffic(s))
    <3>1. f \in [Traffic(z) -> Traffic(s)]
      BY <2>6
    <3>2. \A i, j \in Traffic(z) : f[i] = f[j] => i = j
      BY <2>1, <2>6
    <3>3. QED
      BY <3>1, <3>2 DEF Injection, IsInjective
  <2>8. Cardinality(Traffic(z)) <= Cardinality(Traffic(s))
    BY <2>7, TrafficFinite, FS_Injection
  <2>9. QED
    BY <2>3, <2>4, <2>8
<1>4. QED
  BY <1>2, <1>3

\* One entry more: the rounds grow by one at most, and only with traffic.
LEMMA AppendedRounds ==
  ASSUME NEW o \in OppRecord, Len(o.series) <= SeriesCap, NEW e \in Entry
  PROVE  /\ Appended(o, e) \in OppRecord /\ Len(Appended(o, e).series) <= SeriesCap
         /\ Appended(o, e).state = o.state /\ Appended(o, e).variants = o.variants
         /\ Appended(o, e).scaled = o.scaled /\ Appended(o, e).shared = o.shared
         /\ Rounds(Appended(o, e)) <= Rounds(o) + 1
         /\ e.kind # "traffic" => Rounds(Appended(o, e)) <= Rounds(o)
<1> DEFINE s == o.series
           a == Append(s, e)
           z == Last(a, SeriesCap)
<1>1. s \in Seq(Entry)
  BY DEF OppRecord
<1>2. DOMAIN s = 1..Len(s) /\ Len(s) \in Nat /\ SeriesCap \in Nat \ {0}
  BY <1>1, GrowthConstants, LenProperties
<1> HIDE DEF s
<1>3. /\ a \in Seq(Entry) /\ Len(a) = Len(s) + 1
      /\ \A i \in 1..Len(s) : a[i] = s[i]
      /\ a[Len(s) + 1] = e
  BY <1>1, AppendProperties
<1>4. DOMAIN a = 1..(Len(s) + 1)
  BY <1>3, LenProperties
<1> HIDE DEF a
<1>5. /\ Traffic(a) \subseteq Traffic(s) \cup {Len(s) + 1}
      /\ e.kind # "traffic" => Traffic(a) \subseteq Traffic(s)
  BY <1>2, <1>3, <1>4 DEF Traffic
<1>6. /\ IsFiniteSet(Traffic(s)) /\ Cardinality(Traffic(s)) \in Nat
      /\ IsFiniteSet(Traffic(a)) /\ Cardinality(Traffic(a)) \in Nat
  BY <1>1, <1>3, TrafficFinite
<1>7. Cardinality(Traffic(a)) <= Cardinality(Traffic(s)) + 1
  <2>1. /\ IsFiniteSet(Traffic(s) \cup {Len(s) + 1})
        /\ Cardinality(Traffic(s) \cup {Len(s) + 1}) =
              IF Len(s) + 1 \in Traffic(s) THEN Cardinality(Traffic(s))
              ELSE Cardinality(Traffic(s)) + 1
    BY <1>6, FS_AddElement
  <2>2. Cardinality(Traffic(a)) <= Cardinality(Traffic(s) \cup {Len(s) + 1})
    BY <1>5, <2>1, FS_Subset
  <2>3. QED
    BY <1>6, <2>1, <2>2
<1>8. e.kind # "traffic" => Cardinality(Traffic(a)) <= Cardinality(Traffic(s))
  BY <1>5, <1>6, FS_Subset
<1>9. /\ z \in Seq(Entry) /\ Len(z) <= SeriesCap
      /\ Cardinality(Traffic(z)) <= Cardinality(Traffic(a))
  BY <1>2, <1>3, LastForgets
<1>10. Appended(o, e) = [o EXCEPT !.series = z]
  BY DEF Appended, s, a
<1> HIDE DEF z
<1>11. /\ Appended(o, e) \in OppRecord /\ Appended(o, e).series = z
       /\ Appended(o, e).state = o.state /\ Appended(o, e).variants = o.variants
       /\ Appended(o, e).scaled = o.scaled /\ Appended(o, e).shared = o.shared
  BY <1>9, <1>10 DEF OppRecord
<1>12. /\ Rounds(o) = Cardinality(Traffic(s))
       /\ Rounds(Appended(o, e)) = Cardinality(Traffic(z))
  BY <1>11 DEF Rounds, Traffic, s
<1>13. Cardinality(Traffic(z)) \in Nat
  BY <1>9, TrafficFinite
<1>14. /\ Rounds(Appended(o, e)) <= Rounds(o) + 1
       /\ e.kind # "traffic" => Rounds(Appended(o, e)) <= Rounds(o)
  BY <1>6, <1>7, <1>8, <1>9, <1>12, <1>13
<1>15. QED
  BY <1>9, <1>11, <1>14

-----------------------------------------------------------------------------
(***************************************************************************)
(* What a check creates.                                                   *)
(***************************************************************************)

\* What may be said of the record and of a version goes on holding when no
\* more rounds are counted than were measured.
LEMMA LaterSound ==
  ASSUME NEW o \in OppRecord, NEW r \in OppRecord, NEW m \in Nat, NEW k \in Nat,
         Rounds(o) \in Nat, Rounds(r) \in Nat, Rounds(r) - Rounds(o) <= k - m,
         r.variants = o.variants, r.scaled = o.scaled, r.shared = o.shared,
         Spaced(o, m)
  PROVE  /\ Spaced(r, k)
         /\ \A f \in File : Sound(f, o, m) => Sound(f, r, k)
<1>1. ASSUME NEW rounds \in Int, NEW at \in Int, Since(rounds, at, o, m)
      PROVE  Since(rounds, at, r, k)
  <2>1. at - rounds <= m - Rounds(o) /\ m - Rounds(o) <= k - Rounds(r)
    BY <1>1 DEF Since
  <2>2. QED
    BY <2>1 DEF Since
<1>2. Spaced(r, k)
  <2>1. Rounds(r) <= k
    BY DEF Spaced
  <2>2. \A i \in DOMAIN o.variants : o.variants[i].rounds \in Int /\ o.variants[i].at \in Int
    <3>1. o.variants \in Seq(Made)
      BY DEF OppRecord
    <3>2. ASSUME NEW i \in DOMAIN o.variants PROVE o.variants[i] \in Made
      BY <3>1, LenProperties, ElementOfSeq
    <3>3. QED
      BY <3>2 DEF Made
  <2>3. QED
    BY <1>1, <2>1, <2>2 DEF Spaced
<1>3. ASSUME NEW f \in File, Sound(f, o, m) PROVE Sound(f, r, k)
  <2>1. ASSUME NEW n \in Variant PROVE f.signal[n].rounds \in Int /\ f.signal[n].at \in Int
    BY DEF File, Signal
  <2>2. Told(f, r, k)
    BY <1>1, <1>3, <2>1 DEF Sound, Told, Fits
  <2>3. QED
    BY <1>3, <2>2 DEF Sound, Recorded, Bounded, FannedOut
<1>4. QED
  BY <1>2, <1>3

LEMMA VariantsOf ==
  ASSUME NEW o \in OppRecord
  PROVE  /\ DOMAIN o.variants = 1..Len(o.variants) /\ Len(o.variants) \in Nat
         /\ \A i \in 1..Len(o.variants) : /\ o.variants[i].rounds \in Int
                                          /\ o.variants[i].at \in Int
<1>1. o.variants \in Seq(Made)
  BY DEF OppRecord
<1>2. \A i \in 1..Len(o.variants) : o.variants[i] \in Made
  BY <1>1, ElementOfSeq
<1>3. QED
  BY <1>1, <1>2, LenProperties DEF Made

\* The cooldown is counted in rounds the series still holds, and holds for
\* the measurements there were.
LEMMA NewVariantApart ==
  ASSUME NEW o \in OppRecord, NEW m \in Nat, Rounds(o) \in Nat,
         Spaced(o, m), CooledDown(o)
  PROVE  \A j \in DOMAIN o.variants : m - o.variants[j].at >= Cooldown
<1> DEFINE v == o.variants
<1>1. /\ DOMAIN v = 1..Len(v) /\ Len(v) \in Nat
      /\ \A i \in 1..Len(v) : v[i].rounds \in Int /\ v[i].at \in Int
      /\ Cooldown \in Nat
  BY VariantsOf, GrowthConstants
<1> SUFFICES ASSUME NEW j \in DOMAIN v PROVE m - v[j].at >= Cooldown
  OBVIOUS
<1> DEFINE l == Len(v)
<1>2. v # <<>> /\ l \in DOMAIN v /\ j \in 1..l /\ j <= l
  BY <1>1
<1>3. m - v[l].at >= Cooldown
  <2>1. Rounds(o) - v[l].rounds >= Cooldown
    BY <1>2 DEF CooledDown
  <2>2. v[l].at - v[l].rounds <= m - Rounds(o)
    BY <1>2 DEF Spaced, Since
  <2>3. v[l].at \in Int /\ v[l].rounds \in Int
    BY <1>1, <1>2
  <2> HIDE DEF v, l
  <2>4. QED
    BY <1>1, <2>1, <2>2, <2>3
<1>4. CASE j = l
  BY <1>3, <1>4
<1>5. CASE j # l
  <2>1. j \in 1..(l - 1)
    BY <1>1, <1>2, <1>5
  <2>2. v[l].at - v[j].at >= Cooldown
    BY <1>2, <2>1 DEF Spaced, Apart
  <2>3. v[l].at \in Int /\ v[j].at \in Int
    BY <1>1, <1>2
  <2> HIDE DEF v, l
  <2>4. QED
    BY <1>1, <1>3, <2>2, <2>3
<1>6. QED
  BY <1>4, <1>5

LEMMA MaybeOptimizeSound ==
  ASSUME NEW f \in File, NEW o \in OppRecord, NEW m \in 0..MaxMeasured,
         Rounds(o) \in 0..SeriesCap, Spaced(o, m), Sound(f, o, m)
  PROVE  MaybeOptimize(f, o, m) \in File /\ Sound(MaybeOptimize(f, o, m), o, m)
<1> DEFINE n == Len(o.variants) + 1
           t == OptimizeTask(n)
           told == [rounds |-> Rounds(o), at |-> m]
           g == MaybeOptimize(f, o, m)
<1>1. CASE g = f
  BY <1>1
<1>2. CASE g # f
  <2>1. /\ ~LiveAmong(f.q, Optimizes) /\ WorthVariant(o)
        /\ g = [f EXCEPT !.q = Create(f.q, t), !.signal[n] = told]
    BY <1>2 DEF MaybeOptimize
  <2>2. n \in Variant /\ t \in Task
    <3>1. Len(o.variants) \in Nat /\ Len(o.variants) < MaxVariants
      BY <2>1, VariantsOf DEF WorthVariant
    <3>2. n \in Variant
      BY <3>1, Numbering DEF Variant
    <3>3. QED
      BY <3>2, Numbering
  <2>3. f.q \in Queue /\ f.signal \in [Variant -> Signal] /\ f.due \in [Kind -> Due]
    BY DEF File
  <2>4. told \in Signal /\ told.rounds = Rounds(o) /\ told.at = m
    BY DEF Signal
  <2>5. /\ Create(f.q, t) \in Queue
        /\ \A u \in Task : u # t => Create(f.q, t)[u] = f.q[u]
        /\ Create(f.q, t)[t].status = "SUCCEEDED" => f.q[t].status = "SUCCEEDED"
    BY <2>2, <2>3, CreatedTask
  <2>6. /\ g \in File /\ g.q = Create(f.q, t)
        /\ g.signal[n] = told
    <3>1. [f.signal EXCEPT ![n] = told] \in [Variant -> Signal]
      BY <2>2, <2>3, <2>4
    <3> HIDE DEF told, t, n
    <3>2. QED
      BY <2>1, <2>2, <2>3, <2>5, <3>1 DEF File
  <2> HIDE DEF g, told
  <2>7. /\ \A k \in Variant : /\ k # n => g.q[OptimizeTask(k)] = f.q[OptimizeTask(k)]
                              /\ g.q[ScaleTask(k)] = f.q[ScaleTask(k)]
        /\ \A c \in Channel : g.q[ShareTask(c)] = f.q[ShareTask(c)]
        /\ g.q[OptimizeTask(n)].status = "SUCCEEDED" => f.q[OptimizeTask(n)].status = "SUCCEEDED"
    BY <2>2, <2>5, <2>6, Numbering, Distinct
  <2> HIDE DEF t
  <2>8. Recorded(g, o)
    <3>1. ASSUME NEW k \in Variant
          PROVE  /\ g.q[OptimizeTask(k)].status = "SUCCEEDED" => k <= Len(o.variants)
                 /\ g.q[ScaleTask(k)].status = "SUCCEEDED" => k \in o.scaled
      <4>1. CASE k = n
        BY <2>7, <4>1 DEF Sound, Recorded
      <4>2. CASE k # n
        BY <2>7, <4>2 DEF Sound, Recorded
      <4>3. QED
        BY <4>1, <4>2
    <3>2. QED
      BY <3>1 DEF Recorded
  <2>9. Bounded(g, o)
    <3>1. LiveScales(g.q) = LiveScales(f.q)
      BY <2>7 DEF LiveScales
    <3>2. QED
      BY <3>1 DEF Sound, Bounded
  <2>10. FannedOut(g, o)
    BY <2>7, Numbering DEF Sound, FannedOut
  <2>11. Told(g, o, m)
    <3>1. Fits(g.signal[n], n, o, m)
      <4>1. Rounds(o) >= MinRounds /\ CooledDown(o)
        BY <2>1 DEF WorthVariant
      <4>2. Rounds(o) \in Nat /\ m \in Nat /\ MinRounds \in Nat /\ Rounds(o) <= m
        BY GrowthConstants DEF Spaced
      <4>3. g.signal[n].rounds = Rounds(o) /\ g.signal[n].at = m
        BY <2>4, <2>6
      <4>4. m >= MinRounds /\ m - Rounds(o) <= m - Rounds(o)
        BY <4>1, <4>2
      <4>5. \A j \in DOMAIN o.variants : m - o.variants[j].at >= Cooldown
        BY <4>1, <4>2, NewVariantApart
      <4>6. QED
        BY <4>3, <4>4, <4>5 DEF Fits, Since
    <3>2. \A k \in Variant : f.q[OptimizeTask(k)].status \notin Live
      BY <2>1, Numbering DEF LiveAmong, Optimizes, ByStatus
    <3>3. QED
      BY <2>7, <3>1, <3>2 DEF Told
  <2>12. QED
    BY <2>6, <2>8, <2>9, <2>10, <2>11 DEF Sound, g
<1>3. QED
  BY <1>1, <1>2

\* Only the newest of the variants that are not scaled is considered.
LEMMA OneScaling ==
  ASSUME NEW o \in OppRecord
  PROVE  /\ WorthScaling(o) \subseteq Variant \ o.scaled
         /\ \A n, k \in WorthScaling(o) : n = k
<1>1. /\ DOMAIN o.variants = 1..Len(o.variants) /\ Len(o.variants) \in Nat
      /\ \A i \in 1..Len(o.variants) : o.variants[i].id \in Variant
  <2>1. o.variants \in Seq(Made)
    BY DEF OppRecord
  <2>2. \A i \in 1..Len(o.variants) : o.variants[i] \in Made
    BY <2>1, ElementOfSeq
  <2>3. QED
    BY <2>2, VariantsOf DEF Made
<1>2. ASSUME NEW n \in Newest(o)
      PROVE  \E i \in 1..Len(o.variants) :
                /\ o.variants[i].id = n /\ n \notin o.scaled
                /\ \A j \in (i + 1)..Len(o.variants) : o.variants[j].id \in o.scaled
  BY <1>1 DEF Newest
<1>3. ASSUME NEW n \in Newest(o), NEW k \in Newest(o) PROVE n = k
  <2>1. PICK i \in 1..Len(o.variants) :
                /\ o.variants[i].id = n /\ n \notin o.scaled
                /\ \A j \in (i + 1)..Len(o.variants) : o.variants[j].id \in o.scaled
    BY <1>2
  <2>2. PICK l \in 1..Len(o.variants) :
                /\ o.variants[l].id = k /\ k \notin o.scaled
                /\ \A j \in (l + 1)..Len(o.variants) : o.variants[j].id \in o.scaled
    BY <1>2
  <2>3. l \notin (i + 1)..Len(o.variants) /\ i \notin (l + 1)..Len(o.variants)
    BY <2>1, <2>2
  <2>4. i = l
    BY <1>1, <2>3
  <2>5. QED
    BY <2>1, <2>2, <2>4
<1>4. WorthScaling(o) \subseteq Newest(o)
  BY DEF WorthScaling
<1>5. QED
  BY <1>1, <1>2, <1>3, <1>4

LEMMA MaybePromoteSound ==
  ASSUME NEW f \in File, NEW o \in OppRecord, NEW m, Sound(f, o, m)
  PROVE  MaybePromote(f, o) \in File /\ Sound(MaybePromote(f, o), o, m)
<1> DEFINE W == {ScaleTask(n) : n \in WorthScaling(o)}
           q == [t \in Task |-> IF t \in W THEN Create(f.q, t)[t] ELSE f.q[t]]
           g == MaybePromote(f, o)
<1>1. CASE g = f
  BY <1>1
<1>2. CASE g # f
  <2>1. ~LiveAmong(f.q, Scales) /\ g = [f EXCEPT !.q = q]
    BY <1>2 DEF MaybePromote
  <2>2. f.q \in Queue /\ f.signal \in [Variant -> Signal] /\ f.due \in [Kind -> Due]
    BY DEF File
  <2>3. ASSUME NEW t \in Task
        PROVE  q[t] \in TaskRecord /\ (q[t].status = "SUCCEEDED" => f.q[t].status = "SUCCEEDED")
    <3>1. /\ Create(f.q, t) \in Queue
          /\ Create(f.q, t)[t].status = "SUCCEEDED" => f.q[t].status = "SUCCEEDED"
      BY <2>2, CreatedTask
    <3>2. Create(f.q, t)[t] \in TaskRecord /\ f.q[t] \in TaskRecord
      BY <2>2, <3>1, RecordOfTask
    <3>3. q[t] = Create(f.q, t)[t] \/ q[t] = f.q[t]
      OBVIOUS
    <3> HIDE DEF q
    <3>4. QED
      BY <3>1, <3>2, <3>3
  <2>4. \A t \in Task : t \notin W => q[t] = f.q[t]
    OBVIOUS
  <2>5. q \in Queue
    BY <2>3 DEF Queue
  <2>6. WorthScaling(o) \subseteq Variant
    BY OneScaling
  <2>7. /\ \A n \in Variant : OptimizeTask(n) \notin W
        /\ \A c \in Channel : ShareTask(c) \notin W
        /\ \A n \in Variant : ScaleTask(n) \in W => n \in WorthScaling(o)
    BY <2>6, Distinct
  <2> HIDE DEF q, W
  <2>8. g \in File /\ g.q = q /\ g.signal = f.signal
    BY <2>1, <2>2, <2>5 DEF File
  <2> HIDE DEF g
  <2>9. /\ \A n \in Variant : g.q[OptimizeTask(n)] = f.q[OptimizeTask(n)]
        /\ \A c \in Channel : g.q[ShareTask(c)] = f.q[ShareTask(c)]
        /\ \A n \in Variant : /\ n \notin WorthScaling(o) => g.q[ScaleTask(n)] = f.q[ScaleTask(n)]
                              /\ g.q[ScaleTask(n)].status = "SUCCEEDED" =>
                                    f.q[ScaleTask(n)].status = "SUCCEEDED"
    BY <2>3, <2>4, <2>7, <2>8, Numbering
  <2>10. Recorded(g, o)
    BY <2>9 DEF Sound, Recorded
  <2>11. Bounded(g, o)
    <3>1. LiveScales(f.q) = {}
      BY <2>1, Numbering DEF LiveAmong, Scales, ByStatus, LiveScales
    <3>2. LiveScales(g.q) \subseteq WorthScaling(o)
      BY <2>9, <3>1 DEF LiveScales
    <3>3. o.scaled \in SUBSET Variant
      BY DEF OppRecord
    <3>4. CASE LiveScales(g.q) = {}
      BY <3>1, <3>4 DEF Sound, Bounded
    <3>5. CASE LiveScales(g.q) # {}
      <4>1. PICK n \in WorthScaling(o) : LiveScales(g.q) = {n}
        BY <3>2, <3>5, OneScaling
      <4>2. Cardinality(o.scaled) < MaxScalings
        BY <4>1 DEF WorthScaling
      <4>3. IsFiniteSet(o.scaled) /\ Cardinality(o.scaled) \in Nat /\ MaxScalings \in Nat
        BY <3>3, VariantsFinite, GrowthConstants
      <4>4. Cardinality(o.scaled \cup {n}) =
              IF n \in o.scaled THEN Cardinality(o.scaled) ELSE Cardinality(o.scaled) + 1
        BY <4>3, FS_AddElement
      <4>5. Cardinality(o.scaled \cup {n}) <= MaxScalings
        BY <4>2, <4>3, <4>4
      <4>6. QED
        BY <4>1, <4>5 DEF Bounded
    <3>6. QED
      BY <3>4, <3>5
  <2>12. FannedOut(g, o)
    BY <2>9, Numbering DEF Sound, FannedOut
  <2>13. Told(g, o, m)
    BY <2>8, <2>9 DEF Sound, Told
  <2>14. QED
    BY <2>8, <2>10, <2>11, <2>12, <2>13 DEF Sound, g
<1>3. QED
  BY <1>1, <1>2

-----------------------------------------------------------------------------
(***************************************************************************)
(* The steps.                                                              *)
(***************************************************************************)
LEMMA Facts ==
  ASSUME IInv
  PROVE  /\ opp \in OppRecord /\ Len(opp.series) <= SeriesCap /\ opp.scaled \subseteq Variant
         /\ tasks \in File /\ copy \in File
         /\ tasks.q \in Queue /\ copy.q \in Queue
         /\ measured \in 0..MaxMeasured /\ measured \in Nat
         /\ pc \in {"idle", "claimed", "measuring", "recorded"}
         /\ wtask \in Task \cup {NoneTask} /\ kind \in Kind \cup {NoKind}
         /\ deaths \in 0..MaxDeaths
         /\ Rounds(opp) \in 0..SeriesCap /\ Rounds(opp) \in Nat
         /\ Spaced(opp, measured) /\ Sound(tasks, opp, measured) /\ Sound(copy, opp, measured)
<1>1. opp \in OppRecord /\ Len(opp.series) <= SeriesCap
  BY DEF IInv, RecordType
<1>2. Rounds(opp) \in 0..SeriesCap /\ SeriesCap \in Nat /\ MaxMeasured \in Nat
  BY <1>1, RoundsType, GrowthConstants
<1>3. QED
  BY <1>1, <1>2 DEF IInv, TypeOK, OppRecord, File

\* What a step must establish.
LEMMA Established ==
  ASSUME opp' \in OppRecord, Len(opp'.series) <= SeriesCap,
         tasks' \in File, copy' \in File, measured' \in 0..MaxMeasured,
         pc' \in {"idle", "claimed", "measuring", "recorded"},
         wtask' \in Task \cup {NoneTask}, kind' \in Kind \cup {NoKind},
         deaths' \in 0..MaxDeaths, WorkerInv',
         Spaced(opp', measured'), Sound(tasks', opp', measured'), Sound(copy', opp', measured')
  PROVE  IInv'
<1>1. RecordType'
  BY DEF RecordType
<1>2. TypeOK'
  BY DEF TypeOK, OppRecord, Made
<1>3. QED
  BY <1>1, <1>2 DEF IInv

\* Only the queue, the worker's copy and its place change.
LEMMA QueueStep ==
  ASSUME IInv, UNCHANGED <<opp, measured>>, deaths' \in 0..MaxDeaths,
         tasks' \in File, copy' \in File,
         Sound(tasks', opp, measured), Sound(copy', opp, measured),
         pc' \in {"idle", "claimed", "measuring", "recorded"},
         wtask' \in Task \cup {NoneTask}, kind' \in Kind \cup {NoKind}, WorkerInv'
  PROVE  IInv'
<1>1. /\ opp' \in OppRecord /\ Len(opp'.series) <= SeriesCap /\ measured' \in 0..MaxMeasured
      /\ Spaced(opp', measured') /\ Sound(tasks', opp', measured')
      /\ Sound(copy', opp', measured')
  BY Facts
<1>2. QED
  BY <1>1, Established

\* The same file with another queue, in which tasks wait.
LEMMA WithQueue ==
  ASSUME IInv, NEW f \in File, Sound(f, opp, measured), NEW r \in Queue, Waits(f.q, r)
  PROVE  [f EXCEPT !.q = r] \in File /\ Sound([f EXCEPT !.q = r], opp, measured)
<1> DEFINE g == [f EXCEPT !.q = r]
<1>1. g \in File /\ g.q = r /\ g.signal = f.signal
  BY DEF File
<1> HIDE DEF g
<1>2. Sound(g, opp, measured)
  BY <1>1, Facts, WaitsSound
<1>3. QED
  BY <1>1, <1>2 DEF g

LEMMA LoadedSound ==
  ASSUME IInv
  PROVE  Loaded \in File /\ Sound(Loaded, opp, measured)
<1>1. /\ Resolved(RequeueDue(ReclaimStale(tasks.q))) \in Queue
      /\ Waits(tasks.q, Resolved(RequeueDue(ReclaimStale(tasks.q))))
  BY Facts, HousekeepingWaits
<1>2. QED
  BY <1>1, Facts, WithQueue DEF Loaded

LEMMA NothingReadyStep == ASSUME IInv, NothingReady PROVE IInv'
<1>1. /\ pc = "idle" /\ tasks' = Loaded
      /\ UNCHANGED <<opp, measured, pc, copy, wtask, kind, deaths>>
  BY DEF NothingReady
<1>2. tasks' \in File /\ Sound(tasks', opp, measured)
  BY <1>1, LoadedSound
<1>3. WorkerInv'
  BY <1>1 DEF WorkerInv
<1>4. QED
  BY <1>1, <1>2, <1>3, Facts, QueueStep

LEMMA ClaimReadyStep == ASSUME IInv, ClaimReady PROVE IInv'
<1>1. PICK t \in MostUrgent(Loaded.q) :
          /\ copy' = [Loaded EXCEPT !.q = Claim(Loaded.q, t)] /\ wtask' = t
  BY DEF ClaimReady
<1>2. tasks' = copy' /\ pc' = "claimed" /\ UNCHANGED <<opp, measured, kind, deaths>>
  BY DEF ClaimReady
<1>3. PICK f : f = Loaded
  OBVIOUS
<1>4. f \in File /\ Sound(f, opp, measured) /\ f.q \in Queue
  BY <1>3, LoadedSound DEF File
<1>5. t \in Task /\ f.q[t].status = "READY"
  BY <1>1, <1>3 DEF MostUrgent, ByStatus
<1>6. Claim(f.q, t) \in Queue /\ Waits(f.q, Claim(f.q, t)) /\ Claim(f.q, t)[t].status = "RUNNING"
  BY <1>4, <1>5, ClaimWaits
<1>7. copy' \in File /\ Sound(copy', opp, measured) /\ copy'.q = Claim(f.q, t)
  <2>1. /\ [f EXCEPT !.q = Claim(f.q, t)] \in File
        /\ Sound([f EXCEPT !.q = Claim(f.q, t)], opp, measured)
    BY <1>4, <1>6, WithQueue
  <2>2. [f EXCEPT !.q = Claim(f.q, t)].q = Claim(f.q, t)
    BY <1>4 DEF File
  <2>3. QED
    BY <1>1, <1>3, <2>1, <2>2
<1>8. WorkerInv'
  BY <1>1, <1>2, <1>5, <1>6, <1>7 DEF WorkerInv
<1>9. QED
  BY <1>1, <1>2, <1>5, <1>7, <1>8, Facts, QueueStep

LEMMA ClaimCheckStep == ASSUME IInv, NEW k \in Kind, ClaimCheck(k) PROVE IInv'
<1>1. /\ copy' = Loaded /\ tasks' = copy' /\ kind' = k /\ pc' = "measuring"
      /\ UNCHANGED <<opp, measured, wtask, deaths>>
  BY DEF ClaimCheck
<1>2. copy' \in File /\ Sound(copy', opp, measured)
  BY <1>1, LoadedSound
<1>3. WorkerInv'
  BY <1>1 DEF WorkerInv
<1>4. QED
  BY <1>1, <1>2, <1>3, Facts, QueueStep

LEMMA ReleaseStep == ASSUME IInv, NEW t \in Scales, Release(t) PROVE IInv'
<1>1. /\ pc = "idle" /\ tasks.q[t].status = "BLOCKED_APPROVAL"
      /\ tasks' = [tasks EXCEPT !.q = Resolved(Unblock(tasks.q, t))]
      /\ UNCHANGED <<opp, measured, pc, copy, wtask, kind, deaths>>
  BY DEF Release
<1>2. t \in Task
  BY Numbering DEF Scales
<1>3. Unblock(tasks.q, t) \in Queue /\ Waits(tasks.q, Unblock(tasks.q, t))
  BY <1>1, <1>2, Facts, UnblockWaits
<1>4. /\ Resolved(Unblock(tasks.q, t)) \in Queue
      /\ Waits(tasks.q, Resolved(Unblock(tasks.q, t)))
  BY <1>3, ResolvedWaits, WaitsTransitive
<1>5. tasks' \in File /\ Sound(tasks', opp, measured)
  BY <1>1, <1>4, Facts, WithQueue
<1>6. WorkerInv'
  BY <1>1 DEF WorkerInv
<1>7. QED
  BY <1>1, <1>5, <1>6, Facts, QueueStep

\* The worker forgets its copy: at the end of a tick, or because it dies.
LEMMA ForgetStep ==
  ASSUME IInv, Forget, UNCHANGED <<opp, measured>>, deaths' \in 0..MaxDeaths,
         tasks' \in File, Sound(tasks', opp, measured)
  PROVE  IInv'
<1>1. /\ pc' = "idle" /\ copy' = EmptyFile /\ wtask' = NoneTask /\ kind' = NoKind
  BY DEF Forget
<1>2. EmptyFile \in File /\ Sound(EmptyFile, opp, measured)
  BY Facts, EmptySound DEF Sound
<1>3. WorkerInv'
  BY <1>1 DEF WorkerInv
<1>4. QED
  BY <1>1, <1>2, <1>3, QueueStep

LEMMA SaveQueueStep == ASSUME IInv, SaveQueue PROVE IInv'
<1> DEFINE due == [k \in Kind |-> IF k # kind THEN copy.due[k]
                                  ELSE IF opp.state \in KeepMeasuring THEN "again"
                                  ELSE "never"]
           g == [copy EXCEPT !.q = Resolved(copy.q)]
<1>1. /\ tasks' = [copy EXCEPT !.q = Resolved(copy.q), !.due = due]
      /\ Forget /\ UNCHANGED <<opp, measured, deaths>>
  BY DEF SaveQueue
<1>2. Resolved(copy.q) \in Queue /\ Waits(copy.q, Resolved(copy.q))
  BY Facts, ResolvedWaits
<1>3. copy \in File /\ due \in [Kind -> Due]
  <2>1. copy \in File /\ copy.due \in [Kind -> Due]
    BY Facts DEF File
  <2>2. QED
    BY <2>1 DEF Due
<1> HIDE DEF due
<1>4. tasks' \in File /\ tasks'.q = Resolved(copy.q) /\ tasks'.signal = copy.signal
  BY <1>1, <1>2, <1>3 DEF File
<1>5. Sound(tasks', opp, measured)
  BY <1>2, <1>4, Facts, WaitsSound
<1>6. QED
  BY <1>1, <1>4, <1>5, Facts, ForgetStep

LEMMA DieStep == ASSUME IInv, Die PROVE IInv'
<1>1. Forget /\ UNCHANGED <<opp, tasks, measured>> /\ deaths < MaxDeaths /\ deaths' = deaths + 1
  BY DEF Die
<1>2. deaths' \in 0..MaxDeaths
  <2>1. deaths \in 0..MaxDeaths /\ MaxDeaths \in Nat
    BY Facts, GrowthConstants
  <2>2. QED
    BY <1>1, <2>1
<1>3. QED
  BY <1>1, <1>2, Facts, ForgetStep

LEMMA MeasureFailsStep == ASSUME IInv, MeasureFails PROVE IInv'
<1>1. pc' = "recorded" /\ UNCHANGED <<opp, tasks, measured, copy, wtask, kind, deaths>>
  BY DEF MeasureFails
<1>2. WorkerInv'
  BY <1>1 DEF WorkerInv
<1>3. QED
  BY <1>1, <1>2, Facts, QueueStep

LEMMA StateAfterType ==
  ASSUME NEW state \in OppState, NEW e
  PROVE  StateAfter(state, e) \in OppState
<1>1. {"MEASURING", "FIRST_VISITOR", "FIRST_LEAD"} \subseteq OppState
  BY DEF OppState, Forward
<1>2. QED
  BY <1>1 DEF StateAfter

\* A check: the record grows by one entry, and the copy by what it warrants.
LEMMA MeasureStep == ASSUME IInv, NEW hit \in BOOLEAN, Measure(hit) PROVE IInv'
<1> DEFINE e == [kind |-> kind, hit |-> hit]
           seen == [Appended(opp, e) EXCEPT !.state = StateAfter(opp.state, e)]
<1>1. /\ pc = "measuring" /\ pc' = "recorded"
      /\ kind = "traffic" => measured < MaxMeasured
      /\ measured' = IF kind = "traffic" THEN measured + 1 ELSE measured
      /\ opp' \in Judgements(seen)
      /\ copy' = MaybePromote(MaybeOptimize(copy, opp', measured'), opp')
      /\ UNCHANGED <<tasks, wtask, kind, deaths>>
  BY DEF Measure
<1>2. kind \in Kind
  BY <1>1 DEF IInv, WorkerInv
<1>3. e \in Entry /\ e.kind = kind
  BY <1>2 DEF Entry
<1> HIDE DEF e
<1>4. PICK a : a = Appended(opp, e)
  OBVIOUS
<1>5. /\ a \in OppRecord /\ Len(a.series) <= SeriesCap
      /\ a.variants = opp.variants /\ a.scaled = opp.scaled /\ a.shared = opp.shared
      /\ Rounds(a) <= Rounds(opp) + 1
      /\ kind # "traffic" => Rounds(a) <= Rounds(opp)
  BY <1>3, <1>4, Facts, AppendedRounds
<1>6. PICK state \in OppState : opp' = [a EXCEPT !.state = state]
  <2>1. StateAfter(opp.state, e) \in OppState /\ "NO_TRACTION" \in OppState
    <3>1. opp.state \in OppState
      BY Facts DEF OppRecord
    <3>2. "NO_TRACTION" \in OppState
      BY DEF OppState, Forward
    <3>3. QED
      BY <3>1, <3>2, StateAfterType
  <2>2. opp' = seen \/ opp' = [seen EXCEPT !.state = "NO_TRACTION"]
    BY <1>1 DEF Judgements
  <2>3. seen = [a EXCEPT !.state = StateAfter(opp.state, e)]
    BY <1>4
  <2>4. [seen EXCEPT !.state = "NO_TRACTION"] = [a EXCEPT !.state = "NO_TRACTION"]
    BY <1>5, <2>3 DEF OppRecord
  <2>5. QED
    BY <2>1, <2>2, <2>3, <2>4
<1>7. /\ opp' \in OppRecord /\ opp'.series = a.series
      /\ opp'.variants = opp.variants /\ opp'.scaled = opp.scaled /\ opp'.shared = opp.shared
  BY <1>5, <1>6 DEF OppRecord
<1>8. Len(opp'.series) <= SeriesCap /\ Rounds(opp') = Rounds(a)
  BY <1>5, <1>7 DEF Rounds
<1>9. Rounds(opp') \in 0..SeriesCap /\ Rounds(opp') \in Nat
  BY <1>7, <1>8, RoundsType, GrowthConstants
<1>10. measured' \in 0..MaxMeasured /\ measured' \in Nat
  <2>1. measured \in 0..MaxMeasured /\ MaxMeasured \in Nat
    BY Facts, GrowthConstants
  <2>2. measured' = measured \/ (measured' = measured + 1 /\ measured < MaxMeasured)
    BY <1>1
  <2>3. QED
    BY <2>1, <2>2
<1>11. Rounds(opp') - Rounds(opp) <= measured' - measured
  <2>1. Rounds(opp) \in Nat /\ measured \in Nat
    BY Facts
  <2>2. CASE kind = "traffic"
    BY <1>1, <1>5, <1>8, <1>9, <2>1, <2>2
  <2>3. CASE kind # "traffic"
    BY <1>1, <1>5, <1>8, <1>9, <2>1, <2>3
  <2>4. QED
    BY <2>2, <2>3
<1>12. /\ Spaced(opp', measured')
       /\ \A f \in File : Sound(f, opp, measured) => Sound(f, opp', measured')
  BY <1>7, <1>9, <1>10, <1>11, Facts, LaterSound
<1>13. Sound(tasks', opp', measured') /\ Sound(copy, opp', measured') /\ tasks' \in File
  BY <1>1, <1>12, Facts
<1>14. copy' \in File /\ Sound(copy', opp', measured')
  <2>1. PICK f : f = MaybeOptimize(copy, opp', measured')
    OBVIOUS
  <2>2. f \in File /\ Sound(f, opp', measured')
    BY <1>7, <1>9, <1>10, <1>12, <1>13, <2>1, Facts, MaybeOptimizeSound
  <2>3. MaybePromote(f, opp') \in File /\ Sound(MaybePromote(f, opp'), opp', measured')
    BY <1>7, <2>2, MaybePromoteSound
  <2>4. QED
    BY <1>1, <2>1, <2>3
<1>15. WorkerInv'
  BY <1>1 DEF WorkerInv
<1>16. /\ wtask' \in Task \cup {NoneTask} /\ kind' \in Kind \cup {NoKind}
       /\ deaths' \in 0..MaxDeaths
  BY <1>1, Facts
<1>17. QED
  BY <1>1, <1>7, <1>8, <1>10, <1>12, <1>13, <1>14, <1>15, <1>16, Established

-----------------------------------------------------------------------------
(***************************************************************************)
(* A task runs.                                                            *)
(***************************************************************************)
LEMMA RanStep ==
  ASSUME IInv, NEW result \in File, Ran(result),
         opp' \in OppRecord, Len(opp'.series) <= SeriesCap, Spaced(opp', measured),
         Sound(tasks, opp', measured), Sound(result, opp', measured)
  PROVE  IInv'
<1>1. /\ pc' = "recorded" /\ copy' = result
      /\ UNCHANGED <<tasks, measured, wtask, kind, deaths>>
  BY DEF Ran
<1>2. WorkerInv'
  BY <1>1 DEF WorkerInv
<1>3. QED
  BY <1>1, <1>2, Facts, Established

LEMMA Running ==
  ASSUME IInv, NEW result, Ran(result)
  PROVE  /\ copy = tasks /\ wtask \in Task /\ tasks.q[wtask].status = "RUNNING"
BY DEF IInv, WorkerInv, Ran

\* The record changes in nothing that the rounds and the variants depend on.
LEMMA SameVariants ==
  ASSUME NEW o, NEW r, NEW m, r.series = o.series, r.variants = o.variants, Spaced(o, m)
  PROVE  Spaced(r, m) /\ \A f : Told(f, o, m) => Told(f, r, m)
<1>1. Rounds(r) = Rounds(o)
  BY DEF Rounds
<1>2. QED
  BY <1>1 DEF Spaced, Since, Told, Fits

\* A task has succeeded whose result is on record.
LEMMA DoneKeeps ==
  ASSUME NEW f \in File, NEW t \in Task, NEW o \in OppRecord, NEW m, Sound(f, o, m),
         \A n \in Variant : /\ t = OptimizeTask(n) => n <= Len(o.variants)
                            /\ t = ScaleTask(n) => n \in o.scaled,
         NEW g, g = [f EXCEPT !.q = MarkSucceeded(f.q, t)]
  PROVE  /\ g \in File /\ Recorded(g, o) /\ Bounded(g, o) /\ Told(g, o, m)
         /\ t # ShareTask(Web) \/ Web \notin o.shared => FannedOut(g, o)
<1>1. f.q \in Queue
  BY DEF File
<1>2. /\ MarkSucceeded(f.q, t) \in Queue
      /\ MarkSucceeded(f.q, t)[t].status = "SUCCEEDED"
      /\ \A u \in Task : u # t => MarkSucceeded(f.q, t)[u] = f.q[u]
  BY <1>1, SucceededTask
<1>3. g \in File /\ g.q = MarkSucceeded(f.q, t) /\ g.signal = f.signal
  BY <1>2 DEF File
<1>4. \A u \in Task : g.q[u] = f.q[u] \/ (u = t /\ g.q[u].status = "SUCCEEDED")
  BY <1>2, <1>3
<1>5. /\ \A n \in Variant : /\ \/ g.q[OptimizeTask(n)] = f.q[OptimizeTask(n)]
                               \/ OptimizeTask(n) = t /\ g.q[OptimizeTask(n)].status = "SUCCEEDED"
                            /\ \/ g.q[ScaleTask(n)] = f.q[ScaleTask(n)]
                               \/ ScaleTask(n) = t /\ g.q[ScaleTask(n)].status = "SUCCEEDED"
      /\ \A c \in Channel : \/ g.q[ShareTask(c)] = f.q[ShareTask(c)]
                            \/ ShareTask(c) = t /\ g.q[ShareTask(c)].status = "SUCCEEDED"
  BY <1>4, Numbering
<1>6. Recorded(g, o)
  BY <1>5 DEF Sound, Recorded
<1>7. Bounded(g, o)
  <2>1. LiveScales(g.q) \subseteq LiveScales(f.q)
    BY <1>5 DEF LiveScales, Live
  <2>2. o.scaled \subseteq Variant
    BY DEF OppRecord
  <2>3. QED
    BY <2>1, <2>2, FewerBounded DEF Sound
<1>8. Told(g, o, m)
  BY <1>3, <1>5 DEF Sound, Told, Live
<1>9. ASSUME t # ShareTask(Web) \/ Web \notin o.shared PROVE FannedOut(g, o)
  BY <1>5, <1>9, Numbering DEF Sound, FannedOut
<1>10. QED
  BY <1>3, <1>6, <1>7, <1>8, <1>9

\* The fan-out gives every channel its task.
LEMMA FanOutSound ==
  ASSUME NEW g \in File, NEW o \in OppRecord, NEW m,
         Recorded(g, o), Bounded(g, o), Told(g, o, m),
         NEW c \in Channel, c # Web => FannedOut(g, o),
         NEW h, h = [g EXCEPT !.q = FanOut(g.q, c)]
  PROVE  h \in File /\ Sound(h, o, m)
<1>1. g.q \in Queue /\ DOMAIN g.q = Task
  BY DEF File, Queue
<1>2. ASSUME NEW t \in Task
      PROVE  /\ FanOut(g.q, c)[t] \in TaskRecord
             /\ (\A d \in Channel : t # ShareTask(d)) => FanOut(g.q, c)[t] = g.q[t]
             /\ c = Web /\ (\E d \in Channel : t = ShareTask(d)) =>
                   FanOut(g.q, c)[t].status # "ABSENT"
             /\ c # Web => FanOut(g.q, c)[t] = g.q[t]
  <2>1. Create(g.q, t) \in Queue /\ Create(g.q, t)[t].status # "ABSENT"
    BY <1>1, CreatedTask
  <2>2. Create(g.q, t)[t] \in TaskRecord /\ g.q[t] \in TaskRecord
    BY <1>1, <2>1, RecordOfTask
  <2>3. FanOut(g.q, c)[t] = IF c = Web /\ t \in {ShareTask(d) : d \in Channel}
                            THEN Create(g.q, t)[t] ELSE g.q[t]
    BY DEF FanOut
  <2>4. QED
    BY <2>1, <2>2, <2>3
<1>3. FanOut(g.q, c) \in Queue
  BY <1>2 DEF FanOut, Queue
<1>4. h \in File /\ h.q = FanOut(g.q, c) /\ h.signal = g.signal
  BY <1>3 DEF File
<1>5. \A n \in Variant : /\ h.q[OptimizeTask(n)] = g.q[OptimizeTask(n)]
                         /\ h.q[ScaleTask(n)] = g.q[ScaleTask(n)]
  BY <1>2, <1>4, Numbering, Distinct
<1>6. Recorded(h, o) /\ Told(h, o, m)
  BY <1>4, <1>5 DEF Recorded, Told
<1>7. Bounded(h, o)
  <2>1. LiveScales(h.q) = LiveScales(g.q)
    BY <1>5 DEF LiveScales
  <2>2. QED
    BY <2>1 DEF Bounded
<1>8. FannedOut(h, o)
  <2>1. CASE c = Web
    BY <1>2, <1>4, <2>1, Numbering DEF FannedOut
  <2>2. CASE c # Web
    BY <1>2, <1>4, <2>2, Numbering DEF FannedOut
  <2>3. QED
    BY <2>1, <2>2
<1>9. QED
  BY <1>4, <1>6, <1>7, <1>8 DEF Sound

\* The variant that was asked for becomes the next one on record.
LEMMA NewVariant ==
  ASSUME IInv, NEW n \in Variant, wtask = OptimizeTask(n), Ran(Done),
         n \notin {opp.variants[i].id : i \in DOMAIN opp.variants},
         opp' = RecordVariant(opp, n)
  PROVE  /\ opp' \in OppRecord /\ opp'.series = opp.series
         /\ opp'.scaled = opp.scaled /\ opp'.shared = opp.shared
         /\ Len(opp'.variants) = Len(opp.variants) + 1 /\ n = Len(opp.variants) + 1
         /\ Spaced(opp', measured)
<1> DEFINE v == opp.variants
           x == [id |-> n, rounds |-> copy.signal[n].rounds, at |-> copy.signal[n].at]
           w == Append(v, x)
<1>1. /\ v \in Seq(Made) /\ DOMAIN v = 1..Len(v) /\ Len(v) \in Nat
      /\ opp \in OppRecord
  BY Facts, VariantsOf DEF OppRecord
<1>2. copy.signal[n] \in Signal
  BY Facts DEF File
<1>3. /\ x \in Made /\ x.id = n
      /\ x.rounds = copy.signal[n].rounds /\ x.at = copy.signal[n].at
  BY <1>2 DEF Made, Signal
<1>4. Fits(copy.signal[n], n, opp, measured)
  <2>1. \A i \in 1..Len(v) : v[i].id = i
    BY <1>1, Facts DEF Spaced
  <2>2. n \in Nat /\ n >= 1 /\ n \notin 1..Len(v)
    BY <1>1, <2>1 DEF Variant
  <2>3. n > Len(v)
    BY <1>1, <2>2
  <2>4. copy.q[OptimizeTask(n)].status \in Live
    BY Running DEF Live
  <2>5. QED
    BY <2>3, <2>4, Facts DEF Sound, Told
<1>5. opp' = [opp EXCEPT !.variants = w]
  BY DEF RecordVariant
<1> HIDE DEF x
<1>6. /\ w \in Seq(Made) /\ Len(w) = Len(v) + 1
      /\ \A i \in 1..Len(v) : w[i] = v[i]
      /\ w[Len(v) + 1] = x
  BY <1>1, <1>3, AppendProperties
<1>7. DOMAIN w = 1..(Len(v) + 1)
  BY <1>6, LenProperties
<1> HIDE DEF w
<1>8. /\ opp' \in OppRecord /\ opp'.series = opp.series /\ opp'.variants = w
      /\ opp'.scaled = opp.scaled /\ opp'.shared = opp.shared
  BY <1>1, <1>5, <1>6 DEF OppRecord
<1> HIDE DEF v
<1>9. /\ n = Len(v) + 1 /\ x.at >= MinRounds
      /\ Since(x.rounds, x.at, opp, measured)
      /\ \A j \in 1..Len(v) : x.at - v[j].at >= Cooldown
  BY <1>1, <1>3, <1>4 DEF Fits, v
<1>10. /\ Rounds(opp) <= measured
       /\ \A i \in 1..Len(v) : /\ v[i].at >= MinRounds
                               /\ \A j \in 1..(i - 1) : v[i].at - v[j].at >= Cooldown
                               /\ v[i].id = i
                               /\ Since(v[i].rounds, v[i].at, opp, measured)
  BY <1>1, Facts DEF Spaced, Apart, v
<1>11. Rounds(opp') = Rounds(opp)
  BY <1>8 DEF Rounds
<1>12. ASSUME NEW i \in DOMAIN w
       PROVE  /\ w[i].at >= MinRounds
              /\ \A j \in 1..(i - 1) : w[i].at - w[j].at >= Cooldown
              /\ w[i].id = i
              /\ Since(w[i].rounds, w[i].at, opp', measured)
  <2>1. i \in 1..(Len(v) + 1)
    BY <1>7
  <2>2. CASE i = Len(v) + 1
    <3>1. w[i] = x /\ \A j \in 1..(i - 1) : j \in 1..Len(v) /\ w[j] = v[j]
      BY <1>1, <1>6, <2>2
    <3>2. QED
      BY <1>3, <1>9, <1>11, <2>2, <3>1 DEF Since
  <2>3. CASE i # Len(v) + 1
    <3>1. i \in 1..Len(v)
      BY <1>1, <2>1, <2>3
    <3>2. w[i] = v[i] /\ \A j \in 1..(i - 1) : w[j] = v[j]
      BY <1>1, <1>6, <3>1
    <3>3. QED
      BY <1>10, <1>11, <3>1, <3>2 DEF Since
  <2>4. QED
    BY <2>2, <2>3
<1>13. Spaced(opp', measured)
  BY <1>8, <1>10, <1>11, <1>12 DEF Spaced, Apart
<1>14. QED
  BY <1>6, <1>8, <1>9, <1>13 DEF v

LEMMA OptimizeStep == ASSUME IInv, NEW n \in Variant, Optimize(n) PROVE IInv'
<1>1. wtask = OptimizeTask(n) /\ Ran(Done) /\ opp' = RecordVariant(opp, n)
  BY DEF Optimize
<1>2. /\ copy = tasks /\ wtask \in Task
      /\ opp \in OppRecord /\ copy \in File
      /\ Done = [copy EXCEPT !.q = MarkSucceeded(copy.q, wtask)]
  BY <1>1, Running, Facts DEF Done
<1>3. /\ opp' \in OppRecord /\ Len(opp'.series) <= SeriesCap
      /\ Spaced(opp', measured) /\ Sound(tasks, opp', measured)
      /\ n <= Len(opp'.variants)
  <2>1. CASE n \in {opp.variants[i].id : i \in DOMAIN opp.variants}
    <3>1. opp' = opp
      BY <1>1, <2>1 DEF RecordVariant
    <3>2. n <= Len(opp.variants)
      <4>1. \A i \in 1..Len(opp.variants) : opp.variants[i].id = i
        BY Facts, VariantsOf DEF Spaced
      <4>2. n \in 1..Len(opp.variants) /\ Len(opp.variants) \in Nat
        BY <2>1, <4>1, Facts, VariantsOf
      <4>3. QED
        BY <4>2
    <3>3. QED
      BY <3>1, <3>2, Facts
  <2>2. CASE n \notin {opp.variants[i].id : i \in DOMAIN opp.variants}
    <3>1. /\ opp' \in OppRecord /\ opp'.series = opp.series
          /\ opp'.scaled = opp.scaled /\ opp'.shared = opp.shared
          /\ Len(opp'.variants) = Len(opp.variants) + 1 /\ n = Len(opp.variants) + 1
          /\ Spaced(opp', measured)
      BY <1>1, <2>2, NewVariant
    <3>2. Len(opp.variants) \in Nat
      BY Facts, VariantsOf
    <3>3. /\ Recorded(tasks, opp) /\ Bounded(tasks, opp) /\ FannedOut(tasks, opp)
          /\ Told(tasks, opp, measured)
      BY Facts DEF Sound
    <3>4. Recorded(tasks, opp')
      <4>1. \A k \in Variant : k <= Len(opp.variants) => k <= Len(opp'.variants)
        BY <3>1, <3>2 DEF Variant
      <4>2. QED
        BY <3>1, <3>3, <4>1 DEF Recorded
    <3>5. Bounded(tasks, opp') /\ FannedOut(tasks, opp')
      BY <3>1, <3>3 DEF Bounded, FannedOut
    <3>6. Told(tasks, opp', measured)
      <4>1. ASSUME NEW k \in Variant, tasks.q[OptimizeTask(k)].status \in Live
            PROVE  ~(k > Len(opp'.variants))
        <5>1. k > Len(opp.variants) => k = Len(opp.variants) + 1
          BY <3>3, <4>1 DEF Told, Fits
        <5>2. QED
          BY <3>1, <3>2, <5>1 DEF Variant
      <4>2. QED
        BY <4>1 DEF Told
    <3>7. n <= Len(opp'.variants)
      BY <3>1, <3>2
    <3>8. QED
      BY <3>1, <3>4, <3>5, <3>6, <3>7, Facts DEF Sound
  <2>3. QED
    BY <2>1, <2>2
<1>4. Done \in File /\ Sound(Done, opp', measured)
  <2>1. /\ \A k \in Variant : /\ wtask = OptimizeTask(k) => k <= Len(opp'.variants)
                              /\ wtask = ScaleTask(k) => k \in opp'.scaled
        /\ wtask # ShareTask(Web)
    BY <1>1, <1>3, Distinct, Numbering
  <2>2. /\ Done \in File /\ Recorded(Done, opp') /\ Bounded(Done, opp')
        /\ Told(Done, opp', measured) /\ FannedOut(Done, opp')
    BY <1>2, <1>3, <2>1, DoneKeeps
  <2>3. QED
    BY <2>2 DEF Sound
<1>5. QED
  BY <1>1, <1>3, <1>4, RanStep

LEMMA ScaleUpStep == ASSUME IInv, NEW n \in Variant, ScaleUp(n) PROVE IInv'
<1>1. /\ wtask = ScaleTask(n) /\ Ran(Done)
      /\ opp' = [opp EXCEPT !.scaled = opp.scaled \cup {n}]
  BY DEF ScaleUp
<1>2. /\ copy = tasks /\ wtask \in Task /\ tasks.q[wtask].status = "RUNNING"
      /\ opp \in OppRecord /\ copy \in File
      /\ Done = [copy EXCEPT !.q = MarkSucceeded(copy.q, wtask)]
  BY <1>1, Running, Facts DEF Done
<1>3. /\ opp' \in OppRecord /\ opp'.series = opp.series /\ opp'.variants = opp.variants
      /\ opp'.shared = opp.shared /\ opp'.scaled = opp.scaled \cup {n}
  BY <1>1, <1>2 DEF OppRecord
<1>4. Spaced(opp', measured) /\ \A f : Told(f, opp, measured) => Told(f, opp', measured)
  BY <1>3, Facts, SameVariants
<1>5. Sound(tasks, opp', measured)
  <2>1. Sound(tasks, opp, measured)
    BY Facts
  <2>2. Recorded(tasks, opp') /\ FannedOut(tasks, opp') /\ Told(tasks, opp', measured)
    BY <1>3, <1>4, <2>1 DEF Sound, Recorded, FannedOut
  <2>3. n \in LiveScales(tasks.q)
    BY <1>1, <1>2 DEF LiveScales, Live
  <2>4. Bounded(tasks, opp')
    BY <1>3, <2>1, <2>3, Facts, FewerBounded DEF Sound
  <2>5. QED
    BY <2>2, <2>4 DEF Sound
<1>6. Done \in File /\ Sound(Done, opp', measured)
  <2>1. /\ \A k \in Variant : /\ wtask = OptimizeTask(k) => k <= Len(opp'.variants)
                              /\ wtask = ScaleTask(k) => k \in opp'.scaled
        /\ wtask # ShareTask(Web)
    BY <1>1, <1>3, Distinct, Numbering
  <2>2. /\ Done \in File /\ Recorded(Done, opp') /\ Bounded(Done, opp')
        /\ Told(Done, opp', measured) /\ FannedOut(Done, opp')
    BY <1>2, <1>3, <1>5, <2>1, DoneKeeps
  <2>3. QED
    BY <2>2 DEF Sound
<1>7. QED
  BY <1>1, <1>3, <1>4, <1>5, <1>6, Facts, RanStep

\* The task waits, or fails: the record stays, and no task becomes live.
LEMMA WaitStep ==
  ASSUME IInv, NEW r \in Queue, Waits(copy.q, r), Ran([copy EXCEPT !.q = r]), UNCHANGED opp
  PROVE  IInv'
<1>1. [copy EXCEPT !.q = r] \in File /\ Sound([copy EXCEPT !.q = r], opp, measured)
  BY Facts, WithQueue
<1>2. QED
  BY <1>1, Facts, RanStep

LEMMA AsksForApprovalStep ==
  ASSUME IInv, NEW n \in Variant, AsksForApproval(n) PROVE IInv'
<1>1. Ran([copy EXCEPT !.q = BlockForApproval(copy.q, wtask)]) /\ UNCHANGED opp
  BY DEF AsksForApproval
<1>2. wtask \in Task /\ copy.q[wtask].status = "RUNNING"
  BY <1>1, Running
<1>3. BlockForApproval(copy.q, wtask) \in Queue /\ Waits(copy.q, BlockForApproval(copy.q, wtask))
  BY <1>2, Facts, BlockWaits
<1>4. QED
  BY <1>1, <1>3, WaitStep

LEMMA TaskFailsStep ==
  ASSUME IInv, NEW retryable \in BOOLEAN, TaskFails(retryable) PROVE IInv'
<1>1. Ran([copy EXCEPT !.q = MarkFailed(copy.q, wtask, retryable)]) /\ UNCHANGED opp
  BY DEF TaskFails
<1>2. wtask \in Task /\ copy.q[wtask].status = "RUNNING"
  BY <1>1, Running
<1>3. /\ MarkFailed(copy.q, wtask, retryable) \in Queue
      /\ Waits(copy.q, MarkFailed(copy.q, wtask, retryable))
  BY <1>2, Facts, FailedWaits
<1>4. QED
  BY <1>1, <1>3, WaitStep

LEMMA ShareStep == ASSUME IInv, NEW c \in Channel, Share(c) PROVE IInv'
<1> DEFINE h == [Done EXCEPT !.q = FanOut(Done.q, c)]
<1>1. /\ wtask = ShareTask(c) /\ Ran(h)
      /\ opp' = [opp EXCEPT !.shared = opp.shared \cup {c}, !.state = StateShared(opp, c)]
  BY DEF Share
<1>2. /\ copy = tasks /\ wtask \in Task /\ tasks.q[wtask].status = "RUNNING"
      /\ opp \in OppRecord /\ copy \in File
      /\ Done = [copy EXCEPT !.q = MarkSucceeded(copy.q, wtask)]
  BY <1>1, Running, Facts DEF Done
<1>3. /\ opp' \in OppRecord /\ opp'.series = opp.series /\ opp'.variants = opp.variants
      /\ opp'.scaled = opp.scaled /\ opp'.shared = opp.shared \cup {c}
  <2>1. StateShared(opp, c) \in OppState
    <3>1. opp.state \in OppState /\ "ACQUIRING_TRAFFIC" \in OppState
      BY <1>2 DEF OppRecord, OppState, Forward
    <3>2. QED
      BY <3>1 DEF StateShared
  <2>2. QED
    BY <1>1, <1>2, <2>1 DEF OppRecord
<1>4. Spaced(opp', measured) /\ \A f : Told(f, opp, measured) => Told(f, opp', measured)
  BY <1>3, Facts, SameVariants
<1>5. Sound(tasks, opp', measured)
  <2>1. Sound(tasks, opp, measured)
    BY Facts
  <2>2. Recorded(tasks, opp') /\ Bounded(tasks, opp') /\ Told(tasks, opp', measured)
    BY <1>3, <1>4, <2>1 DEF Sound, Recorded, Bounded
  <2>3. FannedOut(tasks, opp')
    <3>1. c = Web => tasks.q[ShareTask(Web)].status # "SUCCEEDED"
      BY <1>1, <1>2
    <3>2. QED
      BY <1>3, <2>1, <3>1 DEF Sound, FannedOut
  <2>4. QED
    BY <2>2, <2>3 DEF Sound
<1>6. /\ Done \in File /\ Recorded(Done, opp') /\ Bounded(Done, opp')
      /\ Told(Done, opp', measured) /\ (c # Web => FannedOut(Done, opp'))
  <2>1. /\ \A k \in Variant : /\ wtask = OptimizeTask(k) => k <= Len(opp'.variants)
                              /\ wtask = ScaleTask(k) => k \in opp'.scaled
        /\ c # Web => wtask # ShareTask(Web)
    BY <1>1, Distinct, Numbering
  <2>2. /\ Done \in File /\ Recorded(Done, opp') /\ Bounded(Done, opp')
        /\ Told(Done, opp', measured)
        /\ wtask # ShareTask(Web) \/ Web \notin opp'.shared => FannedOut(Done, opp')
    BY <1>2, <1>3, <1>5, <2>1, DoneKeeps
  <2>3. QED
    BY <2>1, <2>2
<1>7. h \in File /\ Sound(h, opp', measured)
  BY <1>3, <1>6, FanOutSound
<1> HIDE DEF h
<1>8. QED
  BY <1>1, <1>3, <1>4, <1>5, <1>7, Facts, RanStep

LEMMA ShareNothingStep == ASSUME IInv, NEW c \in Channel, ShareNothing(c) PROVE IInv'
<1>1. wtask = ShareTask(c) /\ c \notin opp.shared /\ Ran(Done) /\ UNCHANGED opp
  BY DEF ShareNothing
<1>2. /\ copy = tasks /\ wtask \in Task
      /\ opp \in OppRecord /\ copy \in File /\ Sound(copy, opp, measured)
      /\ Done = [copy EXCEPT !.q = MarkSucceeded(copy.q, wtask)]
  BY <1>1, Running, Facts DEF Done
<1>3. /\ \A k \in Variant : /\ wtask = OptimizeTask(k) => k <= Len(opp.variants)
                            /\ wtask = ScaleTask(k) => k \in opp.scaled
      /\ wtask # ShareTask(Web) \/ Web \notin opp.shared
  BY <1>1, Distinct, Numbering
<1>4. /\ Done \in File /\ Recorded(Done, opp) /\ Bounded(Done, opp)
      /\ Told(Done, opp, measured) /\ FannedOut(Done, opp)
  BY <1>2, <1>3, DoneKeeps
<1>5. Done \in File /\ Sound(Done, opp, measured)
  BY <1>4 DEF Sound
<1>6. QED
  BY <1>1, <1>5, Facts, RanStep

-----------------------------------------------------------------------------
LEMMA InitIInv == ASSUME Init PROVE IInv
<1> DEFINE first == NewTask(ShareTask(Web), {}, 5, FALSE, 0)
           q0 == [EmptyQueue EXCEPT ![ShareTask(Web)] = first]
           due0 == [k \in Kind |-> "first"]
<1>1. /\ opp = JustLive /\ tasks = [EmptyFile EXCEPT !.q = q0, !.due = due0]
      /\ measured = 0 /\ pc = "idle" /\ copy = EmptyFile /\ wtask = NoneTask
      /\ kind = NoKind /\ deaths = 0
  BY DEF Init, EmptyFile
<1>2. /\ opp \in OppRecord /\ opp.series = <<>> /\ opp.variants = <<>>
      /\ opp.scaled = {} /\ opp.shared = {}
  <2>1. "LIVE" \in OppState
    BY DEF OppState, Forward
  <2>2. <<>> \in Seq(Entry) /\ <<>> \in Seq(Made)
    BY EmptySeq
  <2>3. QED
    BY <1>1, <2>1, <2>2 DEF JustLive, OppRecord
<1>3. /\ Len(opp.series) = 0 /\ Len(opp.variants) = 0
      /\ DOMAIN opp.series = {} /\ DOMAIN opp.variants = {}
  BY <1>2
<1>4. /\ SeriesCap \in Nat /\ MaxScalings \in Nat /\ MaxMeasured \in Nat /\ MaxDeaths \in Nat
  BY GrowthConstants
<1>5. Spaced(opp, measured)
  <2>1. {i \in DOMAIN opp.series : opp.series[i].kind = "traffic"} = {}
    BY <1>3
  <2>2. Rounds(opp) = 0
    BY <2>1, FS_EmptySet DEF Rounds
  <2>3. QED
    BY <1>1, <1>3, <2>2 DEF Spaced, Apart
<1>6. ShareTask(Web) \in Task /\ EmptyQueue \in Queue
  BY Numbering, TaskConstants
     DEF EmptyQueue, Queue, NoTask, TaskRecord, AttemptCount, Status, Live, Terminal
<1>7. first \in TaskRecord /\ first.status = "PENDING"
  <2>1. ShareTask(Web) \in Key
    BY <1>6, GrowthConstants DEF Task
  <2>2. NoTask \in TaskRecord /\ 0 \in 0..MaxDelay
    BY TaskConstants DEF NoTask, TaskRecord, AttemptCount, Status, Live, Terminal
  <2>3. QED
    BY <2>1, <2>2 DEF NewTask, TaskRecord, Status, Live, Terminal
<1> HIDE DEF first
<1>8. /\ q0 \in Queue /\ q0[ShareTask(Web)].status = "PENDING"
      /\ \A t \in Task : t # ShareTask(Web) => q0[t].status = "ABSENT"
  <2>1. \A t \in Task : EmptyQueue[t].status = "ABSENT"
    BY DEF EmptyQueue, NoTask
  <2>2. /\ q0 \in Queue /\ q0[ShareTask(Web)] = first
        /\ \A t \in Task : t # ShareTask(Web) => q0[t] = EmptyQueue[t]
    BY <1>6, <1>7, PutWaits
  <2>3. QED
    BY <1>7, <2>1, <2>2
<1> HIDE DEF q0
<1>9. EmptyFile \in File
  <2>1. NoSignal \in Signal
    BY <1>4 DEF NoSignal, Signal
  <2>2. QED
    BY <1>6, <2>1 DEF EmptyFile, File, Due
<1>10. tasks \in File /\ tasks.q = q0 /\ tasks.signal = EmptyFile.signal
  BY <1>1, <1>8, <1>9 DEF File, Due
<1>11. /\ \A n \in Variant : /\ tasks.q[OptimizeTask(n)].status = "ABSENT"
                             /\ tasks.q[ScaleTask(n)].status = "ABSENT"
       /\ tasks.q[ShareTask(Web)].status = "PENDING"
  BY <1>8, <1>10, Numbering, Distinct
<1>12. Bounded(tasks, opp)
  <2>1. opp.scaled \cup LiveScales(tasks.q) = {}
    BY <1>2, <1>11 DEF LiveScales, Live
  <2>2. Cardinality({}) <= MaxScalings
    BY <1>4, FS_EmptySet
  <2>3. QED
    BY <2>1, <2>2 DEF Bounded
<1>13. Sound(tasks, opp, measured)
  BY <1>11, <1>12 DEF Sound, Recorded, FannedOut, Told, Live
<1>14. Sound(copy, opp, measured)
  BY <1>1, <1>2, <1>12, EmptySound
<1>15. WorkerInv
  BY <1>1 DEF WorkerInv
<1>16. TypeOK
  BY <1>1, <1>2, <1>3, <1>4, <1>9, <1>10 DEF TypeOK, OppRecord, Made
<1>17. QED
  BY <1>2, <1>3, <1>4, <1>5, <1>13, <1>14, <1>15, <1>16 DEF IInv, RecordType

LEMMA StepIInv == ASSUME IInv, [Next]_vars PROVE IInv'
<1>1. CASE NothingReady
  BY <1>1, NothingReadyStep
<1>2. CASE ClaimReady
  BY <1>2, ClaimReadyStep
<1>3. CASE SaveQueue
  BY <1>3, SaveQueueStep
<1>4. CASE Die
  BY <1>4, DieStep
<1>5. ASSUME NEW k \in Kind, ClaimCheck(k) PROVE IInv'
  BY <1>5, ClaimCheckStep
<1>6. ASSUME NEW hit \in BOOLEAN, Measure(hit) PROVE IInv'
  BY <1>6, MeasureStep
<1>7. CASE MeasureFails
  BY <1>7, MeasureFailsStep
<1>8. CASE Run
  <2>1. ASSUME NEW n \in Variant, Optimize(n) \/ ScaleUp(n) \/ AsksForApproval(n) PROVE IInv'
    BY <2>1, OptimizeStep, ScaleUpStep, AsksForApprovalStep
  <2>2. ASSUME NEW c \in Channel, Share(c) \/ ShareNothing(c) PROVE IInv'
    BY <2>2, ShareStep, ShareNothingStep
  <2>3. ASSUME NEW retryable \in BOOLEAN, TaskFails(retryable) PROVE IInv'
    BY <2>3, TaskFailsStep
  <2>4. QED
    BY <1>8, <2>1, <2>2, <2>3 DEF Run
<1>9. ASSUME NEW t \in Scales, Release(t) PROVE IInv'
  BY <1>9, ReleaseStep
<1>10. CASE UNCHANGED vars
  <2>1. UNCHANGED <<opp, tasks, measured, pc, copy, wtask, kind, deaths>>
    BY <1>10 DEF vars
  <2>2. WorkerInv'
    BY <2>1 DEF IInv, WorkerInv
  <2>3. QED
    BY <2>1, <2>2, Facts, QueueStep
<1>11. QED
  BY <1>1, <1>2, <1>3, <1>4, <1>5, <1>6, <1>7, <1>8, <1>9, <1>10 DEF Next

-----------------------------------------------------------------------------
\* What the file and the copy of the worker say fits the record, and the
\* series never counts more than was measured, in every reachable state.
THEOREM GrowthStaysSound == Spec => []IInv
BY InitIInv, StepIInv, PTL DEF Spec

\* Files, copy and program counter are well formed.
THEOREM TypeCorrect == Spec => []TypeOK
<1>1. IInv => TypeOK
  BY DEF IInv
<1>2. QED
  BY <1>1, GrowthStaysSound, PTL

\* optimization.py:8: MinRounds measurements before the first variant and
\* Cooldown of them between any two, although the series is capped and the
\* number a variant was made at travels through a task.
THEOREM VariantsSpacedAlways == Spec => []VariantsSpaced
<1>1. IInv => VariantsSpaced
  BY DEF IInv, Spaced, Apart, VariantsSpaced
<1>2. QED
  BY <1>1, GrowthStaysSound, PTL

\* An OPTIMIZE or SCALE that succeeded is on record, wherever the worker died.
THEOREM SucceededIsRecordedAlways == Spec => []SucceededIsRecorded
<1>1. ASSUME IInv PROVE SucceededIsRecorded
  <2>1. Recorded(tasks, opp) /\ \A i \in 1..Len(opp.variants) : opp.variants[i].id = i
    BY <1>1, Facts, VariantsOf DEF Sound, Spaced
  <2>2. ASSUME NEW n \in Variant, n <= Len(opp.variants)
        PROVE  \E i \in DOMAIN opp.variants : opp.variants[i].id = n
    <3>1. n \in 1..Len(opp.variants) /\ DOMAIN opp.variants = 1..Len(opp.variants)
      BY <1>1, <2>2, Facts, VariantsOf DEF Variant
    <3>2. QED
      BY <2>1, <3>1
  <2>3. QED
    BY <2>1, <2>2 DEF Recorded, SucceededIsRecorded
<1>2. QED
  BY <1>1, GrowthStaysSound, PTL

\* scaling.py:13: what is scaled and what is under way never exceed
\* max_scalings, however long a SCALE waits for its release.
THEOREM ScalingsBoundedAlways == Spec => []ScalingsBounded
<1>1. IInv => ScalingsBounded
  BY DEF IInv, Sound, Bounded, LiveScales, ScalingsBounded
<1>2. QED
  BY <1>1, GrowthStaysSound, PTL

\* worker.py:733: once the first distribution has succeeded every channel has
\* its task, also when it had been recorded by an attempt that died.
THEOREM FanOutCompleteAlways == Spec => []FanOutComplete
<1>1. IInv => FanOutComplete
  BY DEF IInv, Sound, FannedOut, FanOutComplete
<1>2. QED
  BY <1>1, GrowthStaysSound, PTL
=============================================================================
