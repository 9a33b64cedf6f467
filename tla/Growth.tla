------------------------------- MODULE Growth -------------------------------
(***************************************************************************)
(* What the worker does with an opportunity that is LIVE, beside selling:  *)
(* DISTRIBUTE and its fan-out to further channels, the checks that append  *)
(* to the series of measurements, and the OPTIMIZE and SCALE tasks that a  *)
(* check creates on the strength of that series (worker.py, optimization.py*)
(* scaling.py).  What was done is recorded in opportunities.json, what is  *)
(* to be done in tasks.json; the worker may die between the two saves.     *)
(*                                                                         *)
(* One opportunity without a sale, one worker at a time.  A task's id      *)
(* stands for its idempotency key: a task that has failed for good makes   *)
(* room for the next with its key.  A check is present by its being due;   *)
(* a measured entry is a hit or not: enough visitors (or leads) or none.   *)
(***************************************************************************)
EXTENDS ExecutionTasks, OpportunityState, Sequences, FiniteSets

CONSTANTS
    NumChannels,    \* channels; 1 is owned_web
    Drafts,         \* those for which a draft is written, never published
    MinRounds,      \* OptimizationPolicy.min_measurement_rounds
    Cooldown,       \* OptimizationPolicy.cooldown_rounds
    MaxVariants,    \* OptimizationPolicy.max_variants
    MinCycles,      \* PromotionPolicy.min_measurement_cycles
    MaxScalings,    \* PromotionPolicy.max_scalings
    MinSeries,      \* TractionPolicy.min_cycles
    SeriesCap,      \* _MEASURE_SERIES_CAP
    MaxDeaths,      \* bound of the model: deaths of the worker
    MaxMeasured     \* bound of the model: measurements of traffic

ASSUME GrowthConstants ==
    /\ {NumChannels, MinRounds, Cooldown, MaxVariants, MinCycles, MinSeries,
        SeriesCap} \subseteq Nat \ {0}
    /\ {MaxScalings, MaxMeasured, MaxDeaths} \subseteq Nat
    /\ Drafts \subseteq 2..NumChannels
    /\ MaxTasks = 2 * MaxVariants + NumChannels /\ Key = 1..MaxTasks

VARIABLES
    opp,        \* the record: state and execution namespace
    tasks,      \* tasks.json: the queue, what each OPTIMIZE was told, the checks due
    measured,   \* the measurements of traffic so far (not kept anywhere)
    pc, copy,   \* the worker: its next step and its copy of tasks.json
    wtask,      \* the task it has claimed
    kind,       \* or the kind of measurement
    deaths      \* how often it has died

vars == <<opp, tasks, measured, pc, copy, wtask, kind, deaths>>

Kind == {"traffic", "leads"}
Variant == 1..MaxVariants
Channel == 1..NumChannels
OptimizeTask(n) == n
ScaleTask(n) == MaxVariants + n
ShareTask(c) == 2 * MaxVariants + c
Optimizes == {OptimizeTask(n) : n \in Variant}
Scales == {ScaleTask(n) : n \in Variant}
Web == 1
Urgency(t) == IF t \in Optimizes \cup Scales THEN 4 ELSE 3

\* rounds_at_creation, and the measurements there really were (not kept).
Signal == [rounds : 0..SeriesCap, at : 0..MaxMeasured]
NoSignal == [rounds |-> 0, at |-> 0]
Entry == [kind : Kind, hit : BOOLEAN]

\* The check of a kind: the one of the chain, a recurring one, none.
Due == {"first", "again", "never"}

NoneTask == 0
NoKind == "none"
File == [q : Queue, signal : [Variant -> Signal], due : [Kind -> Due]]
EmptyFile == [q |-> EmptyQueue, signal |-> [n \in Variant |-> NoSignal], due |-> [k \in Kind |-> "never"]]

JustLive == [state |-> "LIVE", series |-> <<>>, variants |-> <<>>, scaled |-> {}, shared |-> {}]

Init ==
    /\ opp = JustLive
    /\ tasks = [EmptyFile EXCEPT !.q[ShareTask(Web)] = NewTask(ShareTask(Web), {}, 5, FALSE, 0),
                                 !.due = [k \in Kind |-> "first"]]
    /\ measured = 0
    /\ pc = "idle" /\ copy = EmptyFile /\ wtask = NoneTask /\ kind = NoKind
    /\ deaths = 0

-----------------------------------------------------------------------------
(* The decisions, on the record as it has just been written.               *)

Rounds(o) == Cardinality({i \in DOMAIN o.series : o.series[i].kind = "traffic"})

Hits(o, k) == Cardinality({i \in DOMAIN o.series : o.series[i] = [kind |-> k, hit |-> TRUE]})

SuitableStates == {"MEASURING", "FIRST_VISITOR", "FIRST_LEAD", "NO_TRACTION", "ACTIVE"}

CooledDown(o) ==
    o.variants = <<>> \/ Rounds(o) - o.variants[Len(o.variants)].rounds >= Cooldown

\* evaluate_optimization, of an opportunity without revenue.
WorthVariant(o) ==
    /\ o.state \in SuitableStates
    /\ Rounds(o) >= MinRounds
    /\ Len(o.variants) < MaxVariants
    /\ CooledDown(o)
    /\ o.state = "NO_TRACTION" \/ Hits(o, "traffic") >= 1

\* The unscaled variant that was recorded last.
Newest(o) ==
    {o.variants[i].id : i \in
        {i \in DOMAIN o.variants :
            /\ o.variants[i].id \notin o.scaled
            /\ \A j \in (i + 1)..Len(o.variants) : o.variants[j].id \in o.scaled}}

\* evaluate_promotion: the variant to scale, if any (none has two).
WorthScaling(o) ==
    {n \in Newest(o) :
        /\ Cardinality(o.scaled) < MaxScalings
        /\ Rounds(o) >= MinCycles
        /\ Hits(o, "traffic") >= 2 /\ Hits(o, "leads") >= 1}

LiveAmong(q, S) == S \cap ByStatus(q, Live) # {}

\* TaskQueue.create: a live or succeeded task keeps its key.
Taken(q, t) == q[t].status \in Live \cup {"SUCCEEDED"}

Create(q, t) == IF Taken(q, t) THEN q ELSE [q EXCEPT ![t] = NewTask(t, {}, Urgency(t), FALSE, 0)]

\* Wrong: the task is not told how many rounds it was created at.
MaybeOptimizeUntold(f, o, at) ==
    LET n == Len(o.variants) + 1
    IN  IF LiveAmong(f.q, Optimizes) \/ ~WorthVariant(o) \/ Taken(f.q, OptimizeTask(n))
        THEN f
        ELSE [f EXCEPT !.q = Create(f.q, OptimizeTask(n)), !.signal[n] = [rounds |-> 0, at |-> at]]

MaybeOptimize(f, o, at) ==
    LET n == Len(o.variants) + 1
    IN  IF LiveAmong(f.q, Optimizes) \/ ~WorthVariant(o) \/ Taken(f.q, OptimizeTask(n))
        THEN f
        ELSE [f EXCEPT !.q = Create(f.q, OptimizeTask(n)),
                       !.signal[n] = [rounds |-> Rounds(o), at |-> at]]

\* Wrong: a SCALE that waits for a human does not count as live.
MaybePromoteAnew(f, o) ==
    IF LiveAmong(f.q, Scales \ ByStatus(f.q, {"BLOCKED_APPROVAL"}))
    THEN f
    ELSE [f EXCEPT !.q = [t \in Task |-> IF t \in {ScaleTask(n) : n \in WorthScaling(o)}
                                         THEN Create(f.q, t)[t] ELSE f.q[t]]]

MaybePromote(f, o) ==
    IF LiveAmong(f.q, Scales)
    THEN f
    ELSE [f EXCEPT !.q = [t \in Task |-> IF t \in {ScaleTask(n) : n \in WorthScaling(o)}
                                         THEN Create(f.q, t)[t] ELSE f.q[t]]]

-----------------------------------------------------------------------------
(* Worker.tick                                                             *)

Forget ==
    /\ pc' = "idle" /\ copy' = EmptyFile /\ wtask' = NoneTask /\ kind' = NoKind

\* resolve_dependencies where no task depends on another.
Resolved(q) ==
    [t \in Task |->
        IF q[t].status # "PENDING" THEN q[t]
        ELSE [q[t] EXCEPT !.status = IF q[t].requires_approval THEN "BLOCKED_APPROVAL" ELSE "READY"]]

\* What a tick finds after its housekeeping.
Loaded == [tasks EXCEPT !.q = Resolved(RequeueDue(ReclaimStale(tasks.q)))]

FirstCheckReady ==
    tasks.q[ShareTask(Web)].status = "SUCCEEDED" /\ \E k \in Kind : tasks.due[k] = "first"

\* The READY tasks that are most urgent; their age is not modelled.
MostUrgent(q) ==
    {t \in ByStatus(q, {"READY"}) :
        \A u \in ByStatus(q, {"READY"}) : q[t].priority >= q[u].priority}

NothingReady ==
    /\ pc = "idle"
    /\ ~FirstCheckReady
    /\ tasks' = Loaded
    /\ MostUrgent(tasks'.q) = {}
    /\ UNCHANGED <<opp, measured, pc, copy, wtask, kind, deaths>>

\* OPTIMIZE and SCALE are SAFE_AUTONOMOUS, DISTRIBUTE is safe_when_unauthorized.
ClaimReady ==
    /\ pc = "idle"
    /\ ~FirstCheckReady
    /\ \E f \in {Loaded} : \E t \in MostUrgent(f.q) :
          /\ copy' = [f EXCEPT !.q = Claim(f.q, t)]
          /\ wtask' = t
    /\ tasks' = copy'
    /\ pc' = "claimed"
    /\ UNCHANGED <<opp, measured, kind, deaths>>

\* A check depends on the DISTRIBUTE of the chain.  The first is the most
\* urgent task there is, a recurring one the least.
ClaimCheck(k) ==
    /\ pc = "idle" /\ tasks.due[k] # "never"
    /\ tasks.q[ShareTask(Web)].status = "SUCCEEDED"
    /\ copy' = Loaded /\ tasks' = copy'
    /\ tasks.due[k] = "first" \/ MostUrgent(copy'.q) = {}
    /\ kind' = k
    /\ pc' = "measuring"
    /\ UNCHANGED <<opp, measured, wtask, deaths>>

Last(s, n) == IF Len(s) > n THEN SubSeq(s, Len(s) - n + 1, Len(s)) ELSE s

\* record_measurement
Appended(o, e) == [o EXCEPT !.series = Last(Append(o.series, e), SeriesCap)]

\* The moves of _record_measurement, before the verdict on the traction.
StateAfter(state, e) ==
    LET from == IF state \in {"LIVE", "ACQUIRING_TRAFFIC"} THEN "MEASURING" ELSE state
    IN  IF e = [kind |-> "traffic", hit |-> TRUE] /\ from = "MEASURING" THEN "FIRST_VISITOR"
        ELSE IF e = [kind |-> "leads", hit |-> TRUE] /\ from \in {"MEASURING", "FIRST_VISITOR"}
             THEN "FIRST_LEAD"
             ELSE from

\* evaluate_traction; whether enough time has passed is left open.
MayGiveUp(o) ==
    /\ o.state \in {"MEASURING", "FIRST_VISITOR"}
    /\ Len(o.series) >= MinSeries
    /\ Hits(o, "leads") = 0

Judgements(o) == {o} \cup {[o EXCEPT !.state = "NO_TRACTION"] : x \in {y \in {o} : MayGiveUp(y)}}

\* _on_success of a check: the record is saved, what it warrants is created
\* in the copy of the queue.
Measure(hit) ==
    LET e == [kind |-> kind, hit |-> hit]
        seen == [Appended(opp, e) EXCEPT !.state = StateAfter(opp.state, e)]
    IN  /\ pc = "measuring"
        /\ kind = "traffic" => measured < MaxMeasured
        /\ measured' = IF kind = "traffic" THEN measured + 1 ELSE measured
        /\ opp' \in Judgements(seen)
        /\ copy' = MaybePromote(MaybeOptimize(copy, opp', measured'), opp')
        /\ pc' = "recorded"
        /\ UNCHANGED <<tasks, wtask, kind, deaths>>

\* The analytics provider fails, or is not configured.
MeasureFails ==
    /\ pc = "measuring"
    /\ pc' = "recorded"
    /\ UNCHANGED <<opp, tasks, measured, copy, wtask, kind, deaths>>

Done == [copy EXCEPT !.q = MarkSucceeded(copy.q, wtask)]

Ran(result) ==
    /\ pc = "claimed" /\ pc' = "recorded"
    /\ copy' = result
    /\ UNCHANGED <<tasks, measured, wtask, kind, deaths>>

\* Wrong: the record is built but not marked for saving.
RecordVariantLost(o, n) == o

\* _record_optimization: once per variant.
RecordVariant(o, n) ==
    IF n \in {o.variants[i].id : i \in DOMAIN o.variants}
    THEN o
    ELSE [o EXCEPT !.variants =
            Append(o.variants, [id |-> n, rounds |-> copy.signal[n].rounds, at |-> copy.signal[n].at])]

\* OptimizeAdapter succeeds: a draft of variant n is recorded.
Optimize(n) ==
    /\ wtask = OptimizeTask(n)
    /\ Ran(Done)
    /\ opp' = RecordVariant(opp, n)

\* ScaleTaskAdapter succeeds, or finds the variant scaled already.
ScaleUp(n) ==
    /\ wtask = ScaleTask(n)
    /\ n \in {opp.variants[i].id : i \in DOMAIN opp.variants}
    /\ Ran(Done)
    /\ opp' = [opp EXCEPT !.scaled = opp.scaled \cup {n}]

\* The provider says that the real step would cost money.
AsksForApproval(n) ==
    /\ wtask = ScaleTask(n) /\ n \notin opp.scaled
    /\ Ran([copy EXCEPT !.q = BlockForApproval(copy.q, wtask)])
    /\ UNCHANGED opp

\* Wrong: only a distribution that is new is followed by the fan-out.
FanOutWhenNew(q, c) ==
    [t \in Task |-> IF c = Web /\ c \notin opp.shared /\ t \in {ShareTask(d) : d \in Channel}
                    THEN Create(q, t)[t] ELSE q[t]]

\* _fan_out_distribution
FanOut(q, c) ==
    [t \in Task |-> IF c = Web /\ t \in {ShareTask(d) : d \in Channel}
                    THEN Create(q, t)[t] ELSE q[t]]

\* _record_distribution: a real publication of a LIVE opportunity moves it.
StateShared(o, c) ==
    IF c \notin Drafts \cup o.shared /\ o.state = "LIVE" THEN "ACQUIRING_TRAFFIC" ELSE o.state

\* DistributeTaskAdapter publishes, drafts, or finds it done already.
Share(c) ==
    /\ wtask = ShareTask(c)
    /\ Ran([Done EXCEPT !.q = FanOut(Done.q, c)])
    /\ opp' = [opp EXCEPT !.shared = opp.shared \cup {c}, !.state = StateShared(opp, c)]

\* No owned channel is configured: the task succeeds and does nothing.
ShareNothing(c) ==
    /\ wtask = ShareTask(c) /\ c \notin Drafts \cup opp.shared
    /\ Ran(Done)
    /\ UNCHANGED opp

\* Tasks that do not fail: a draft, and what is on record already.
Sure == {ShareTask(c) : c \in Drafts \cup opp.shared} \cup {ScaleTask(n) : n \in opp.scaled}

TaskFails(retryable) ==
    /\ wtask \notin Sure
    /\ Ran([copy EXCEPT !.q = MarkFailed(copy.q, wtask, retryable)])
    /\ UNCHANGED opp

KeepMeasuring == {"LIVE", "ACQUIRING_TRAFFIC", "MEASURING", "FIRST_VISITOR", "FIRST_LEAD",
                  "FIRST_SALE", "DELIVERING", "ACTIVE", "OPTIMIZING"}

\* _reschedule_measurement, and the save at the end of the tick.
SaveQueue ==
    /\ pc = "recorded"
    /\ tasks' = [copy EXCEPT !.q = Resolved(copy.q),
                             !.due = [k \in Kind |->
                                        IF k # kind THEN copy.due[k]
                                        ELSE IF opp.state \in KeepMeasuring THEN "again"
                                        ELSE "never"]]
    /\ Forget
    /\ UNCHANGED <<opp, measured, deaths>>

Die ==
    /\ pc # "idle" /\ deaths < MaxDeaths
    /\ deaths' = deaths + 1
    /\ Forget
    /\ UNCHANGED <<opp, tasks, measured>>

\* acceptance.release_task by a human, between two ticks.
Release(t) ==
    /\ pc = "idle" /\ tasks.q[t].status = "BLOCKED_APPROVAL"
    /\ tasks' = [tasks EXCEPT !.q = Resolved(Unblock(tasks.q, t))]
    /\ UNCHANGED <<opp, measured, pc, copy, wtask, kind, deaths>>

Run ==
    \/ \E n \in Variant : Optimize(n) \/ ScaleUp(n) \/ AsksForApproval(n)
    \/ \E c \in Channel : Share(c) \/ ShareNothing(c)
    \/ \E retryable \in BOOLEAN : TaskFails(retryable)

Next ==
    \/ NothingReady \/ ClaimReady \/ SaveQueue \/ Die
    \/ \E k \in Kind : ClaimCheck(k)
    \/ \E hit \in BOOLEAN : Measure(hit)
    \/ MeasureFails \/ Run
    \/ \E t \in Scales : Release(t)

Spec == Init /\ [][Next]_vars
-----------------------------------------------------------------------------
(* Files, copy and program counter are well formed.                        *)
TypeOK ==
    /\ tasks \in File /\ copy \in File
    /\ opp.state \in OppState /\ opp.series \in Seq(Entry) /\ Len(opp.series) <= SeriesCap
    /\ opp.variants \in Seq([id : Variant, rounds : 0..SeriesCap, at : 0..MaxMeasured])
    /\ opp.scaled \subseteq Variant /\ opp.shared \subseteq Channel
    /\ measured \in 0..MaxMeasured
    /\ pc \in {"idle", "claimed", "measuring", "recorded"}
    /\ wtask \in Task \cup {NoneTask} /\ kind \in Kind \cup {NoKind} /\ deaths \in 0..MaxDeaths

(* "It never optimizes on a single watchdog tick, never on too little      *)
(* data" (optimization.py:8): no variant before MinRounds traffic          *)
(* measurements, and Cooldown of them between any two variants, although   *)
(* the policy only counts what the capped series still holds and the       *)
(* number a variant was made at travels through a task.                    *)
VariantsSpaced ==
    \A i \in DOMAIN opp.variants :
        /\ opp.variants[i].at >= MinRounds
        /\ \A j \in 1..(i - 1) : opp.variants[i].at - opp.variants[j].at >= Cooldown

(* tasks.json never claims more than opportunities.json records: an        *)
(* OPTIMIZE or SCALE that SUCCEEDED has its variant or scaling on record,  *)
(* wherever the worker died - nobody would make it again.                  *)
SucceededIsRecorded ==
    \A n \in Variant :
        /\ tasks.q[OptimizeTask(n)].status = "SUCCEEDED" =>
              \E i \in DOMAIN opp.variants : opp.variants[i].id = n
        /\ tasks.q[ScaleTask(n)].status = "SUCCEEDED" => n \in opp.scaled

(* "At most max_scalings per opportunity" (scaling.py:13), counting those  *)
(* under way: a SCALE that waits for a human cannot be overtaken by one    *)
(* for another variant and released on top of it.                          *)
ScalingsBounded ==
    Cardinality(opp.scaled \cup {n \in Variant : tasks.q[ScaleTask(n)].status \in Live})
        <= MaxScalings

(* "After the primary DISTRIBUTE succeeds, enqueue exactly one task per    *)
(* remaining allowed channel" (worker.py:733), also when the distribution  *)
(* had been recorded by an attempt that died before its tasks were saved.  *)
FanOutComplete ==
    tasks.q[ShareTask(Web)].status = "SUCCEEDED" /\ Web \in opp.shared =>
        \A c \in Channel : tasks.q[ShareTask(c)].status # "ABSENT"

=============================================================================
