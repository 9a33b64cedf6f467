------------------------------ MODULE Execution ------------------------------
(***************************************************************************)
(* Workers and human commands over the same data directory: worker.Worker  *)
(* (tick), acceptance.py (accept, abandon, release) and worker.enqueue.    *)
(* Every one of them loads a JSON file, changes its copy and writes the    *)
(* whole file back; nothing locks the files.  A step of the model ends at  *)
(* a save or at the adapter's external effect; a process may die between   *)
(* any two steps and loses its copies.                                     *)
(*                                                                         *)
(* One opportunity and its chain of tasks up to DEPLOY; what follows LIVE  *)
(* is modelled in other modules.  A task's type is what its idempotency    *)
(* key names.                                                              *)
(***************************************************************************)
EXTENDS ExecutionTasks, OpportunityState, Sequences, FiniteSets

CONSTANTS
    Worker,      \* worker processes and threads
    Human,       \* processes that run a human's command
    MayCrash,    \* those of them that may die half way
    Overlap      \* whether anything may start while something else runs

\* The part of acceptance.CHAIN modelled here, in creation order.
Chain == <<"PLAN", "BUILD_PRODUCT", "BUILD_PAGE", "VALIDATE_PRODUCT",
           "VALIDATE_PAGE", "DEPLOY">>

Needs == [PLAN             |-> {},
          BUILD_PRODUCT    |-> {"PLAN"},
          BUILD_PAGE       |-> {"PLAN"},
          VALIDATE_PRODUCT |-> {"BUILD_PRODUCT"},
          VALIDATE_PAGE    |-> {"BUILD_PAGE"},
          DEPLOY           |-> {"BUILD_PAGE", "VALIDATE_PAGE"}]

ChainTypes == DOMAIN Needs

\* Tasks that reach the queue through enqueue, without a gate of their own:
\* a second DEPLOY, a SCALE, a post to a channel its rules forbid.
Enqueued == {"REDEPLOY", "SCALE", "POST"}

ASSUME ExecutionConstants ==
    /\ Key \subseteq ChainTypes \cup Enqueued
    /\ Worker \cap Human = {}
    /\ MayCrash \subseteq Worker \cup Human
    /\ Overlap \in BOOLEAN

VARIABLES
    tasks,      \* tasks.json
    opp,        \* the opportunity's record in opportunities.json
    pc,         \* what each process is about to do
    wq,         \* each worker's copy of the queue
    wtask,      \* the task it has claimed
    outcome,    \* what its adapter returned
    hopp,       \* each human command's copy of the record
    lastId,     \* ids given out so far: uuids are never given out twice
    released    \* the tasks a human has released

vars == <<tasks, opp, pc, wq, wtask, outcome, hopp, lastId, released>>

Process == Worker \cup Human
NoneTask == 0
NoRecord == [state |-> "DISCOVERED", accepted |-> FALSE, deployment |-> FALSE]
OppRecord == [state : OppState, accepted : BOOLEAN, deployment : BOOLEAN]
Outcome == {"none", "ok", "approval", "retry", "fail"}

Init ==
    /\ tasks = EmptyQueue
    /\ opp \in [state : {"DISCOVERED", "SCORED"}, accepted : {FALSE}, deployment : {FALSE}]
    /\ pc = [p \in Process |-> "idle"]
    /\ wq = [w \in Worker |-> EmptyQueue]
    /\ wtask = [w \in Worker |-> NoneTask]
    /\ outcome = [w \in Worker |-> "none"]
    /\ hopp = [h \in Human |-> NoRecord]
    /\ lastId = 0
    /\ released = {}

\* When processes do not overlap, nothing starts before the others are done.
MayStart(p) == pc[p] = "idle" /\ (Overlap \/ \A o \in Process : pc[o] = "idle")

-----------------------------------------------------------------------------
(* Classification and lifecycle moves of a task.                           *)

TypeOf(q, t) ==
    IF q[t].idempotency_key = "REDEPLOY" THEN "DEPLOY" ELSE q[t].idempotency_key

\* classify_task and _gate: DEPLOY runs on an authorized channel (one the
\* worker finds configured in its environment) or after a human release, a
\* forbidden channel never, everything else freely.
Gate(q, t, authorized) ==
    CASE TypeOf(q, t) = "POST" -> "failed"
      [] TypeOf(q, t) = "DEPLOY" /\ ~q[t].approval_granted /\ ~authorized -> "blocked"
      [] OTHER -> "run"

\* Wrong: DEPLOY has no entry in the table.
StartStateNoDeploy(state, type) ==
    CASE type = "PLAN" -> MoveIfLegal(state, "PLANNING")
      [] type \in {"BUILD_PRODUCT", "BUILD_PAGE"} -> MoveIfLegal(state, "BUILDING")
      [] type \in {"VALIDATE_PRODUCT", "VALIDATE_PAGE"} -> MoveIfLegal(state, "VALIDATING")
      [] OTHER -> state

StartState(state, type) ==
    CASE type = "PLAN" -> MoveIfLegal(state, "PLANNING")
      [] type \in {"BUILD_PRODUCT", "BUILD_PAGE"} -> MoveIfLegal(state, "BUILDING")
      [] type \in {"VALIDATE_PRODUCT", "VALIDATE_PAGE"} -> MoveIfLegal(state, "VALIDATING")
      [] type = "DEPLOY" -> MoveIfLegal(state, "DEPLOYING")
      [] OTHER -> state

SuccessState(state, type) ==
    CASE type \in {"VALIDATE_PRODUCT", "VALIDATE_PAGE"} -> MoveIfLegal(state, "READY_TO_DEPLOY")
      [] type = "DEPLOY" -> MoveIfLegal(state, "LIVE")
      [] OTHER -> state

\* _ensure_selected
Selected(state) ==
    IF state \in {"DISCOVERED", "RESEARCHING", "SCORED"} \cup Recoverable
    THEN "SELECTED" ELSE state

-----------------------------------------------------------------------------
(* Worker.tick                                                             *)

Housekept(q) == ResolveDependencies(RequeueDue(ReclaimStale(q)))

Forget(w) ==
    /\ pc' = [pc EXCEPT ![w] = "idle"]
    /\ wq' = [wq EXCEPT ![w] = EmptyQueue]
    /\ wtask' = [wtask EXCEPT ![w] = NoneTask]
    /\ outcome' = [outcome EXCEPT ![w] = "none"]

\* load_tasks, and the housekeeping on the copy.
LoadQueue(w) ==
    /\ MayStart(w)
    /\ pc' = [pc EXCEPT ![w] = "loaded"]
    /\ wq' = [wq EXCEPT ![w] = Housekept(tasks)]
    /\ UNCHANGED <<tasks, opp, wtask, outcome, hopp, lastId, released>>

NothingReady(w) ==
    /\ pc[w] = "loaded" /\ NextReady(wq[w]) = {}
    /\ tasks' = wq[w]
    /\ Forget(w)
    /\ UNCHANGED <<opp, hopp, lastId, released>>

\* The gate blocks or refuses the task; it is never executed.
GateStops(w) ==
    /\ pc[w] = "loaded"
    /\ \E t \in NextReady(wq[w]), authorized \in BOOLEAN :
          \/ /\ Gate(wq[w], t, authorized) = "blocked"
             /\ tasks' = ResolveDependencies(BlockForApproval(wq[w], t))
          \/ /\ Gate(wq[w], t, authorized) = "failed"
             /\ tasks' = ResolveDependencies(MarkFailed(Claim(wq[w], t), t, FALSE))
    /\ Forget(w)
    /\ UNCHANGED <<opp, hopp, lastId, released>>

ClaimReady(w) ==
    /\ pc[w] = "loaded"
    /\ \E t \in NextReady(wq[w]), authorized \in BOOLEAN :
          /\ Gate(wq[w], t, authorized) = "run"
          /\ wq' = [wq EXCEPT ![w] = Claim(wq[w], t)]
          /\ tasks' = Claim(wq[w], t)
          /\ wtask' = [wtask EXCEPT ![w] = t]
    /\ pc' = [pc EXCEPT ![w] = "claimed"]
    /\ UNCHANGED <<opp, outcome, hopp, lastId, released>>

\* _transition(..., when="start"): its own load and save of the store.
EnterState(w) ==
    /\ pc[w] = "claimed"
    /\ opp' = [opp EXCEPT !.state = StartState(opp.state, TypeOf(wq[w], wtask[w]))]
    /\ pc' = [pc EXCEPT ![w] = "started"]
    /\ UNCHANGED <<tasks, wq, wtask, outcome, hopp, lastId, released>>

\* DeployTaskAdapter returns a recorded deployment as it is and has no offer to
\* price the page with unless PLAN has succeeded on disk.
PlanOffered ==
    "PLAN" \in Key => \E t \in ByStatus(tasks, {"SUCCEEDED"}) : tasks[t].idempotency_key = "PLAN"

CanReturn(type, result) ==
    \/ type # "DEPLOY" /\ (result = "approval" => type = "SCALE")
    \/ type = "DEPLOY" /\ ~PlanOffered /\ result \in {"retry", "fail"}
    \/ type = "DEPLOY" /\ PlanOffered /\ result \in {"ok", "retry"}
    \/ type = "DEPLOY" /\ PlanOffered /\ ~opp.deployment /\ result = "fail"

RunAdapter(w) ==
    /\ pc[w] = "started"
    /\ \E result \in Outcome \ {"none"} :
          /\ CanReturn(TypeOf(wq[w], wtask[w]), result)
          /\ outcome' = [outcome EXCEPT ![w] = result]
    /\ pc' = [pc EXCEPT ![w] = "ran"]
    /\ UNCHANGED <<tasks, opp, wq, wtask, hopp, lastId, released>>

\* mark_succeeded in the copy of the queue, then _on_success saves the store.
RecordSuccess(w) ==
    /\ pc[w] = "ran" /\ outcome[w] = "ok"
    /\ LET type == TypeOf(wq[w], wtask[w])
       IN  opp' = [opp EXCEPT !.state = SuccessState(opp.state, type),
                              !.deployment = opp.deployment \/ type = "DEPLOY"]
    /\ wq' = [wq EXCEPT ![w] = MarkSucceeded(wq[w], wtask[w])]
    /\ pc' = [pc EXCEPT ![w] = "recorded"]
    /\ UNCHANGED <<tasks, wtask, outcome, hopp, lastId, released>>

\* A failure changes the copy of the queue only.
RecordFailure(w) ==
    /\ pc[w] = "ran" /\ outcome[w] # "ok"
    /\ wq' = [wq EXCEPT ![w] = IF outcome[w] = "approval"
                               THEN BlockForApproval(wq[w], wtask[w])
                               ELSE MarkFailed(wq[w], wtask[w], outcome[w] = "retry")]
    /\ pc' = [pc EXCEPT ![w] = "recorded"]
    /\ UNCHANGED <<tasks, opp, wtask, outcome, hopp, lastId, released>>

SaveQueue(w) ==
    /\ pc[w] = "recorded"
    /\ tasks' = ResolveDependencies(wq[w])
    /\ Forget(w)
    /\ UNCHANGED <<opp, hopp, lastId, released>>

-----------------------------------------------------------------------------
(* Human commands                                                          *)

\* Wrong: a task that is created again is born without its gate.
CreateUngated(q, t, key, needs, approval) ==
    Add(q, t, NewTask(key, UNION {SameKey(q, d) : d \in needs}, 5, FALSE, 0))

\* create: deps are what accept holds for each type, the task it has just
\* created or the one it re-uses.
CreateTask(q, t, key, needs, approval) ==
    Add(q, t, NewTask(key, UNION {SameKey(q, d) : d \in needs}, 5, approval, 0))

Missing(q, keys) == {k \in keys : SameKey(q, k) = {}}

\* One round of accept's loop, on the queue and the last id given out.
Extend(s, type) ==
    IF type \notin Missing(s.queue, Key) THEN s
    ELSE [queue |-> CreateTask(s.queue, s.last + 1, type, Needs[type] \cap Key, type = "DEPLOY"),
          last  |-> s.last + 1]

\* The whole loop, along the chain.
Extended(q, last) ==
    LET s1 == Extend([queue |-> q, last |-> last], Chain[1])
        s2 == Extend(s1, Chain[2])
        s3 == Extend(s2, Chain[3])
        s4 == Extend(s3, Chain[4])
        s5 == Extend(s4, Chain[5])
    IN  Extend(s5, Chain[6])

Accept(h) ==
    /\ MayStart(h)
    /\ opp.state # "ABANDONED"
    /\ lastId + Cardinality(Missing(tasks, Key \cap ChainTypes)) <= MaxTasks
    /\ hopp' = [hopp EXCEPT ![h] = [opp EXCEPT !.state = Selected(opp.state)]]
    /\ tasks' = ResolveDependencies(Extended(tasks, lastId).queue)
    /\ lastId' = Extended(tasks, lastId).last
    /\ pc' = [pc EXCEPT ![h] = "accepting"]
    /\ UNCHANGED <<opp, wq, wtask, outcome, released>>

\* The command ends; its copies are gone.
Return(h) ==
    /\ pc' = [pc EXCEPT ![h] = "idle"]
    /\ hopp' = [hopp EXCEPT ![h] = NoRecord]

\* mark_accepted replaces the execution namespace as a whole.
MarkAccepted(h) ==
    /\ pc[h] = "accepting"
    /\ opp' = [state |-> hopp[h].state, accepted |-> TRUE, deployment |-> FALSE]
    /\ Return(h)
    /\ UNCHANGED <<tasks, wq, wtask, outcome, lastId, released>>

\* Wrong: leaves alone what is running (perhaps in a process that is gone).
CancelWaiting(q) ==
    [t \in Task |-> IF q[t].status \in Live \ {"RUNNING"}
                    THEN [q[t] EXCEPT !.status = "CANCELLED"] ELSE q[t]]

CancelAll(q) ==
    [t \in Task |-> IF q[t].status \in Live THEN [q[t] EXCEPT !.status = "CANCELLED"] ELSE q[t]]

Abandon(h) ==
    /\ MayStart(h)
    /\ tasks' = CancelAll(tasks)
    /\ hopp' = [hopp EXCEPT ![h] = opp]
    /\ pc' = [pc EXCEPT ![h] = "abandoning"]
    /\ UNCHANGED <<opp, wq, wtask, outcome, lastId, released>>

MarkAbandoned(h) ==
    /\ pc[h] = "abandoning"
    /\ opp' = IF hopp[h].state = "ABANDONED" THEN opp ELSE [hopp[h] EXCEPT !.state = "ABANDONED"]
    /\ Return(h)
    /\ UNCHANGED <<tasks, wq, wtask, outcome, lastId, released>>

Release(h, t) ==
    /\ MayStart(h)
    /\ tasks[t].status = "BLOCKED_APPROVAL"
    /\ tasks' = ResolveDependencies(Unblock(tasks, t))
    /\ released' = released \cup {t}
    /\ UNCHANGED <<opp, pc, wq, wtask, outcome, hopp, lastId>>

\* worker.enqueue: the caller asks for no gate.
Enqueue(h, key) ==
    /\ MayStart(h)
    /\ lastId < MaxTasks
    /\ key \in Missing(tasks, Key)
    /\ tasks' = CreateTask(tasks, lastId + 1, key, {}, FALSE)
    /\ lastId' = lastId + 1
    /\ UNCHANGED <<opp, pc, wq, wtask, outcome, hopp, released>>
-----------------------------------------------------------------------------
\* The wall clock: every copy of a lease, retry or schedule time runs down.
Pass ==
    /\ tasks' = Elapse(tasks)
    /\ wq' = [w \in Worker |-> Elapse(wq[w])]
    /\ UNCHANGED <<opp, pc, wtask, outcome, hopp, lastId, released>>

CrashWorker(w) ==
    /\ w \in MayCrash /\ pc[w] # "idle"
    /\ Forget(w)
    /\ UNCHANGED <<tasks, opp, hopp, lastId, released>>

CrashHuman(h) ==
    /\ h \in MayCrash /\ pc[h] # "idle"
    /\ Return(h)
    /\ UNCHANGED <<tasks, opp, wq, wtask, outcome, lastId, released>>

TickSteps(w) ==
    \/ NothingReady(w) \/ GateStops(w) \/ ClaimReady(w) \/ EnterState(w)
    \/ RunAdapter(w) \/ RecordSuccess(w) \/ RecordFailure(w) \/ SaveQueue(w)

Command(h) ==
    \/ Accept(h) \/ MarkAccepted(h) \/ Abandon(h) \/ MarkAbandoned(h)
    \/ \E t \in Task : Release(h, t)
    \/ \E key \in Key \cap Enqueued : Enqueue(h, key)

Next ==
    \/ Pass
    \/ \E w \in Worker : LoadQueue(w) \/ TickSteps(w) \/ CrashWorker(w)
    \/ \E h \in Human : Command(h) \/ CrashHuman(h)

Spec == Init /\ [][Next]_vars

(* Workers are started again and again and do not die at the same step     *)
(* every time; a command that has begun ends; time passes.  Nobody need    *)
(* give a command.                                                         *)
Fairness ==
    /\ WF_vars(Pass)
    /\ \A w \in Worker :
          /\ SF_vars(LoadQueue(w))
          /\ SF_vars(NothingReady(w) \/ GateStops(w) \/ ClaimReady(w))
          /\ SF_vars(EnterState(w)) /\ SF_vars(RunAdapter(w))
          /\ SF_vars(RecordSuccess(w) \/ RecordFailure(w)) /\ SF_vars(SaveQueue(w))
    /\ \A h \in Human : WF_vars(MarkAccepted(h)) /\ WF_vars(MarkAbandoned(h))

FairSpec == Spec /\ Fairness
-----------------------------------------------------------------------------
Disk == INSTANCE TaskQueue WITH q <- tasks, Request <- {}
Copy(w) == INSTANCE TaskQueue WITH q <- wq[w], Request <- {}

(* Files, copies and program counters are well formed.                     *)
TypeOK ==
    /\ tasks \in Queue /\ opp \in OppRecord
    /\ pc \in [Process -> {"idle", "loaded", "claimed", "started", "ran", "recorded",
                            "accepting", "abandoning"}]
    /\ wq \in [Worker -> Queue]
    /\ wtask \in [Worker -> Task \cup {NoneTask}]
    /\ outcome \in [Worker -> Outcome]
    /\ hopp \in [Human -> OppRecord]
    /\ lastId \in 0..MaxTasks /\ released \subseteq Task

Idle == \A p \in Process : pc[p] = "idle"
Executing(w) == pc[w] \in {"claimed", "started", "ran"}

(* "A human must release it before the worker ever calls this"             *)
(* (DeployTaskAdapter, task_adapters.py:396): whatever is lost, repeated,  *)
(* reclaimed or accepted again, and even where the deploy channel is       *)
(* authorized, a DEPLOY of the chain in execution is one that a human has  *)
(* released.                                                               *)
DeployOnlyReleased ==
    \A w \in Worker :
        Executing(w) /\ wq[w][wtask[w]].idempotency_key = "DEPLOY" => wtask[w] \in released

(* The queue's guarantees survive the files being overwritten with stale   *)
(* copies: every version on disk and in a worker's memory keeps them.      *)
EveryCopySound ==
    /\ Disk!DependenciesFirst /\ Disk!OneTaskPerKey /\ Disk!ClosedGateHolds
    /\ \A w \in Worker :
          Copy(w)!DependenciesFirst /\ Copy(w)!OneTaskPerKey /\ Copy(w)!ClosedGateHolds

(* The lifecycle follows the work: once the chain's DEPLOY has SUCCEEDED   *)
(* the opportunity is LIVE, whatever attempt of whatever task died on the  *)
(* way (or a human has abandoned it).                                      *)
LiveWhenDeployed ==
    Idle => \A t \in ByStatus(tasks, {"SUCCEEDED"}) :
                tasks[t].idempotency_key = "DEPLOY" => opp.state \in {"LIVE", "ABANDONED"}

(* abandon_opportunity cancels first and moves to ABANDONED afterwards: an *)
(* ABANDONED opportunity has no task of its chain left to run.             *)
AbandonedIsQuiet ==
    Idle /\ opp.state = "ABANDONED" =>
        \A t \in ByStatus(tasks, Live) : tasks[t].idempotency_key \in Enqueued

(* "ABANDONED is the only truly terminal" state (opportunity_state.py:68): *)
(* tasks that come late or are enqueued later do not revive the            *)
(* opportunity.                                                            *)
AbandonedStays == [][opp.state = "ABANDONED" => opp'.state = "ABANDONED"]_vars

(* An accepted chain comes to an end or to a human: all its tasks end, or  *)
(* one of them waits for an approval.  "A JARVIS restart never loses       *)
(* in-flight work - a RUNNING task whose worker vanished is reclaimed"     *)
(* (execution.py:5).                                                       *)
ChainSettles ==
    \A t \in Task :
        tasks[t].status \in Live ~>
            (tasks[t].status \in Terminal \/ ByStatus(tasks, {"BLOCKED_APPROVAL"}) # {})
=============================================================================
