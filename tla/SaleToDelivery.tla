--------------------------- MODULE SaleToDelivery ---------------------------
(***************************************************************************)
(* From a customer's payment to the product in the customer's mailbox:     *)
(* CHECK_REVENUE polls the payment provider and books what is new in the   *)
(* ledger, the worker spawns a DELIVER task for every new booking, and     *)
(* either the worker or a human (acceptance.deliver_now) sends the         *)
(* product.  Three files are involved (revenue.json, opportunities.json,   *)
(* tasks.json), each loaded and saved as a whole, on its own and without a *)
(* lock; commands of a human that book other money rewrite the ledger too. *)
(*                                                                         *)
(* One opportunity that has just become LIVE.  The tasks that move it      *)
(* beside CHECK_REVENUE and DELIVER (DISTRIBUTE, CHECK_TRAFFIC and         *)
(* CHECK_LEADS) appear by what they do to its state.  A step ends at a     *)
(* save or at a mail that is sent.                                         *)
(***************************************************************************)
EXTENDS ExecutionTasks, OpportunityState, Sequences, FiniteSets

CONSTANTS
    Pay,            \* the payments customers make, by provider reference
    NoRef,          \* those without the buyer's e-mail address
    MaxCycles,      \* MAX_MEASUREMENT_CYCLES
    Worker,
    Human,
    MayCrash,       \* the processes that may die half way
    MaxOverlaps,    \* how often something starts while something else runs
    AutoDelivery,   \* whether the worker has a provider that sends for it
    Reaccept,       \* whether a human may accept the opportunity again
    Measured        \* whether the other measurement tasks run beside

\* A CHECK_REVENUE task's key is its cycle, a DELIVER task's the payment.
Cycle == 0..MaxCycles

ASSUME SaleConstants ==
    /\ MaxTasks # 0 /\ MaxCycles \in Nat /\ MaxOverlaps \in Nat
    /\ IsFiniteSet(Pay)
    /\ Pay \cap Cycle = {} /\ Key = Pay \cup Cycle
    /\ NoRef \subseteq Pay
    /\ Worker \cap Human = {}
    /\ MayCrash \subseteq Worker \cup Human
    /\ {AutoDelivery, Reaccept, Measured} \subseteq BOOLEAN

VARIABLES
    paid,       \* payments the provider has confirmed
    ledger,     \* revenue.json: the payments booked
    opp,        \* the opportunity's record in opportunities.json
    tasks,      \* tasks.json
    sent,       \* how often each payment's product was sent (2: repeatedly)
    lastId,     \* ids given out so far
    pc,         \* what each process is about to do
    wq,         \* each worker's copy of the queue
    wtask,      \* the task it has claimed
    polled,     \* the provider's events it has not looked at yet
    books,      \* the payment it is booking, with its copy of the ledger
    booked,     \* the payments it has newly booked, in order
    unsold,     \* whether the ledger was empty when it polled (total_before)
    takings,    \* whether it held anything in the end (total_after)
    outcome,    \* what its adapter returned
    hopp,       \* each human command's copy of the record
    hpay,       \* the payment it delivers
    hledger,    \* its copy of the ledger
    dropped,    \* history: payments whose row the save of a stale copy lost
    overlaps    \* history: how often something started beside something else

world == <<paid, ledger, sent, dropped>>
results == <<polled, books, booked, unsold, takings, outcome>>
worker == <<wq, wtask, results>>
human == <<hopp, hpay, hledger>>
vars == <<world, opp, tasks, lastId, pc, worker, human, overlaps>>

Process == Worker \cup Human
NoneTask == 0
NonePay == NoKey
NoBooks == [event |-> NonePay, rows |-> {}]
OppRecord == [state : OppState, deliveries : SUBSET Pay, revenue : BOOLEAN]
JustLive == [state |-> "LIVE", deliveries |-> {}, revenue |-> FALSE]

Init ==
    /\ paid = {} /\ ledger = {} /\ dropped = {} /\ overlaps = 0
    /\ sent = [p \in Pay |-> 0]
    /\ opp = JustLive
    /\ tasks = [EmptyQueue EXCEPT ![1] = NewTask(0, {}, 5, FALSE, 0)]
    /\ lastId = 1
    /\ pc = [p \in Process |-> "idle"]
    /\ wq = [w \in Worker |-> EmptyQueue]
    /\ wtask = [w \in Worker |-> NoneTask]
    /\ polled = [w \in Worker |-> {}]
    /\ books = [w \in Worker |-> NoBooks]
    /\ booked = [w \in Worker |-> <<>>]
    /\ unsold = [w \in Worker |-> FALSE]
    /\ takings = [w \in Worker |-> FALSE]
    /\ outcome = [w \in Worker |-> "none"]
    /\ hopp = [h \in Human |-> JustLive]
    /\ hpay = [h \in Human |-> NonePay]
    /\ hledger = [h \in Human |-> {}]

Idle == \A p \in Process : pc[p] = "idle"

\* A tick or a command starts, and takes its first step.
Begin(p, label) ==
    /\ pc[p] = "idle"
    /\ \/ Idle /\ UNCHANGED overlaps
       \/ ~Idle /\ overlaps < MaxOverlaps /\ overlaps' = overlaps + 1
    /\ pc' = [pc EXCEPT ![p] = label]

Goto(p, label) == pc' = [pc EXCEPT ![p] = label] /\ UNCHANGED overlaps

-----------------------------------------------------------------------------
(* The customer, and the lifecycle moves of the other measurement tasks.   *)

CustomerPays(p) ==
    /\ p \notin paid
    /\ paid' = paid \cup {p}
    /\ UNCHANGED <<ledger, sent, dropped, opp, tasks, lastId, pc, worker, human, overlaps>>

\* _record_measurement for CHECK_TRAFFIC and CHECK_LEADS: to MEASURING first.
Measuring(state) ==
    IF state \in {"LIVE", "ACQUIRING_TRAFFIC"}
    THEN MoveIfLegal(state, "MEASURING")
    ELSE state

\* Wrong: traction is judged without looking at the revenue.
TractionlessAlways(o, state) == state \in {"MEASURING", "FIRST_VISITOR"}

\* evaluate_traction: no conversion measured; leads would show in the state.
Tractionless(o, state) == ~o.revenue /\ state \in {"MEASURING", "FIRST_VISITOR"}

MeasuredMoves(o) ==
    LET state == Measuring(o.state)
    IN  {state}
        \cup {"FIRST_VISITOR" : s \in {state} \cap {"MEASURING"}}
        \cup {"FIRST_LEAD" : s \in {state} \cap {"MEASURING", "FIRST_VISITOR"}}
        \cup {"NO_TRACTION" : s \in {t \in {state} : Tractionless(o, t)}}

\* A tick of the worker with one of them; DISTRIBUTE reaches owned channels.
OtherTask(w) ==
    /\ Measured /\ Begin(w, "idle")
    /\ \E state \in MeasuredMoves(opp)
                    \cup {"ACQUIRING_TRAFFIC" : s \in {opp.state} \cap {"LIVE"}} :
          opp' = [opp EXCEPT !.state = state]
    /\ UNCHANGED <<world, tasks, lastId, worker, human>>

-----------------------------------------------------------------------------
(* Worker.tick                                                             *)

Forget(w) ==
    /\ Goto(w, "idle")
    /\ wq' = [wq EXCEPT ![w] = EmptyQueue]
    /\ wtask' = [wtask EXCEPT ![w] = NoneTask]
    /\ polled' = [polled EXCEPT ![w] = {}]
    /\ books' = [books EXCEPT ![w] = NoBooks]
    /\ booked' = [booked EXCEPT ![w] = <<>>]
    /\ unsold' = [unsold EXCEPT ![w] = FALSE]
    /\ takings' = [takings EXCEPT ![w] = FALSE]
    /\ outcome' = [outcome EXCEPT ![w] = "none"]

Housekept(q) == ResolveDependencies(RequeueDue(ReclaimStale(q)))

LoadQueue(w) ==
    /\ Begin(w, "loaded")
    /\ wq' = [wq EXCEPT ![w] = Housekept(tasks)]
    /\ UNCHANGED <<world, opp, tasks, lastId, wtask, results, human>>

NothingReady(w) ==
    /\ pc[w] = "loaded" /\ NextReady(wq[w]) = {}
    /\ tasks' = wq[w]
    /\ Forget(w)
    /\ UNCHANGED <<world, opp, lastId, human>>

\* Both types are SAFE_AUTONOMOUS: the gate lets them run.
ClaimReady(w) ==
    /\ pc[w] = "loaded"
    /\ \E t \in NextReady(wq[w]) :
          /\ wq' = [wq EXCEPT ![w] = Claim(wq[w], t)]
          /\ tasks' = Claim(wq[w], t)
          /\ wtask' = [wtask EXCEPT ![w] = t]
    /\ Goto(w, "claimed")
    /\ UNCHANGED <<world, opp, lastId, results, human>>

KeyOf(w) == wq[w][wtask[w]].idempotency_key
Checks(q) == {t \in Used(q) : q[t].idempotency_key \in Cycle}

KeepMeasuring == {"LIVE", "ACQUIRING_TRAFFIC", "MEASURING", "FIRST_VISITOR", "FIRST_LEAD",
                  "FIRST_SALE", "DELIVERING", "ACTIVE", "OPTIMIZING"}

\* PayPalPaymentAdapter.poll: all confirmed payments of the opportunity,
\* nothing in a state where no revenue is plausible.
Poll(w) ==
    /\ pc[w] = "claimed" /\ KeyOf(w) \in Cycle
    /\ polled' = [polled EXCEPT ![w] = IF opp.state \in KeepMeasuring THEN paid ELSE {}]
    /\ unsold' = [unsold EXCEPT ![w] = ledger = {}]
    /\ Goto(w, "booking")
    /\ UNCHANGED <<world, opp, tasks, lastId, wq, wtask, books, booked, takings, outcome,
                   human>>

\* The provider is not configured, or it fails.
PollFails(w) ==
    /\ pc[w] = "claimed" /\ KeyOf(w) \in Cycle
    /\ outcome' \in {[outcome EXCEPT ![w] = "retry"], [outcome EXCEPT ![w] = "fail"]}
    /\ Goto(w, "ran")
    /\ UNCHANGED <<world, opp, tasks, lastId, wq, wtask, polled, books, booked, unsold,
                   takings, human>>

\* Wrong: keeps the last delivery only.
LastDelivery(record, p) == [record EXCEPT !.deliveries = {p}]

\* OpportunityStore.record_delivery
Delivered(record, p) == [record EXCEPT !.deliveries = record.deliveries \cup {p}]

\* Wrong: takes every event for a new one.
HasRefNever(rows, p) == FALSE

\* RevenueLedger.has_ref
HasRef(rows, p) == p \in rows

\* Rows on file that saving these loses.
Losing(rows) == ledger \ rows

\* For each event the ledger is loaded anew; what is booked is passed over.
LoadLedger(w) ==
    /\ pc[w] = "booking"
    /\ \E p \in polled[w] :
          \/ /\ HasRef(ledger, p)
             /\ polled' = [polled EXCEPT ![w] = polled[w] \ {p}]
             /\ UNCHANGED <<pc, overlaps, books>>
          \/ /\ ~HasRef(ledger, p)
             /\ books' = [books EXCEPT ![w] = [event |-> p, rows |-> ledger]]
             /\ Goto(w, "saving")
             /\ UNCHANGED polled
    /\ UNCHANGED <<world, opp, tasks, lastId, wq, wtask, booked, unsold, takings, outcome,
                   human>>

\* record_opportunity_payment: the copy is saved with the new row, whatever
\* others have booked meanwhile.
SaveLedger(w) ==
    LET p == books[w].event
        rows == books[w].rows \cup {p}
    IN  /\ pc[w] = "saving"
        /\ ledger' = rows
        /\ dropped' = dropped \cup Losing(rows)
        /\ booked' = [booked EXCEPT ![w] = Append(@, p)]
        /\ polled' = [polled EXCEPT ![w] = @ \ {p}]
        /\ books' = [books EXCEPT ![w] = NoBooks]
        /\ Goto(w, "booking")
        /\ UNCHANGED <<paid, sent, opp, tasks, lastId, wq, wtask, unsold, takings,
                       outcome, human>>

AllBooked(w) ==
    /\ pc[w] = "booking" /\ polled[w] = {}
    /\ takings' = [takings EXCEPT ![w] = ledger # {}]
    /\ outcome' = [outcome EXCEPT ![w] = "ok"]
    /\ Goto(w, "ran")
    /\ UNCHANGED <<world, opp, tasks, lastId, wq, wtask, polled, books, booked, unsold,
                   human>>

Once(n) == IF n = 0 THEN 1 ELSE 2

\* Wrong: does not look for an earlier delivery.
DeliveredBeforeNever(record, p) == FALSE

DeliveredBefore(record, p) == p \in record.deliveries

\* DeliverTaskAdapter.run
Send(w) ==
    LET p == KeyOf(w)
        result(r) == outcome' = [outcome EXCEPT ![w] = r]
    IN  /\ pc[w] = "claimed" /\ p \in Pay
        /\ \/ DeliveredBefore(opp, p) /\ result("ok") /\ UNCHANGED sent
           \/ ~DeliveredBefore(opp, p) /\ p \in NoRef /\ result("fail") /\ UNCHANGED sent
           \/ ~DeliveredBefore(opp, p) /\ p \notin NoRef /\ ~AutoDelivery
                 /\ result("fail") /\ UNCHANGED sent
           \/ ~DeliveredBefore(opp, p) /\ p \notin NoRef /\ AutoDelivery
                 /\ \/ result("ok") /\ sent' = [sent EXCEPT ![p] = Once(sent[p])]
                    \/ result("retry") /\ UNCHANGED sent
        /\ Goto(w, "ran")
        /\ UNCHANGED <<paid, ledger, dropped, opp, tasks, lastId, wq, wtask, polled, books,
                       booked, unsold, takings, human>>

\* Wrong: any successful check counts as the first sale.
AfterCheckAlways(state, first) == MoveIfLegal(state, "FIRST_SALE")

\* _success_target and the rule that a move is made only if it is legal.
AfterCheck(state, first) == IF first THEN MoveIfLegal(state, "FIRST_SALE") ELSE state

AfterDelivery(state) == MoveIfLegal(MoveIfLegal(state, "DELIVERING"), "ACTIVE")

\* _spawn_deliver for each newly booked payment, with the next free ids (a
\* poll books no payment twice: one of them never takes another's key).
Spawn(q, payments) ==
    [t \in Task |->
        IF t - lastId \in DOMAIN payments /\ SameKey(q, payments[t - lastId]) = {}
        THEN NewTask(payments[t - lastId], {}, 7, FALSE, 0)
        ELSE q[t]]

\* mark_succeeded and _on_success, up to store.save.
RecordCheck(w) ==
    /\ pc[w] = "ran" /\ outcome[w] = "ok" /\ KeyOf(w) \in Cycle
    /\ lastId + Len(booked[w]) <= MaxTasks
    /\ wq' = [wq EXCEPT ![w] = Spawn(MarkSucceeded(wq[w], wtask[w]), booked[w])]
    /\ lastId' = lastId + Len(booked[w])
    /\ opp' = [opp EXCEPT !.state = AfterCheck(opp.state, unsold[w] /\ takings[w]),
                          !.revenue = takings[w]]
    /\ Goto(w, "recorded")
    /\ UNCHANGED <<world, tasks, wtask, results, human>>

RecordDelivery(w) ==
    /\ pc[w] = "ran" /\ outcome[w] = "ok" /\ KeyOf(w) \in Pay
    /\ wq' = [wq EXCEPT ![w] = MarkSucceeded(wq[w], wtask[w])]
    /\ opp' = [Delivered(opp, KeyOf(w)) EXCEPT !.state = AfterDelivery(opp.state)]
    /\ Goto(w, "recorded")
    /\ UNCHANGED <<world, tasks, lastId, wtask, results, human>>

RecordFailure(w) ==
    /\ pc[w] = "ran" /\ outcome[w] # "ok"
    /\ wq' = [wq EXCEPT ![w] = MarkFailed(wq[w], wtask[w], outcome[w] = "retry")]
    /\ Goto(w, "recorded")
    /\ UNCHANGED <<world, opp, tasks, lastId, wtask, results, human>>

\* Wrong: a check that failed for good is not scheduled again.
DueAgainOnSuccess(q, t) ==
    /\ t \in Checks(q) /\ q[t].status = "SUCCEEDED"
    /\ opp.state \in KeepMeasuring /\ q[t].idempotency_key < MaxCycles
    /\ ByStatus(q, Live) \cap Checks(q) \subseteq {t}

\* The guards of _reschedule_measurement.
DueAgain(q, t) ==
    /\ t \in Checks(q) /\ q[t].status \in {"SUCCEEDED", "FAILED_FINAL"}
    /\ opp.state \in KeepMeasuring /\ q[t].idempotency_key < MaxCycles
    /\ ByStatus(q, Live) \cap Checks(q) \subseteq {t}

Rescheduled(q, t) ==
    IF DueAgain(q, t)
    THEN Add(q, lastId + 1, NewTask(q[t].idempotency_key + 1, {}, 3, FALSE, MaxDelay))
    ELSE q

SaveQueue(w) ==
    LET q == Rescheduled(wq[w], wtask[w])
    IN  /\ pc[w] = "recorded"
        /\ DueAgain(wq[w], wtask[w]) => lastId < MaxTasks
        /\ tasks' = ResolveDependencies(q)
        /\ lastId' = IF q = wq[w] THEN lastId ELSE lastId + 1
        /\ Forget(w)
        /\ UNCHANGED <<world, opp, human>>

-----------------------------------------------------------------------------
(* Human commands                                                          *)

Deliveries(q, p) == {t \in Used(q) : q[t].idempotency_key = p}

\* deliver_now, up to the mail: a payment without an address needs the human
\* to give one (--email).
DeliverNow(h, p) ==
    /\ Begin(h, "delivering")
    /\ Cardinality(Deliveries(tasks, p)) = 1
    /\ ~DeliveredBefore(opp, p)
    /\ sent' = [sent EXCEPT ![p] = Once(sent[p])]
    /\ hopp' = [hopp EXCEPT ![h] = opp]
    /\ hpay' = [hpay EXCEPT ![h] = p]
    /\ UNCHANGED <<paid, ledger, dropped, opp, tasks, lastId, worker, hledger>>

\* record_delivery in the copy loaded at the start, saved.
RecordNow(h) ==
    LET record == Delivered(hopp[h], hpay[h])
    IN  /\ pc[h] = "delivering"
        /\ opp' = record
        /\ hopp' = [hopp EXCEPT ![h] = record]
        /\ Goto(h, "moving")
        /\ UNCHANGED <<world, tasks, lastId, worker, hpay, hledger>>

Return(h) ==
    /\ Goto(h, "idle")
    /\ hopp' = [hopp EXCEPT ![h] = JustLive]
    /\ hpay' = [hpay EXCEPT ![h] = NonePay]
    /\ hledger' = [hledger EXCEPT ![h] = {}]

MoveNow(h) ==
    /\ pc[h] = "moving"
    /\ opp' = [hopp[h] EXCEPT !.state = AfterDelivery(hopp[h].state)]
    /\ Return(h)
    /\ UNCHANGED <<world, tasks, lastId, worker>>

\* accept_opportunity on an opportunity in execution: the chain's tasks are
\* re-used, but for a first check that has failed.
AcceptAgain(h) ==
    LET checkNeeded == SameKey(tasks, 0) = {}
        q == IF checkNeeded
             THEN Add(tasks, lastId + 1, NewTask(0, {}, 5, FALSE, 0))
             ELSE tasks
    IN  /\ Reaccept /\ Begin(h, "accepting")
        /\ checkNeeded => lastId + 1 + Cardinality(Pay) + MaxCycles <= MaxTasks
        /\ tasks' = ResolveDependencies(q)
        /\ lastId' = IF checkNeeded THEN lastId + 1 ELSE lastId
        /\ hopp' = [hopp EXCEPT ![h] = opp]
        /\ UNCHANGED <<world, opp, worker, hpay, hledger>>

\* mark_accepted replaces the execution namespace as a whole.
MarkAccepted(h) ==
    /\ pc[h] = "accepting"
    /\ opp' = [hopp[h] EXCEPT !.deliveries = {}, !.revenue = FALSE]
    /\ Return(h)
    /\ UNCHANGED <<world, tasks, lastId, worker>>

\* Other money is booked in the same ledger (affiliate-confirm, record-payment):
\* the file is loaded,
OpenBooks(h) ==
    /\ Begin(h, "bookkeeping")
    /\ hledger' = [hledger EXCEPT ![h] = ledger]
    /\ UNCHANGED <<world, opp, tasks, lastId, worker, hopp, hpay>>

\* and saved with a row that is none of ours.
CloseBooks(h) ==
    /\ pc[h] = "bookkeeping"
    /\ ledger' = hledger[h]
    /\ dropped' = dropped \cup Losing(hledger[h])
    /\ Return(h)
    /\ UNCHANGED <<paid, sent, opp, tasks, lastId, worker>>
-----------------------------------------------------------------------------
Pass ==
    /\ tasks' = Elapse(tasks)
    /\ wq' = [w \in Worker |-> Elapse(wq[w])]
    /\ UNCHANGED <<world, opp, lastId, pc, overlaps, wtask, results, human>>

CrashWorker(w) ==
    /\ w \in MayCrash /\ pc[w] # "idle"
    /\ Forget(w)
    /\ UNCHANGED <<world, opp, tasks, lastId, human>>

CrashHuman(h) ==
    /\ h \in MayCrash /\ pc[h] # "idle"
    /\ Return(h)
    /\ UNCHANGED <<world, opp, tasks, lastId, worker>>

RunAdapter(w) ==
    \/ Poll(w) \/ PollFails(w)
    \/ LoadLedger(w) \/ SaveLedger(w) \/ AllBooked(w)
    \/ Send(w)

Record(w) == RecordCheck(w) \/ RecordDelivery(w) \/ RecordFailure(w)

Tick(w) ==
    \/ LoadQueue(w) \/ NothingReady(w) \/ ClaimReady(w)
    \/ RunAdapter(w) \/ Record(w) \/ SaveQueue(w)

Command(h) ==
    \/ \E p \in Pay : DeliverNow(h, p)
    \/ RecordNow(h) \/ MoveNow(h)
    \/ AcceptAgain(h) \/ MarkAccepted(h)
    \/ OpenBooks(h) \/ CloseBooks(h)

Next ==
    \/ Pass
    \/ \E p \in Pay : CustomerPays(p)
    \/ \E w \in Worker : OtherTask(w) \/ Tick(w) \/ CrashWorker(w)
    \/ \E h \in Human : Command(h) \/ CrashHuman(h)

Spec == Init /\ [][Next]_vars

(* Time passes, and a worker that is started again and again gets through  *)
(* each of its steps; a command that has begun ends.                       *)
Fairness ==
    /\ WF_vars(Pass)
    /\ \A w \in Worker :
          /\ SF_vars(LoadQueue(w)) /\ SF_vars(NothingReady(w)) /\ SF_vars(ClaimReady(w))
          /\ SF_vars(RunAdapter(w)) /\ SF_vars(Record(w)) /\ SF_vars(SaveQueue(w))
    /\ \A h \in Human :
          WF_vars(RecordNow(h) \/ MoveNow(h) \/ MarkAccepted(h) \/ CloseBooks(h))

FairSpec == Spec /\ Fairness
-----------------------------------------------------------------------------
(* Files, copies and program counters are well formed.                     *)
TypeOK ==
    /\ ledger \subseteq Pay /\ paid \subseteq Pay /\ dropped \subseteq Pay
    /\ sent \in [Pay -> 0..2] /\ overlaps \in 0..MaxOverlaps
    /\ opp \in OppRecord /\ tasks \in Queue /\ lastId \in 0..MaxTasks
    /\ pc \in [Process -> {"idle", "loaded", "claimed", "booking", "saving", "ran", "recorded",
                            "delivering", "moving", "accepting", "bookkeeping"}]
    /\ wq \in [Worker -> Queue]
    /\ wtask \in [Worker -> Task \cup {NoneTask}]
    /\ polled \in [Worker -> SUBSET Pay]
    /\ books \in [Worker -> [event : Pay \cup {NonePay}, rows : SUBSET Pay]]
    /\ booked \in [Worker -> Seq(Pay)]
    /\ unsold \in [Worker -> BOOLEAN] /\ takings \in [Worker -> BOOLEAN]
    /\ outcome \in [Worker -> {"none", "ok", "retry", "fail"}]
    /\ hopp \in [Human -> OppRecord]
    /\ hpay \in [Human -> Pay \cup {NonePay}] /\ hledger \in [Human -> SUBSET Pay]

Sold == {"FIRST_SALE", "DELIVERING", "ACTIVE"}

EverBooked == ledger \cup dropped

(* No product leaves the house for money that never was in the books, and  *)
(* the lifecycle never claims a sale or a delivery that did not happen:    *)
(* FIRST_SALE only with revenue booked, DELIVERING and ACTIVE "reached     *)
(* only from a confirmed successful delivery" (worker.py:519) - whatever   *)
(* crashes, overlaps or is accepted again.  A row booked may be gone       *)
(* again: saving a stale copy of the ledger loses it.                      *)
EarnedOnly ==
    /\ \A p \in Pay : sent[p] > 0 => p \in EverBooked
    /\ ledger \subseteq paid
    /\ opp.state \in Sold => EverBooked # {}
    /\ opp.state \in {"DELIVERING", "ACTIVE"} => \E p \in Pay : sent[p] > 0

(* "Exactly ONE DELIVER task per confirmed payment" (worker.py:501), for   *)
(* what is on disk when nobody is half way.                                *)
DeliverPerPayment == Idle => \A p \in ledger : Cardinality(Deliveries(tasks, p)) = 1

(* No payment has two DELIVER tasks, whatever dies or overlaps, as long as *)
(* its row stays in the ledger: two workers may both take it for new, but  *)
(* then each adds the task to a queue that has none.  A payment whose row  *)
(* the save of a stale copy lost is booked as new again, and gets a second *)
(* task if the first has failed for good (_spawn_deliver looks for live    *)
(* and succeeded ones only).                                               *)
NoSecondDeliver == \A p \in Pay \ dropped : Cardinality(Deliveries(tasks, p)) <= 1

(* The worker's attempts and a human's deliver_now together send one       *)
(* product per payment: "a later DELIVER re-run for the same payment reads *)
(* this and no-ops instead of sending again" (opportunity_store.py:331).   *)
SentOnce == \A p \in Pay : sent[p] <= 1

(* When all is quiet, the deliveries on record are those that were sent,   *)
(* each of them: what is not on record is sent again.                      *)
RecordMatchesOutbox == Idle => \A p \in Pay : p \in opp.deliveries <=> sent[p] > 0

(* NO_TRACTION needs "zero conversions" (measurement.py:19): it is never   *)
(* the verdict on an opportunity that has earned money.                    *)
NoTractionUnsold == Idle /\ opp.state = "NO_TRACTION" => ledger = {}

(* "The worker re-enqueues a CHECK_* task after each terminal run ...      *)
(* Exactly one live occurrence" (measurement.py:7): as long as the         *)
(* opportunity is measured and cycles are left, one check is under way.    *)
LastCycleOver ==
    \E t \in Checks(tasks) :
        tasks[t].idempotency_key = MaxCycles /\ tasks[t].status \in Terminal

OneCheckUnderWay ==
    Idle /\ opp.state \in KeepMeasuring /\ ~LastCycleOver =>
        Cardinality(ByStatus(tasks, Live) \cap Checks(tasks)) = 1

(* A booked payment is settled: its product is sent, or its DELIVER task   *)
(* has ended and waits for the human's deliver_now.                        *)
BookedSettles ==
    \A p \in Pay :
        p \in ledger ~>
            sent[p] > 0 \/ \E t \in Deliveries(tasks, p) : tasks[t].status = "FAILED_FINAL"
=============================================================================
