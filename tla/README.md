# A TLA+ development of AI-Revenue-OS

AI-Revenue-OS is a Python program (standard library only, `src/src/revenue_os`,
about 35 000 lines) that takes a business opportunity from its discovery to the
delivery of a sold product. It keeps everything in JSON files under one data
directory. Every store loads a whole file, changes its copy and writes the whole
file back with `os.replace`: a write is atomic, a read-change-write is not, and
no store takes a lock. The command line, a threaded local web server (JARVIS),
its job thread and its watcher may all work on the same directory.

This directory holds TLA+ models of the parts where that matters, model-checked
with TLC, and proofs, checked by TLAPS, of what they guarantee. Paths below are
relative to `src/src/revenue_os` unless they say otherwise.

## 1. Inventory

### The execution core

| Component | State | Operations | Talks to | Correct when |
|---|---|---|---|---|
| Task queue (`execution.py`) | `tasks.json`: tasks with status, dependencies, idempotency key, gate, attempts, lease, backoff, schedule time | create/add, resolve_dependencies, requeue_due, reclaim_stale, claim, heartbeat, mark_succeeded, mark_failed, block_for_approval, unblock, cancel | called by worker and acceptance | nothing starts before what it needs; one live or done task per key; a closed gate holds; an end is an end; nothing waits for ever |
| Worker (`worker.py`) | none of its own; copies of three files during a tick | tick: load, housekeeping, gate, claim, move the lifecycle, run the adapter, record, spawn, reschedule, save | queue, stores, adapters, events | a crash between any two saves loses and repeats nothing that matters; a gated task is not executed; the lifecycle follows the work |
| Classification (`task_class.py`, `action_class.py`) | none | classify_task | called by the gate | what needs a human is never called autonomous |
| Acceptance (`acceptance.py`) | none of its own | accept, abandon, release, deliver_now | queue, opportunity store, delivery | a second call changes nothing; abandoned work does not come back |
| Opportunity lifecycle (`opportunity_state.py`) | none | can_transition, legacy statuses | store, worker | ABANDONED is final; claims (LIVE, FIRST_SALE, ACTIVE) are earned |
| Opportunity store (`opportunity_store.py`) | `opportunities.json`: state, history, `execution` (deployment, deliveries, metrics, ...) | upsert, transition, mark_accepted, record_deployment, record_delivery, record_metrics, prune | everything | what execution recorded is not lost |
| Payment polling (`payments.py`, `paypal_payments.py`, CHECK_REVENUE) | none | poll, process_payment_event | PayPal, ledger | each confirmed payment is booked once and followed by one delivery |
| Ledger (`revenue.py`) | `revenue.json` | record_opportunity_payment, record_payment, mark_launched | payments, candidates | idempotent by reference; no candidate earns without an entry |
| Delivery (`delivery_adapters.py`, DELIVER, deliver_now) | deliveries in the opportunity record | deliver | mail server | one product per payment, recorded if and only if sent |
| Measurement (`measurement.py`, CHECK_*) | metrics in the opportunity record | evaluate_traction, reschedule | worker | the loop neither stops nor doubles; NO_TRACTION only without a sale |

### After and around it

| Component | State | What is hard, and what should hold |
|---|---|---|
| Distribution, optimisation, scaling (`distribution_adapters.py`, `optimization.py`, `scaling.py`) | `execution.distributions/optimizations/scalings` | fan-out after LIVE; at most 3 variants with a cooldown and 2 scalings; SCALE asks for an approval at run time |
| Candidates and operator (`lifecycle.py`, `store.py`, `operator.py`, `workflow.py`, `validation.py`, `approval.py`) | `candidates.json` | passes save the board they loaded before they asked a model; human gates between evaluated, approved, validated, launched, earning; two saves when money arrives |
| Plan delivery (`intake.py`, `delivery.py`, `revenue_loop.py`) | `intake.json`, `deliveries.json`, PDFs | a buyer's submission is reviewed, drafted, approved, staged, mailed, each over its own copy; a mail is not undone by a death before its record |
| Approval firewall (`approvals.py`) | `approvals.json` | a human's decision is kept, a pending request can be withdrawn |
| Autonomous loop (`autonomy.py`, `strategist.py`, `opportunity_engine.py`) | `autonomy.json`, `opportunities.json` | one long read-change-write over the whole store beside workers and humans |
| Orchestrator and team (`orchestrator.py`, `registry.py`, `agent.py`, `team.py`) | tasks in memory | follow-ups bounded by depth and number |
| Spending (`budget.py`, `budget_guard.py`, `llm_budget.py`, `llm_spend.py`, `llm_gateway.py`, `spend.py`) | ledgers of what was spent | caps are checked before a call and recorded after it |
| Agent control, autopilot, revenue loop, operator (`agent_control.py`, `autopilot.py`, `revenue_loop.py`, `operator.py`) | `agent_control.json`, `autopilot.json`, `revenue_loop.json` | a pause is obeyed by the next step, not by the one under way |
| Affiliate commissions, links, clicks (`ecosystem/affiliate_*.py`) | `affiliate_*.json` | PENDING, CONFIRMED, PAID, REVERSED; the click counter takes a lock the other writers do not |
| Affiliate chain (`ecosystem/affiliate_pipeline.py`, `affiliate_assets.py`, `affiliate_cycle.py`) | assets, links, site, plan, pins | the night and a human run the same steps over the same files |
| Event logs (`events.py`, `jarvis_events.py`) | capped lists with sequence numbers | consumers that lag behind the cap |
| Social distribution (`social/`) | `social_actions.json`, tokens | bounded passes, one action per target |
| Sources, matching, ranking, rendering, roster agents, LLM workers, command line, dashboards | caches and last outputs | transformations and display; no behaviour over time |

`PROJECT.json` lists every part with its status and, for what is left out, the
reason; and the hazards, each at its line with the properties that cover it.

### How the parts interact

A human accepts an opportunity: `accept_opportunity` puts a chain of tasks with
dependencies into the queue, saves it, and then saves the opportunity as
SELECTED. A worker tick takes the best ready task, gates it, saves the claim,
moves the opportunity (a save), runs the adapter (files, mail, the payment
provider), records the result in the opportunity (a save) and, at the very end,
saves the queue copy it has held all along. Anything another process wrote to
the queue in between is overwritten. After LIVE, recurring checks poll the
provider, book money, and spawn a DELIVER task for each payment; a human can
deliver by hand as well.

What is hard to test is therefore: processes that overlap; processes that die
between two of these saves; a unit of work that returns by retry, expired lease,
second acceptance or an old copy; and long legal sequences that end in an odd
place.

## 2. Modules

| Module | Models |
|---|---|
| `ExecutionTasks` | the data of the queue and every operation of `TaskQueue` as a pure operator on a queue value |
| `TaskQueue` | one queue, its operations one at a time, as a state machine |
| `TaskContract` | the abstract specification: phases, needs, keys and gates only |
| `TaskQueueProofs` | the theorems about `TaskQueue` |
| `OpportunityState` | the lifecycle: states, legal moves, legacy statuses |
| `Execution` | workers and humans over `tasks.json` and `opportunities.json`, from acceptance to DEPLOY |
| `SaleToDelivery` | from the payment to the mail: ledger, opportunity, queue, outbox |
| `Growth` | after LIVE: distribution, the series of measurements, variants and scalings |
| `AutonomyLoop` | one cycle of the autonomous loop over the board and the approval requests |
| `AffiliateMoney` | clicks, links and commissions |
| `AffiliateChain` | the affiliate chain, run by the night and by a human |
| `CandidateBoard` | the operator, the human gates and the booking of payments over candidates |
| `PlanOrders` | intake, plan and delivery, composed with `CandidateBoard` through the ledger |
| `PlanOrdersProofs` | the theorems about `CandidateBoard` and `PlanOrders` |
| `ExecutionProofs`, `SaleToDeliveryProofs`, `GrowthProofs`, `AutonomyLoopProofs`, `AffiliateMoneyProofs`, `AffiliateChainProofs` | the theorems about the module of the same name |
| `MC_*` | the instances TLC checks |

`Execution`, `SaleToDelivery` and `Growth` extend `ExecutionTasks` and
`OpportunityState`, so they use the same operators the proofs are about;
`AutonomyLoop` shares `OpportunityState`. `Execution` instantiates `TaskQueue` for
the file and for each worker's copy and states the queue's invariants about all of
them. `PlanOrders` extends `CandidateBoard`: an order is deliverable only when the
payment it names is in the ledger the booking writes.

### State and actions against the code

*Queue.* A queue is a function from ids `1..MaxTasks` to task records, in
insertion order, with status ABSENT for ids not given out. Wall-clock times
become countdowns: `lease_until`, `next_retry_at` and `not_before` hold the time
that is left, `Elapse` takes one unit from each. `resolve_dependencies` is one
pass over the tasks in insertion order; since a task can only depend on tasks
created before it, the pass settles a whole chain of failures at once, which is
what `Doomed` (a least fixed point) says.

*Steps.* In `Execution` and `SaleToDelivery` a step ends at a save or at an
external effect; the load of a file belongs to the step in which its value is
first used. So `Worker.tick` is `LoadQueue`, then `NothingReady` or (in
`Execution`) `GateStops` or `ClaimReady` (first save), `EnterState` (second),
`RunAdapter` (external), `RecordSuccess` / `RecordFailure` (third; none for a
failure), `SaveQueue` (last); `_transition` and `_on_success` load the store and
save it without anything in between, so each is one step. A human command is
`Accept` or `Abandon` followed by `MarkAccepted` or `MarkAbandoned` with the copy
of the record it loaded at its start; `deliver_now` is `DeliverNow` (the mail),
`RecordNow`, `MoveNow`. `release_task` and `enqueue` have one save and one step.

*Ledger.* `CheckRevenueAdapter.run` loads `revenue.json` anew for each event, and
`record_opportunity_payment` tests and saves that copy: `LoadLedger` and `SaveLedger`
(`books` is the event with the copy between them). Other commands book other money in
the same file and in the same way (`affiliate-confirm`, `record-payment`, the outcome of
an ecosystem task): `OpenBooks` and `CloseBooks` save a copy with a row that is none of
the opportunity's. No writer takes a lock; `dropped` remembers the payments whose row
was lost that way.

*Growth.* The worker's tick on an opportunity that is LIVE, with one process and
deaths between its two saves (`opportunities.json`, then `tasks.json`). A task's id
is its idempotency key; a check is present by being due. `Measure` appends to the
series (capped at `SeriesCap`), moves the state, passes the verdict on traction
and creates what `evaluate_optimization` and `evaluate_promotion` warrant.

*Autonomy.* `BeginCycle` loads the requests and the engine's board; `Discover` is
the engine's own save; `ScoreAndSelect`, `BuildAndPublish` and `MeasureAndReview`
work on a copy of the board loaded after it; `SaveBoard` and `SaveRequests` are the
two saves at the end. `Accept`, `Abandon` and `Decide` load a file, `SaveEdit`
saves it. Scores are an order, `Rank`.

*Affiliate money.* `Click`, `LogClick`, `CountClick` are the two saves of
`record_click` under `_click_lock`; `Confirm`, `Settle`, `LoadLink`, `SaveLink`,
`Learn` are the four files of `confirm_commission`, `LoadForMint` and `SaveMint`
the link store of `create_link`. Nobody looks whether the link of a commission is on
file before `LoadLink`, which then skips it. `Reverse`, `Learn` and `Answer` are
`reverse_commission`: the note to reconcile the ledger is in the answer only. `lost`
remembers which rows a stale copy or a death has set back, `skipped` which commissions
were settled without their link, `cut` where a command died: the properties say what
holds for everything else.

*Affiliate chain.* One action per file a step writes: `SaveAsset`, `SaveLink`,
`Deploy`, `SaveLive`, `SavePlan`, `CyclePin`. Which offer fits and whether a page
passes is open.

*Candidates.* `Decide` is `operator.decide` (its order of passes, what it notes as
done, the stop conditions), `LoadBoard` and `Pass` or `Discover` are one pass with
its slow calls in between, `Refused` the budget that is used up. `Gate` is a command
of a human. `Book` and `SaveEarning` are the two files of `record_payment`.

*Orders.* What a buyer wrote is the number of the submission, a plan the number of
the draft. `StartDraft` and `SaveDraft` enclose the model call of
`draft_launch_plan`; `Render` and `SaveStaged` are the PDF and the record of
`stage_delivery`; `HumanSends`, `Mail`, `SaveSent` are `send_delivery`. The loop
(`revenue_loop`) stages only; a human stages and sends.

*Crashes.* `CrashWorker` and `CrashHuman` may happen in any step of the
processes in `MayCrash`; elsewhere `Die`, `Crash`, `ServerDies`, `CommandDies`,
`BoardDeath`, `OrderDeath` stop one process between any two of its steps. The copies
are gone, the files stay.

*Overlap.* In `Execution` with `Overlap = FALSE`, and in `SaleToDelivery` with
`MaxOverlaps = 0`, nothing starts while something else is under way (the "one worker,
one task at a time" of the worker's documentation, the job lock of JARVIS); a crash
still lets a next process find any intermediate state on disk. With `TRUE` everything
interleaves; `MaxOverlaps` bounds how often something starts beside something else,
and what is under way interleaves freely. In
the modules after and around the core, the processes named above always interleave,
with these exceptions: one worker in `Growth`, one commission command at a time in
`AffiliateMoney`, one booking, one drafting and one sending process in `PlanOrders`,
and the commands of a human at a gate, which do nothing slow, are single steps.

*Abstractions.* An adapter's result is chosen freely among those its code can
return. What a DEPLOY produces, what a metric is, and the wording of anything is
left out; a metric is present as what was seen of it (a visit, a lead, revenue).
The customer is an action `CustomerPays`; the provider answers or fails at will;
its time window is left out. `CHECK_TRAFFIC`, `CHECK_LEADS` and `DISTRIBUTE`
appear in `SaleToDelivery` by their effect on the lifecycle, one step each.

## 3. What is checked

Definitions marked "Wrong:" in the modules are plausible bugs. Each property of
each passing run is checked to fail when the corresponding definition is replaced
by its wrong form (`mutants` in `PROJECT.json`).

| Run | Instance | Shows |
|---|---|---|
| `queue` | 2 tasks with lease, backoff and schedule time, one gated, 4 attempts, fairness | order, keys, gates, releases kept, refinement of `TaskContract`, `Settles`, `FailurePropagates` |
| `execution_lifecycle` | a chain of 4, one worker that dies anywhere, one human | LIVE whenever DEPLOY succeeded |
| `execution_restart` | 2 tasks of 5 kinds, worker and human die anywhere, fairness | chains settle, ABANDONED is quiet and final |
| `execution_overlap` | 2 workers and a human interleaving, 3 tasks | every copy of the queue keeps order, keys and gates; no unreleased DEPLOY |
| `sale_safety` | 2 payments (one without address), 2 checks, worker and human in turn, fairness | one DELIVER and one product per payment, the record matches the outbox, no NO_TRACTION after a sale, one check under way, booked payments settle |
| `sale_overlap` | 1 payment, 2 checks, 2 workers that both poll it and a human who delivers, books other money or accepts again; up to 2 starts beside something else, everybody may die at any step | `EarnedOnly`, `NoSecondDeliver` |
| `sale_lost` | as `sale_safety` with 1 payment and a worker that dies | a violation: see below |
| `growth` | 2 channels (one draft only), 2 variants, 1 scaling, series of 3, 1 death | variants keep their distance, what succeeded is recorded, scalings bounded, fan-out complete |
| `autonomy` | 2 ideas of two categories, capacity 1, 1 human command, 1 death | capacity, pages before tests, requests match the board, which decisions may get lost |
| `affiliate_money` | 2 links that may be missing when a commission is settled, 2 commissions through one of them, 2 references, 2 threads, 2 clicks, 1 death | what stays counted, booked, reported and learnt |
| `affiliate_chain` | 2 opportunities, cap 1, 2 starts, 1 death | what a completed plan, a page, its link and its pin still mean |
| `plan_orders` | 1 candidate, 2 payments, 1 order, 3 cycles of one run of the operator, 2 submissions, 2 drafts, 1 death | gates hold on the board, every mail is due, nobody is taken back except by a stale copy |

Every invariant and action property these runs check is also proved for all values
of the constants (section 4); the runs show them on an instance, and show that they
are not vacuous: each is violated by its mutant.

The properties worth an argument:

- `LiveWhenDeployed`: the DEPLOY record and the state LIVE are written in
  different files; after any sequence of deaths, retries and second acceptances
  they agree. It holds for commands that do not die: an acceptance that dies
  between its two saves leaves a chain that runs to its end under an opportunity
  that is still SCORED.
- `DeployOnlyReleased`: an authorized channel lets a DEPLOY run without a human,
  but the chain's own DEPLOY is born with a closed gate, and neither retry, lease,
  second acceptance nor an overwritten file opens it.
- `EveryCopySound`: the queue's invariants are properties of one version of the
  file, so they survive arbitrary overwriting.
- `ChainSettles`: nothing gets stuck over any pattern of deaths. `BookedSettles`: nor
  over any pattern of provider failures; with deaths it fails with `DeliverPerPayment`.
- `NoTractionUnsold`: the verdict is passed on metrics that another task recorded
  in another tick, and is still never wrong about a sale.
- `SentOnce`, `RecordMatchesOutbox`: the worker's retries and a human's
  `deliver_now` share one record of what went out.
- `NoSecondDeliver`: two workers that load the ledger before either saves it both take
  a payment for new. Each adds the DELIVER task to its own copy of the queue, the file
  is one of the copies, and a worker that loads it later finds the row, as long as
  nobody has saved the ledger from an older copy.
- `VariantsSpaced`: the policy decides on a series that the store cuts off and on a
  number that travelled through a task; the property counts the measurements there
  really were.
- `FanOutComplete`: the distribution is recorded in one file, its fan-out in another,
  and only the attempt that saves the second may have been the one that did it.
- `CapacityHeld`: the copies of a cycle, of the engine and of a human overwrite each
  other, and still never is more in flight than the capacity allows.
- `DecisionsStick`, `NeverDowngraded`, `PageKeepsLink`: decisions, statuses and links
  do get lost to stale copies. The properties state the only way: by a writer that
  had loaded the file before. `ClicksAccounted` and `ConversionsAccounted` do the
  same for counters, row by row.
- `CountsOnce`, `ReversalReported`: four files, no transaction; the order of the saves
  decides which deaths a repeated command repairs, and which note is never given.
- `GatesHeld`: boards are overwritten by copies of any age, and a copy may put a
  candidate back or forward. It holds because each copy was once the file, and what
  a human has said once stays said; the proof makes this precise.
- `MailsAreDue`: a re-import, a stale draft, a second staging and a death between the
  mail and its record come together; each mail must still carry something reviewed,
  approved and paid, and a second one needs a death.

### Where the code and its words differ

`sale_lost` checks `DeliverPerPayment` with a worker that may die, and finds it
violated: `revenue.json` is saved while the DELIVER task exists in memory only
(`worker.py:505`), so a worker that dies before it saves the queue leaves a paid
order without a DELIVER task, for good, since the repeated event is a duplicate.

`NoSecondDeliver` without its exemption (for every `p \in Pay`) is violated in the
instance of `sale_overlap`, in 25 states: a worker has loaded the ledger for a payment,
a human command that books other money loads it too, the worker saves its row, adds
the DELIVER task, the task fails for good (no provider that delivers, say), the human
command saves its copy and with it drops the row; the next CHECK_REVENUE takes the
payment for new, books it again and, since `_spawn_deliver` passes over tasks that are
live or have succeeded only, adds a second DELIVER task. "Idempotent by `ref`"
(`revenue.py:153`) and "exactly ONE DELIVER task per confirmed payment"
(`worker.py:501`) hold only while one program at a time writes `revenue.json`.

Further differences, met while modelling. The models contain each of them; the
passing properties are stated so that they say what still holds.

| Where | What happens |
|---|---|
| `execution.py:305` | `reclaim_stale` never looks at `max_attempts`: a task whose worker dies each time is started for ever |
| `worker.py:296` | a tick that overlaps an abandon writes the cancelled tasks back to life, or out of existence |
| `worker.py:566` | a first sale booked in ACQUIRING_TRAFFIC or NO_TRACTION never becomes FIRST_SALE, and DELIVERING and ACTIVE are out of reach from then on |
| `opportunity_store.py:270` | a second acceptance erases deployment, deliveries and variants while the tasks that made them stay SUCCEEDED; `deliver_now` then sends again |
| `revenue.py:168`, `task_adapters.py:544` | two workers that overlap both book a payment as new; a command that books other money from a copy loaded before takes the row of a payment back, which is then booked, and possibly delivered, again |
| `worker.py:585` | a check run again after a death appends its measurement a second time |
| `worker.py:269` | SCALE asks for approval at run time on every attempt, released or not |
| `optimization.py:90` | the cool-down counts entries of a series cut off at 200 (`opportunity_store.py:41`); once it is full, the distance to the last variant stops growing |
| `scaling.py:82` | failed scalings do not count against the cap |
| `autonomy.py:254` | what was accepted is kept out of selection (`:207`), but the loop still builds and promotes an accepted opportunity whose legacy status says so |
| `strategist.py:36` | "one per category" gives way in the last step, which fills free slots with whatever is best |
| `autonomy.py:460` | a cycle saves the board it loaded at its start: an opportunity accepted meanwhile is no longer accepted in the store, while its tasks are in the queue |
| `acceptance.py:202` | abandon sets the lifecycle state only; the legacy status stays, and with it a place in flight |
| `ecosystem/affiliate_links.py:95` | the click lock is not taken by the other writers of the file |
| `ecosystem/affiliate_revenue.py:106` | a death between ledger and commission leaves a PENDING commission that is booked; reversed, it is not reported. A confirmation repeated with another reference books again, `CommissionStore.has_ref` has no caller |
| `ecosystem/affiliate_revenue.py:112` | a commission settled while its link is not on file (mistyped, never minted, set back) is booked and learnt from, and never counted on a link; nothing reports it |
| `ecosystem/affiliate_revenue.py:163` | the note that the ledger must be reconciled is in the answer of the reversal only: a command that dies after it saved the status never gives it, and a repeated one answers `already_reversed` without it |
| `ecosystem/affiliate_pipeline.py:33` | the cap of a night counts completed chains only |
| `ecosystem/affiliate_assets.py` | `build_asset` returns an asset that failed its check every time it is asked again |
| `workflow.py:257` | as long as a planner fails for an approved candidate, the operator decides on "investigate" again, up to its last cycle |
| `revenue.py:126` | a death between ledger and board leaves money booked on a candidate that is still launched; the same payment is refused from then on |
| `delivery.py:203` | the PDF is written before the record; after a death in between, a mail can carry a plan newer than the address it goes to |
| `intake.py`, `workflow.py:619` | a plan is saved into the copy loaded before the model was asked: a submission imported meanwhile is undone |

### Bounds, and why they are enough

- `MaxTasks` (2 to 6): two tasks make a dependency and a contest for a key, which is
  all `queue` needs, since its safety properties are proved for every number; three
  and five (`execution_*`) make a chain with a middle, and the chain of four with
  the task a second acceptance adds; four in the sale; six in `growth`, one per key.
- `MaxAttempts` 2 (4 in `queue`): an attempt that is retried and one that is the last.
  With 1 every failure is final; the overlapping runs use it to reach repeated
  work with fewer states. Attempts are counted to `MaxAttempts + 1`, which stands
  for "any number above"; only the comparison with `MaxAttempts` matters.
- `LeaseTime`, `RetryCap`, `MaxDelay` 0 to 2: whether a time is due is all that is
  ever asked; 0 makes a time due at once, 2 lets two times come due in either
  order. A lease of 0 lets a task that still runs be reclaimed at once, the worst
  case of an adapter that outlives its lease.
- `MaxCycles` 1: a check, its successor, and the end of the loop.
- Two workers (`execution_overlap`, `sale_overlap`): every pairwise overlap of copies.
  They are interchangeable, and these runs, which check no temporal property, use that
  symmetry.
- `MaxOverlaps` 2 (`sale_overlap`): two workers and the human under way together, or
  two overlaps one after the other; it bounds what starts, not how the steps of what
  has started interleave. The same run leaves out the other measurement tasks
  (`Measured = FALSE`), which write neither ledger nor queue; they are in `sale_safety`.
  About 950 000 distinct states. The theorems about overlap have neither bound.
- The keys offered in each run are named in the `MC_` modules: `LifecycleChain`,
  `PageAndStrays`, `ShortChain`, `BuildAndDeploy`.
- Policies scaled down (`growth`: `MinRounds` 1, `Cooldown` 2, `MaxVariants` 2,
  `MaxScalings` 1, `SeriesCap` 3; `autonomy`: `Capacity` 1, `StaleCycles` 2): each
  threshold can be missed by one, met, and passed, and the series is cut off within
  the run. `MaxMeasured` 3 measurements of traffic fill it.
- `MaxDeaths`, `MaxCrashes` 1: one death at any point, and a recovery; the execution
  and sale runs have no bound on deaths. `MaxEdits` 1: one human command per behaviour
  of `autonomy`, against every step of a cycle.
- `MaxClicks` 2: two threads that count at the same time. Two commissions through one
  link: two conversions of one row; the second link is the row that is set back.
- `MaxRuns`, `MaxIds` in `affiliate_chain`: a night and a human's chain, or a chain run
  again; ids for both and their links.
- `plan_orders`: one candidate with two payments (the first moves it, the second finds
  it earning), three cycles (discover, and two passes of which one may be refused),
  two submissions and two drafts (a re-import, a stale draft). That more
  candidates, payments, orders and deaths change nothing is what the theorems say.
- A command that would need an id beyond `MaxTasks` is not given.
  `AcceptAgain` leaves ids for the tasks of the workers under way.

### Fairness

Time passes (`WF` of `Elapse` or `Pass`). A worker is started again and again
(a schedule, `run_worker` in a loop), and no step of the tick fails for ever: its
steps are strongly fair, since a death may disable a step again and again.
In `TaskQueue` this reads: `Finish(t)` is strongly fair, some attempt of a task is
not lost with its process. Human commands that have begun end; that a human gives
any command is not assumed, so liveness says "ends, or waits for a human". Deaths,
provider failures and customers have no fairness. The other modules state no
liveness: their loops may be stopped by a human at any time, and nothing in the code
starts them again.

## 4. What is proved

`TaskQueueProofs` proves, for every number of tasks, every set of keys and
requests and every value of the time bounds that satisfy `TaskConstants` and
`RequestType`:

| Theorem | Statement |
|---|---|
| `TypeCorrect` | `Spec => []TypeOK` |
| `DependenciesFirstHolds` | `Spec => []DependenciesFirst` |
| `OneTaskPerKeyHolds` | `Spec => []OneTaskPerKey` |
| `ClosedGateHoldsAlways` | `Spec => []ClosedGateHolds` |
| `TerminalStaysFinal` | `Spec => TerminalIsFinal` |
| `GateOpensByReleaseOnly` | `Spec => GateOpensByRelease` |
| `OnlyLegalTransitionsHold` | `Spec => OnlyLegalTransitions` |
| `QueueImplementsContract` | `Spec => ImplementsContract` |

The argument has two halves. `StepEffects` shows that any step of the queue, seen
from a single task, is one of a short list of effects (`Effect`: the task keeps
its status, was just added, was promoted because all it needs succeeded, was
doomed, began, ended, was gated, was released, ...). It is proved operation by operation
and is the only place where the operators are expanded. Everything else follows
from the list. The inductive invariant is the type invariant with
`DependenciesFirst`, `OneTaskPerKey` and `ClosedGateHolds`. `DependenciesFirst` is
inductive because SUCCEEDED is never left (`SucceededStays`) and a task becomes
eligible only where `Promotable` has looked at its dependencies in the same
version of the queue. `OneTaskPerKey` needs the observation that a task can begin
to hold its key only by being added. The refinement
maps each effect on each task to a step of `TaskContract`; a pass of
`resolve_dependencies` that dooms several tasks at once is one `Cascade`.

`PlanOrdersProofs` proves, for any candidates, payments, orders, bounds and goals
that satisfy `BoardConstants` and `OrderConstants`, about the composed `Spec` of
`PlanOrders`:

| Theorem | Statement |
|---|---|
| `BoardTypeCorrect` | `Spec => []BoardTypeOK` |
| `GatesStayHeld` | `Spec => []GatesHeld` |
| `MailsStayDue` | `Spec => []MailsAreDue` |
| `NobodyTakenBack` | `Spec => NeverDowngraded` |

`GatesHeld` speaks of the board on file, which any copy may overwrite, so it is not
inductive. `BoardInv` asks the same of every copy: no candidate on the board, on the
operator's copy or on the booker's is past a gate that was not passed (`Sound`), the
ledger and its copy hold booked payments only, and whoever is about to be moved to
earning is launched on the booker's copy and has been paid for. Since what a human
has passed only grows, a copy stays sound while it ages (`GrowingKeepsSound`), and a
pass opens no gate (`PassesOpenNoGate`, `DiscoveryOpensNoGate`); `OneGateAtATime`
says that the transition table lets a human open one gate after the other. For
`MailsAreDue` the invariant `OrderInv` lets every paper carry its past: an entry, on
file or on the drafter's copy, that is reviewed has a reviewed submission, one with
a plan a draft drawn from a reviewed one, one that is approved an approved plan; a
PDF is all of it and paid (`PapersInOrder`, `MailsInOrder`). `DesksInOrder` counts
mails: an order is ahead of its senders' deaths by the mail that is recorded or the
one whose sender is still there, never by both. That holds because one process
sends, and because staging keeps `sent` (`StatusKept`). `NobodyTakenBack` uses
`BoardInv` and the order of the lifecycle (`Place`): each kind of write, applied to a
copy that is what the file holds, keeps place and notes.

### The execution core

`ExecutionProofs` is about any number of workers and humans, any tasks and keys and
any times that satisfy `TaskConstants` and `ExecutionConstants`:

| Theorem | Assumes | Statement |
|---|---|---|
| `VersionsStaySound` | | `Spec => []IInv` |
| `TypeCorrect` | | `Spec => []TypeOK` |
| `DeployOnlyReleasedHolds` | | `Spec => []DeployOnlyReleased` |
| `EveryCopySoundHolds` | | `Spec => []EveryCopySound` |
| `AbandonedIsQuietHolds` | `~Overlap` | `Spec => []AbandonedIsQuiet` |
| `AbandonedStaysHolds` | `~Overlap` | `Spec => AbandonedStays` |
| `LiveWhenDeployedHolds` | `~Overlap`, no command dies, the chain has its page tasks | `Spec => []LiveWhenDeployed` |

The first four assume nothing about who overlaps whom or who dies. They rest on one
observation: every operation on a queue changes each task in one of a few ways
(`Evolves`), whichever version of the queue it is applied to, so what is kept by
`Evolves` (`Sound`: order, keys, gates, ids, released DEPLOYs) is kept by the file and
by every copy on its own, and saving one over the other loses nothing of it.
`AbandonedIsQuiet` and `AbandonedStays` need more: `QuietInv` says that one process
at most is under way (`Serial`) and that from the first save of an abandonment on
no version of the queue has a live task of the chain. With `Overlap` both are false (section 5).
`LiveWhenDeployed` relates two files, and is not inductive: `FollowInv` says where the
opportunity has got to at least for each type of task that runs (`Entered`) or has
SUCCEEDED (`Reached`). A task's move is legal only because its dependency's was made,
so the proof shows that each of the page tasks and DEPLOY was created with that dependency
(`Wired`, through `accept`'s loop: `ExtendWoven`), that no later move of any task leads
back (`Advances`), and that PLAN does not run before the opportunity is SELECTED
(`InHand`). The last is what an acceptance that dies between its saves breaks, hence
the assumption.

### Sales

`SaleToDeliveryProofs`, for any payments, workers, humans, cycles and times:

| Theorem | Assumes | Statement |
|---|---|---|
| `SaleStaysSound` | | `Spec => []IInv` |
| `TypeCorrect` | | `Spec => []TypeOK` |
| `EarnedOnlyAlways` | | `Spec => []EarnedOnly` |
| `NoSecondDeliverAlways` | | `Spec => []NoSecondDeliver` (of payments whose row was not lost) |
| `OrderlyStaysSound` | `Orderly` | `Spec => []OrderlyInv` |
| `DeliverPerPaymentAlways` | `Orderly` | `Spec => []DeliverPerPayment` |
| `SentOnceAlways` | `Orderly` | `Spec => []SentOnce` |
| `RecordMatchesOutboxAlways` | `Orderly` | `Spec => []RecordMatchesOutbox` |
| `NoTractionUnsoldAlways` | `Orderly` | `Spec => []NoTractionUnsold` |
| `OneCheckUnderWayAlways` | `Orderly` | `Spec => []OneCheckUnderWay` |

`Orderly` is `MaxOverlaps = 0 /\ MayCrash = {} /\ ~Reaccept`: one process at a time (the job
lock of the server, one tick after the other), none of which dies, and no second
acceptance. It cannot be dropped: the run `sale_lost` shows that with a death
`DeliverPerPayment` is false, and section 5 says what overlap and a second
acceptance do to the others. `IInv` needs none of it: any number of workers poll at
once, each with its copy of the ledger between load and save, and others book beside
them. It holds the ledger against every version of the queue: whatever version there is
asks only for payments that were in the books at some time (`EverBooked`), and twice for
one only if its row was lost (`QueueInv`). That no stale copy brings a second task rests
on `OwnInv`: the queue copy of a worker that has a payment to add a task for lacks such a
task, unless the row was lost. Two workers may hold the same payment; each of their copies
lacks its task. It is kept because a task for a payment appears in the file only with its
row in the ledger, so a worker that loads the queue with the task in it and the ledger
after that finds the row, and passes over the payment, unless the row was lost in
between. `BookInv` says that what a worker books was confirmed, and by one poll booked
once; `RecordInv`, that whatever a copy of the record claims has happened (`Truthful`).
`OrderlyInv` adds what one process at a time keeps:
no row is lost, a worker's copy is the file but for its own changes (`CopyInv`), the
outbox and the deliveries on record differ by what was just sent (`OutboxInv`), the
record's revenue is the ledger's but for a check under way (`RevenueInv`), and the cycles
of checks form one chain with at most one link under way (`Chain`).

### The machines around the core

None of these theorems assumes anything beyond the named assumptions on the constants:
deaths, stale copies and whatever overlaps in the module (section 2) are all in.

| Module | Theorems (`Spec => []` of the property named) |
|---|---|
| `GrowthProofs` | `GrowthStaysSound` (`IInv`), `TypeCorrect`, `VariantsSpacedAlways`, `SucceededIsRecordedAlways`, `ScalingsBoundedAlways`, `FanOutCompleteAlways` |
| `AutonomyLoopProofs` | `LoopStaysSound` (`IInv`), `TypeCorrect`, `CapacityHeldAlways`, `TestedIsPublishedAlways`, `RequestsMatchBoardAlways`, `DecisionsStickAlways` (an action property) |
| `AffiliateMoneyProofs` | `MoneyStaysSound` (`IInv`), `ClicksAccountedAlways`, `ConversionsAccountedAlways`, `CountsOnceAlways`, `ReversalReportedAlways` |
| `AffiliateChainProofs` | `ChainStaysSound` (`IInv`), `TypeCorrect`, `CompletedIsLiveAlways`, `PublicIsBackedAlways`, `PageKeepsLinkAlways` (an action property) |

- `Growth`: the properties speak of the file; `IInv` makes the same claims of the file
  and of the worker's copy (`Sound(f, o, m)`). The property counts measurements, the
  policy the rounds of a series that is cut off; `Since` relates the two (a series may
  forget rounds, and never counts more than were measured), for the recorded variants
  (`Spaced`) and for those a task still carries (`Told`).
- `AutonomyLoop`: the capacity holds of every version of the board (`HeldInv`), since each
  pick of a cycle takes a slot that its own copy still has free, which is proved for
  each stage of the strategist. `MatchInv` says for each place in the cycle what the
  copies must hold so that board and requests agree at its end; `DecisionsInv` that
  a copy lacks only the decisions made since it was loaded.
- `AffiliateMoney`: `BooksInv` ties status, references, ledger and lessons to what the
  command has left to do; `VersionsInv` bounds every version of the link file,
  the copies of server, chain and command included; `ExactInv` says that
  a row nobody set back is exact up to the click and the conversion under way, over the
  commissions that found their link (`Reached`). No invariant assumes that a commission's
  link exists; what was told follows from the answers given, not from the status saved.
- `AffiliateChain`: the steps of night and human are the same operators on the state of a
  runner, so one lemma serves both. `OwnInv` says that an asset id means one
  opportunity to everybody, even after a save was taken back; `KeptInv`, that while
  none was, there is one asset per opportunity and one link per asset, and what is
  completed or public is on file.

### Only model-checked

- The liveness properties: `Settles` and `FailurePropagates` of the queue, `ChainSettles`,
  `BookedSettles`. They rest on fairness and `ENABLED`, which the prover does not
  handle.
- `AffiliateMoney`'s `TypeOK` says that clicks stay within the model's own bound, summed
  over the links by a fold; about a fold over a set nothing can be proved here. Its typing is proved
  as `ShapeInv`.
- That `DeliverPerPayment` is false with a death (`sale_lost`).

## 5. Limits a reader should know

- `AbandonedStays` is checked for commands that do not overlap. When an accept and
  an abandon overlap, the one that saves last wins, and the abandon can be undone.
- With overlap or with deaths in `deliver_now`, a product can be sent twice (the
  mail goes out before the record is saved) and a delivery can be overwritten in
  the record; `sale_overlap` checks what is left: nothing is sent that never was
  booked, no state is claimed without cause, no second DELIVER task for a payment
  whose row the ledger kept.
- A mail server that raises is taken not to have sent the mail (`Send`, `MailFails`). One
  that accepts the mail and then times out would add a second mail without a death.
- The other writers of `revenue.json` appear in `SaleToDelivery` by the row they add, which
  is none of the opportunity's, hence by what they take back.
- `OneCheckUnderWay` is checked without a second acceptance. With one, a failed
  first check is created again beside the recurring one.
- `LiveWhenDeployed` is checked for commands that do not die: an acceptance that dies
  between its two saves leaves a chain that runs to its end under an opportunity that
  is still SCORED.
- `TaskQueue` and the models of processes take `heartbeat` as the code has it:
  defined, with no caller. A lease therefore always runs out in a long adapter.
- `MailsAreDue` is about one sender at a time. With two, the older copy of
  `deliveries.json` may be saved last and forget that another order was sent; `--force`,
  which is there to send again, is left out.
- `RequestsMatchBoard` exempts a cycle that was cut, or crossed by a command, until the
  end: the code repairs neither by itself.
- `CandidateBoard` has one booking process; that two of them lose each other's rows is
  modelled in `SaleToDelivery`.
- `SaveStaged` of `PlanOrders` loads and saves `deliveries.json` in one step: between the
  two, `stage_delivery` (after the PDF is written) does nothing slow.
- `PageKeepsLink` exempts what follows a save from a stale copy (`undone`), also where only
  the copy of the board was stale and the page would keep its link all the same.
- Storage is taken to keep what `os.replace` was told; corrupted or half-written
  files are not modelled.

### Not modelled

Parsing, scoring, ranking and rendering keep no state and are left out, with the
social channels, outreach, the roster agents, the dashboards and the command line
(`PROJECT.json` has the list and the reasons). Of the parts with behaviour over time
these are left:

- *Spending* (`budget.py`, `budget_guard.py`, `llm_spend.py`): what was spent is read
  before a call and recorded after it, so that two calls under way together pass the
  check together. In `CandidateBoard` it is present as `Refused` only.
- *Orchestrator* (`orchestrator.py`): follow-ups in memory, bounded by depth and number.
- *Agent control and scheduling*: the pause is a step of `AutonomyLoop`; the rest, and
  the sessions of `run_continuous`, are not modelled.
- *Pipeline and deployment of candidates* (`pipeline.py`, `deploy.py`,
  `experiments.py`), which save fields of a candidate of their own.

## 6. Plan

Done: the queue with its proofs; the processes of the execution core; sales; what
follows LIVE; the autonomous loop and the approvals; affiliate money and the affiliate
chain; candidates and the delivery of plans. Each of these modules has its proofs:
all invariants and action properties the runs check are theorems.

Left, in this order:

1. Theorems under weaker assumptions: `SentOnce` and `RecordMatchesOutbox` of
   `SaleToDelivery` with a worker that dies anywhere but between the mail and its
   record; `OneCheckUnderWay` for second acceptances that find a live check.
2. The step refinement `Execution` suggests: a version of the queue seen by one worker
   between its load and its save is a behaviour of `TaskQueue`.
3. A module for the spending limits (concurrent calls against the caps; by how much a
   cap can be exceeded) and one for the orchestrator (depth and number of follow-ups),
   small enough to be proved.
