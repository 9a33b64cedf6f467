---------------------------- MODULE AutonomyLoop ----------------------------
(***************************************************************************)
(* The autonomous revenue loop (autonomy.py) over the opportunity board    *)
(* (opportunity_store.py) and the approval requests (approvals.py).        *)
(*                                                                         *)
(* A cycle works on copies: the requests are loaded when it begins, the    *)
(* board after the engine has written its proposals, and both are written  *)
(* back whole at the end, in two saves.  Meanwhile a human accepts and     *)
(* abandons opportunities and decides requests, each by a load and a save  *)
(* of the same files, and the process may die.                             *)
(*                                                                         *)
(* Abstracted: the estimates behind a score (Rank is the order they give), *)
(* titles, drafts and pages, and autonomy.json, which is for display.      *)
(***************************************************************************)
EXTENDS OpportunityState, Integers, FiniteSets

CONSTANTS
    Opp,            \* ids the engine, or an adjacent idea, may bring up
    Cat,            \* category of an opportunity
    Rank,           \* its place when sorted by score: 1 is the best
    Adjacent,       \* ideas next to one that works
    Capacity,       \* experiments in flight at a time      (DEFAULT_CAPACITY)
    PerCategory,    \* shortlisted per category             (_PER_CAT_SHORTLIST)
    MaxShortlist,   \* shortlisted in all                   (_MAX_SHORTLIST)
    SweepAt, SweepKeep,   \* prune_abandoned(trigger, keep)
    StaleCycles,    \* cycles without traction              (_STALE_CYCLES)
    DiscoverMax,    \* proposals of one cycle               (discover_n)
    MaxEdits,       \* bound: commands of humans
    MaxCrashes      \* bound: deaths of the process

ASSUME LoopAssumption ==
    /\ IsFiniteSet(Opp)
    /\ Rank \in [Opp -> Nat]
    /\ \A o, p \in Opp : Rank[o] = Rank[p] => o = p
    /\ Adjacent \in [Opp -> SUBSET Opp]
    /\ {Capacity, PerCategory, MaxShortlist, SweepAt, SweepKeep, StaleCycles,
        DiscoverMax, MaxEdits, MaxCrashes} \subseteq Nat

VARIABLES
    board,      \* opportunities.json
    requests,   \* approvals.json
    published,  \* pages staged under published/
    ledger,     \* opportunities with booked revenue
    paused,     \* agent_control.json: the fleet is paused
    pc,         \* where the cycle stands
    work, asks, \* its copies of the board and of the requests
    edit,       \* the command of a human under way, with the file it will save
    during,     \* history: requests decided since the cycle loaded them
    torn,       \* history: a cycle was cut between its saves, or crossed a command
    edits, crashes

loop == <<pc, work, asks>>
human == <<edit, edits>>
vars == <<board, requests, published, ledger, paused, loop, human, during, torn, crashes>>

-----------------------------------------------------------------------------
(* The board *)

Absent == [status |-> "none", state |-> "none", accepted |-> FALSE,
           cycles |-> 0, earned |-> FALSE]
Fresh == [Absent EXCEPT !.status = "discovered", !.state = "DISCOVERED"]
EmptyBoard == [o \in Opp |-> Absent]

Status == DOMAIN StateOfStatus

Put(b, S, r) == [o \in Opp |-> IF o \in S THEN r ELSE b[o]]
With(b, statuses) == {o \in Opp : b[o].status \in statuses}
Accepted(b) == {o \in Opp : b[o].accepted}
InFlight(b) == With(b, {"building", "testing", "active"})
Categories(S) == {Cat[o] : o \in S}

Better(o, S) == {p \in S : Rank[p] < Rank[o]}
Top(S, k) == {o \in S : Cardinality(Better(o, S)) < k}

\* set_status: the legacy status, mirrored into the lifecycle even where the
\* move is not legal (it is then only marked as forced).
SetStatus(b, S, s) ==
    [o \in Opp |-> IF o \in S THEN [b[o] EXCEPT !.status = s, !.state = StateOfStatus[s]]
                   ELSE b[o]]

\* upsert: a known id keeps its lifecycle and history.
Upsert(b, S) == Put(b, S \cap With(b, {"none"}), Fresh)

(* The requests: what of an opportunity needs money *)

Request == {"checkout", "scale"} \X Opp
NoRequests == [q \in Request |-> "none"]
Decided(s) == s \in {"approved", "denied"}

\* Wrong: files again what was decided.
FileAgain(a, kind, S) ==
    [q \in Request |-> IF q[1] = kind /\ q[2] \in S THEN "pending" ELSE a[q]]

\* request_money: a known request keeps its decision.
File(a, kind, S) ==
    [q \in Request |-> IF q[1] = kind /\ q[2] \in S /\ a[q] = "none"
                       THEN "pending" ELSE a[q]]

\* Wrong: leaves the requests of what was given up.
WithdrawNothing(a, S) == a

\* withdraw_for_opportunity: what is decided stays.
Withdraw(a, S) ==
    [q \in Request |-> IF q[2] \in S /\ a[q] = "pending" THEN "none" ELSE a[q]]

\* _money_blocked_ids
Denied(a) == {o \in Opp : \E q \in Request : q[2] = o /\ a[q] = "denied"}

-----------------------------------------------------------------------------
(* The strategist *)

\* The shortlist: the best of each category, and so many in all.
Shortlist(S) ==
    LET fits == {o \in S : Cardinality({p \in Better(o, S) : Cat[p] = Cat[o]})
                           < PerCategory}
    IN Top(fits, MaxShortlist)

\* Wrong: counts only what is being built.
FreeSlotsBuilding(b) ==
    LET live == With(b, {"building"}) \ Accepted(b)
    IN IF Capacity > Cardinality(live) THEN Capacity - Cardinality(live) ELSE 0

FreeSlots(b) ==
    LET live == InFlight(b) \ Accepted(b)
    IN IF Capacity > Cardinality(live) THEN Capacity - Cardinality(live) ELSE 0

\* select_experiments: one exploration pick from a category never tested, the
\* best of each category not running, then whatever is best.
Picks(b, blocked) ==
    LET free == FreeSlots(b)
        running == Categories(InFlight(b) \ Accepted(b))
        tested == running \cup
            Categories({o \in With(b, {"abandoned"}) \ Accepted(b) : b[o].cycles > 0})
        pool == With(b, {"evaluating", "discovered"}) \ (Accepted(b) \cup blocked)
        explore == Top({o \in pool : Cat[o] \notin tested}, IF free > 0 THEN 1 ELSE 0)
        used == running \cup Categories(explore)
        leaders == {o \in pool : /\ Cat[o] \notin used
                                 /\ \A p \in Better(o, pool) : Cat[p] # Cat[o]}
        spread == explore \cup Top(leaders, free - Cardinality(explore))
    IN spread \cup Top(pool \ spread, free - Cardinality(spread))

\* review_experiments; the loop records no signal but revenue, and "optimize"
\* only leaves a note.
Verdict(r) == CASE r.earned -> "promote"
                [] ~r.earned /\ r.cycles >= StaleCycles -> "abandon"
                [] OTHER -> "continue"

-----------------------------------------------------------------------------
(* One cycle *)

Init ==
    /\ board = EmptyBoard
    /\ requests = NoRequests
    /\ published = {}
    /\ ledger = {}
    /\ paused = FALSE
    /\ pc = "idle" /\ work = EmptyBoard /\ asks = NoRequests
    /\ edit = <<>> /\ edits = 0
    /\ during = {} /\ torn = FALSE
    /\ crashes = 0

\* run_cycle up to the engine: the requests and the engine's copy of the board.
BeginCycle ==
    /\ pc = "idle" /\ ~paused
    /\ asks' = requests
    /\ work' = board
    /\ during' = {}
    /\ pc' = "discover"
    /\ UNCHANGED <<board, requests, published, ledger, paused, human, torn, crashes>>

\* generate: ideas that are not on the board yet, saved by the engine itself.
Discover ==
    /\ pc = "discover"
    /\ \E new \in SUBSET With(work, {"none"}) :
          /\ Cardinality(new) <= DiscoverMax
          /\ board' = Upsert(work, new)
    /\ pc' = "select"
    /\ UNCHANGED <<requests, published, ledger, paused, work, asks, human, during, torn, crashes>>

\* prune_abandoned on copy b; which ones are the newest is left open.
Swept(b) ==
    LET gone == With(b, {"abandoned"})
    IN IF Cardinality(gone) < SweepAt THEN {b}
       ELSE {Put(b, gone \ keep, Absent) :
                keep \in {k \in SUBSET gone : Cardinality(k) = SweepKeep}}

\* SCORE and SELECT on a fresh copy of the board.
ScoreAndSelect ==
    /\ pc = "select"
    /\ LET known == Accepted(board)
           scored == SetStatus(board, With(board, {"discovered"}) \ known, "evaluating")
           listed == With(scored, {"evaluating"}) \ known
           dropped == listed \ Shortlist(listed)
           pruned == SetStatus(scored, dropped, "abandoned")
       IN /\ asks' = Withdraw(asks, dropped)
          /\ \E b \in Swept(pruned) :
                work' = SetStatus(b, Picks(b, Denied(asks')), "building")
    /\ pc' = "build"
    /\ UNCHANGED <<board, requests, published, ledger, paused, human, during, torn, crashes>>

\* Wrong: tests what was never staged.
TestedUnstaged(building, staged) == building

\* Which of the opportunities being built go to testing.
Tested(building, staged) == staged

\* PLAN to PUBLISH: what passes the quality check and has a page is staged on
\* disk.  While the fleet is paused no agent runs, so nothing passes.
BuildAndPublish ==
    /\ pc = "build"
    /\ \E staged \in SUBSET With(work, {"building"}) :
          /\ paused => staged = {}
          /\ published' = published \cup staged
          /\ asks' = File(asks, "checkout", staged)
          /\ work' = SetStatus(work, Tested(With(work, {"building"}), staged), "testing")
    /\ pc' = "review"
    /\ UNCHANGED <<board, requests, ledger, paused, human, during, torn, crashes>>

\* MEASURE: one more cycle in flight (counted up to StaleCycles), and revenue
\* from the ledger, which only rises.
Measured(b) ==
    [o \in Opp |-> IF o \in InFlight(b)
                   THEN [b[o] EXCEPT !.cycles = IF @ < StaleCycles THEN @ + 1 ELSE @,
                                     !.earned = @ \/ o \in ledger]
                   ELSE b[o]]

\* ACQUIRE to REINVEST.
MeasureAndReview ==
    /\ pc = "review"
    /\ LET m == Measured(work)
           given(v) == {o \in InFlight(m) : Verdict(m[o]) = v}
           b == SetStatus(SetStatus(m, given("abandon"), "abandoned"),
                          given("promote"), "successful")
           next == UNION {Adjacent[o] : o \in given("promote")}
       IN /\ work' = Upsert(b, next)
          /\ asks' = File(Withdraw(asks, given("abandon")), "scale",
                          With(b, {"successful"}))
    /\ pc' = "save board"
    /\ UNCHANGED <<board, requests, published, ledger, paused, human, during, torn, crashes>>

SaveBoard ==
    /\ pc = "save board"
    /\ board' = work
    /\ torn' = (torn \/ edit # <<>>)
    /\ pc' = "save requests"
    /\ UNCHANGED <<requests, published, ledger, paused, work, asks, human, during, crashes>>

SaveRequests ==
    /\ pc = "save requests"
    /\ requests' = asks
    /\ torn' = (torn \/ edit # <<>>)
    /\ pc' = "idle"
    /\ work' = EmptyBoard /\ asks' = NoRequests
    /\ UNCHANGED <<board, published, ledger, paused, human, during, crashes>>

CycleStep == \/ Discover \/ ScoreAndSelect \/ BuildAndPublish
             \/ MeasureAndReview \/ SaveBoard \/ SaveRequests

-----------------------------------------------------------------------------
(* Everybody else *)

StartEdit(kind, file) ==
    /\ edit = <<>> /\ edits < MaxEdits
    /\ edit' = <<kind, file>>
    /\ edits' = edits + 1
    /\ UNCHANGED <<board, requests, published, ledger, paused, loop, during, torn, crashes>>

\* accept_opportunity loads the board, works on the task queue, saves the board.
Accept(o) ==
    /\ board[o].status # "none" /\ board[o].state # "ABANDONED"
    /\ StartEdit("board",
          [board EXCEPT ![o].accepted = TRUE,
                        ![o].state = IF @ \in {"DISCOVERED", "RESEARCHING", "SCORED"}
                                     THEN "SELECTED" ELSE @])

\* abandon_opportunity: the lifecycle only, not the legacy status.
Abandon(o) ==
    /\ board[o].status # "none" /\ CanTransition(board[o].state, "ABANDONED")
    /\ StartEdit("board", [board EXCEPT ![o].state = "ABANDONED"])

\* approve-request and deny-request, also of what is decided already.
Decide(q, d) ==
    /\ requests[q] # "none"
    /\ StartEdit("requests", [requests EXCEPT ![q] = d])

SaveEdit ==
    /\ edit # <<>>
    /\ IF edit[1] = "board"
       THEN board' = edit[2] /\ UNCHANGED <<requests, during>>
       ELSE /\ requests' = edit[2]
            /\ during' = IF pc = "idle" THEN during
                         ELSE during \cup {q \in Request : edit[2][q] # requests[q]}
            /\ UNCHANGED board
    /\ torn' = (torn \/ pc # "idle")
    /\ edit' = <<>>
    /\ UNCHANGED <<published, ledger, paused, loop, edits, crashes>>

\* The worker drains the queue after a cycle, in the same job.
WorkerMoves(o) ==
    /\ pc = "idle" /\ ~paused
    /\ board[o].accepted /\ board[o].state = "SELECTED"
    /\ board' = [board EXCEPT ![o].state = "PLANNING"]
    /\ UNCHANGED <<requests, published, ledger, paused, loop, human, during, torn, crashes>>

Pause ==
    /\ ~paused /\ edits < MaxEdits
    /\ paused' = TRUE /\ edits' = edits + 1
    /\ UNCHANGED <<board, requests, published, ledger, loop, edit, during, torn, crashes>>

Resume ==
    /\ paused
    /\ paused' = FALSE
    /\ UNCHANGED <<board, requests, published, ledger, loop, human, during, torn, crashes>>

\* A human books a payment for an opportunity whose page is out.
Book(o) ==
    /\ o \in published \ ledger
    /\ ledger' = ledger \cup {o}
    /\ UNCHANGED <<board, requests, published, paused, loop, human, during, torn, crashes>>

\* The process dies: the copies are gone, the files stay.
Crash ==
    /\ pc # "idle" \/ edit # <<>>
    /\ crashes < MaxCrashes
    /\ crashes' = crashes + 1
    /\ torn' = (torn \/ pc = "save requests")
    /\ pc' = "idle" /\ work' = EmptyBoard /\ asks' = NoRequests
    /\ edit' = <<>>
    /\ UNCHANGED <<board, requests, published, ledger, paused, edits, during>>

Next ==
    \/ BeginCycle \/ CycleStep
    \/ \E o \in Opp : Accept(o) \/ Abandon(o) \/ WorkerMoves(o) \/ Book(o)
    \/ \E q \in Request, d \in {"approved", "denied"} : Decide(q, d)
    \/ SaveEdit \/ Pause \/ Resume \/ Crash

Spec == Init /\ [][Next]_vars

-----------------------------------------------------------------------------
(* Properties *)

OppRecord == [status : Status \cup {"none"}, state : OppState \cup {"none"},
              accepted : BOOLEAN, cycles : 0..StaleCycles, earned : BOOLEAN]
RequestStatus == {"none", "pending", "approved", "denied"}

\* The files and the copies hold what the code can have written.
TypeOK ==
    /\ {board, work} \subseteq [Opp -> OppRecord]
    /\ {requests, asks} \subseteq [Request -> RequestStatus]
    /\ published \subseteq Opp /\ ledger \subseteq Opp /\ paused \in BOOLEAN
    /\ pc \in {"idle", "discover", "select", "build", "review", "save board",
               "save requests"}
    /\ edit # <<>> => \/ edit[1] = "board" /\ edit[2] \in [Opp -> OppRecord]
                      \/ edit[1] = "requests" /\ edit[2] \in [Request -> RequestStatus]
    /\ during \subseteq Request /\ torn \in BOOLEAN
    /\ edits \in 0..MaxEdits /\ crashes \in 0..MaxCrashes

\* strategist.py: the experiments in flight never exceed the capacity, whatever
\* copies of the board overwrite each other and wherever the process dies.
CapacityHeld == \A b \in {board, work} : Cardinality(InFlight(b) \ Accepted(b)) <= Capacity

\* autonomy.py, PUBLISH: an opportunity is in testing only once its page is on
\* disk - also when the process dies between the page, the board and the
\* requests, or a stale copy of the board comes back.
TestedIsPublished == With(board, {"testing"}) \subseteq published

\* autonomy.py, "persist": the board and the requests are saved one after the
\* other.  Unless a cycle died in between or overlapped a command, an experiment
\* in testing has its checkout request on file, and what was abandoned has none
\* left for a human to decide.
RequestsMatchBoard ==
    pc = "idle" /\ ~torn =>
       \A o \in Opp :
          /\ board[o].status = "testing" => requests[<<"checkout", o>>] # "none"
          /\ board[o].status \in {"abandoned", "none"} =>
                \A q \in Request : q[2] = o => requests[q] # "pending"

\* approvals.py: a decision of a human gets lost only when the cycle that
\* overwrites it had loaded the requests before it was made.
DecisionsStick ==
    [][\A q \in Request : Decided(requests[q]) /\ ~Decided(requests'[q]) => q \in during]_vars

=============================================================================
