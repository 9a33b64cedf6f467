--------------------------- MODULE CandidateBoard ---------------------------
(***************************************************************************)
(* The candidates of candidates.json on their way from discovery to money: *)
(* the operator (operator.py) that decides and runs one pass after another *)
(* (workflow.py), the human at the gates (approval.py, validation.py,      *)
(* revenue.py) and the booking of payments a provider has processed        *)
(* (paypal.py), with the revenue ledger.                                   *)
(*                                                                         *)
(* Every writer loads the whole file, changes its copy and saves it whole. *)
(* Between the two, a pass asks models or sources and a booking asks the   *)
(* provider; a gate command does nothing slow, it is one step.             *)
(***************************************************************************)
EXTENDS Naturals, Sequences, FiniteSets

CONSTANTS
    Cand,         \* names of candidates
    Pay,          \* payments of the provider (their references)
    PaidFor,      \* PaidFor[p]: the candidate in the custom field of p
    Goal,         \* the opt-in workers the goal turns on
    ShortlistN,   \* Goal.shortlist_n
    Target,       \* Goal.target_validated (more than there are candidates: None)
    MaxCycles,    \* max_cycles of one run
    MaxRuns,      \* bound of the model: runs of the operator
    MaxDeaths     \* bound of the model: deaths of programs

Optional == {"research", "analyze_competition", "write_copy", "package_deliverable"}

ASSUME BoardConstants ==
    /\ PaidFor \in [Pay -> Cand]
    /\ Goal \subseteq Optional
    /\ ShortlistN \in Nat
    /\ Target \in Nat
    /\ MaxCycles \in Nat \ {0}
    /\ MaxRuns \in Nat
    /\ MaxDeaths \in Nat

Ladder == <<"discovered", "shortlisted", "approved", "investigating",
            "validated", "launched", "earning">>
Status == {Ladder[i] : i \in 1..7} \cup {"absent", "rejected"}

\* Wrong: a candidate under investigation may be launched.
ForwardSkipping(status) ==
    CASE status = "discovered"    -> {"shortlisted"}
      [] status = "shortlisted"   -> {"approved"}
      [] status = "approved"      -> {"investigating"}
      [] status = "investigating" -> {"validated", "launched"}
      [] status = "validated"     -> {"launched"}
      [] status \in {"launched", "earning"} -> {"earning"}
      [] OTHER -> {}

\* The table _FORWARD.
Forward(status) ==
    CASE status = "discovered"    -> {"shortlisted"}
      [] status = "shortlisted"   -> {"approved"}
      [] status = "approved"      -> {"investigating"}
      [] status = "investigating" -> {"validated"}
      [] status = "validated"     -> {"launched"}
      [] status \in {"launched", "earning"} -> {"earning"}
      [] OTHER -> {}

CanTransition(from, to) ==
    /\ from \notin {"absent", "rejected"}
    /\ to = "rejected" \/ to \in Forward(from)

\* What the passes attach to a candidate: the offer, and a note per worker.
Note == {"offer"} \cup Goal
Candidate == [status : Status, notes : SUBSET Note]
Absent == [status |-> "absent", notes |-> {}]
Board == [Cand -> Candidate]

VARIABLES
    board,    \* candidates.json
    ledger,   \* revenue.json: the references it holds
    agent,    \* the operator's process
    runs,     \* how many times it was started
    booker,   \* the process that books payments: sync, verify or a command
    deaths,
    passed,   \* history: what a human, or a booked payment, said of each candidate
    booked    \* history: the payments that were ever in the ledger

boardVars == <<board, ledger, agent, runs, booker, deaths, passed, booked>>

Empty == [c \in Cand |-> Absent]
Resting == [pc |-> "idle", action |-> "stop", copy |-> Empty, done |-> {},
            capped |-> FALSE, cycle |-> 0]
NoBooker == [pc |-> "idle", copy |-> Empty, ledger |-> {}, paid |-> {}]

BoardInit ==
    /\ board = Empty
    /\ ledger = {}
    /\ agent = Resting
    /\ runs = 0
    /\ booker = NoBooker
    /\ deaths = 0
    /\ passed = [c \in Cand |-> {}]
    /\ booked = {}
-----------------------------------------------------------------------------
(* The operator's decision.                                                *)

In(b, statuses) == {c \in Cand : b[c].status \in statuses}
Lacking(b, status, note) == {c \in In(b, {status}) : note \notin b[c].notes}

\* The candidates an action finds something to do for.
Pending(b, action) ==
    CASE action = "investigate"    -> In(b, {"approved"})
      [] action = "prepare_launch" -> Lacking(b, "validated", "offer")
      [] action \in {"research", "analyze_competition"} ->
             Lacking(b, "shortlisted", action)
      [] action \in {"write_copy", "package_deliverable"} ->
             Lacking(b, "validated", action) \ Lacking(b, "validated", "offer")
      [] OTHER -> {}

\* The passes over stored candidates in the order decide tries them; the others
\* of _ACTIONS only read the board.
Passes == <<"investigate", "prepare_launch", "write_copy",
            "package_deliverable", "research", "analyze_competition">>
Action == {Passes[i] : i \in 1..6} \cup {"discover", "stop"}
Wanted(action) == action \in Goal \/ action \in {"investigate", "prepare_launch"}
Due(i) ==
    /\ Wanted(Passes[i])
    /\ Passes[i] \notin agent.done
    /\ Pending(board, Passes[i]) # {}

TargetReached ==
    Cardinality(In(board, {"validated", "launched", "earning"})) >= Target

\* With candidates on the board, whether to discover more hangs on the age of
\* the last discovery, the length of the shortlist or the answer of a model:
\* left open.  An empty board is always filled, unless a discovery found nothing.
Decisions ==
    IF agent.capped \/ TargetReached
    THEN {"stop"}
    ELSE IF \E i \in 1..6 : Due(i)
    THEN {Passes[CHOOSE i \in 1..6 : Due(i) /\ \A j \in 1..(i - 1) : ~Due(j)]}
    ELSE IF "discover" \in agent.done
    THEN {"stop"}
    ELSE {"discover"} \cup (IF In(board, Status \ {"absent"}) = {} THEN {} ELSE {"stop"})

StartRun ==
    /\ agent.pc = "idle"
    /\ runs < MaxRuns
    /\ runs' = runs + 1
    /\ agent' = [Resting EXCEPT !.pc = "deciding"]
    /\ UNCHANGED <<board, ledger, booker, deaths, passed, booked>>

Decide ==
    /\ agent.pc = "deciding"
    /\ \E a \in Decisions :
           agent' = IF a = "stop" THEN Resting
                    ELSE [agent EXCEPT !.pc = "decided", !.action = a]
    /\ UNCHANGED <<board, ledger, runs, booker, deaths, passed, booked>>

\* The end of a cycle: the next one, or the end of the run.
NextCycle(done, capped) ==
    IF agent.cycle + 1 = MaxCycles THEN Resting
    ELSE [Resting EXCEPT !.pc = "deciding", !.done = done, !.capped = capped,
                         !.cycle = agent.cycle + 1]

LoadBoard ==
    /\ agent.pc = "decided"
    /\ agent' = [agent EXCEPT !.pc = "working", !.copy = board]
    /\ UNCHANGED <<board, ledger, runs, booker, deaths, passed, booked>>

\* The builder of a worker that asks a model finds no budget left: nothing is
\* saved and the run will stop.
Refused ==
    /\ agent.pc = "working"
    /\ agent.action # "package_deliverable"
    /\ agent' = NextCycle(agent.done, TRUE)
    /\ UNCHANGED <<board, ledger, runs, booker, deaths, passed, booked>>
-----------------------------------------------------------------------------
(* The passes.  Of the pending candidates any may fail and stay as it was. *)

Treated(candidate, action) ==
    CASE action = "investigate"    -> [candidate EXCEPT !.status = "investigating"]
      [] action = "prepare_launch" -> [candidate EXCEPT !.notes = @ \cup {"offer"}]
      [] OTHER                     -> [candidate EXCEPT !.notes = @ \cup {action}]

\* investigate and prepare_launch save in any case, the others only when they
\* found something pending; they note when a pass came to nothing.
Pass ==
    /\ agent.pc = "working"
    /\ agent.action # "discover"
    /\ \E well \in SUBSET Pending(agent.copy, agent.action) :
         /\ board' = IF agent.action \in Goal /\ Pending(agent.copy, agent.action) = {}
                     THEN board
                     ELSE [c \in Cand |-> IF c \in well
                                          THEN Treated(agent.copy[c], agent.action)
                                          ELSE agent.copy[c]]
         /\ agent' = NextCycle(IF agent.action \in Goal /\ well = {}
                               THEN agent.done \cup {agent.action}
                               ELSE agent.done, FALSE)
    /\ UNCHANGED <<ledger, runs, booker, deaths, passed, booked>>

\* Wrong: a candidate that is found again starts anew.
UpsertAnew(candidate) == [candidate EXCEPT !.status = "discovered"]

\* A candidate that is known keeps its status and its notes.
Upsert(candidate) ==
    [candidate EXCEPT !.status = IF @ = "absent" THEN "discovered" ELSE @]

\* What one discovery leaves in the store, with the best of what it kept.
Discovered(copy, kept, best) ==
    [c \in Cand |->
        IF c \notin kept THEN copy[c]
        ELSE IF c \in best /\ Upsert(copy[c]).status = "discovered"
        THEN [Upsert(copy[c]) EXCEPT !.status = "shortlisted"]
        ELSE Upsert(copy[c])]

Discover ==
    /\ agent.pc = "working"
    /\ agent.action = "discover"
    /\ \E kept \in SUBSET Cand : \E best \in SUBSET kept :
         /\ Cardinality(best) = IF Cardinality(kept) < ShortlistN
                                THEN Cardinality(kept) ELSE ShortlistN
         /\ board' = Discovered(agent.copy, kept, best)
         /\ agent' = NextCycle(IF kept \subseteq In(agent.copy, Status \ {"absent"})
                               THEN agent.done \cup {"discover"}
                               ELSE agent.done, FALSE)
    /\ UNCHANGED <<ledger, runs, booker, deaths, passed, booked>>
-----------------------------------------------------------------------------
(* The human at the gates.                                                 *)

Gate(c, to) ==
    /\ CanTransition(board[c].status, to)
    /\ board' = [board EXCEPT ![c].status = to]
    /\ passed' = [passed EXCEPT ![c] = @ \cup {to}]
    /\ UNCHANGED <<ledger, agent, runs, booker, deaths, booked>>

Approve == \E c \in Cand : Gate(c, "approved")
\* By reject, or as the outcome of a validation: both are legal at any status.
Reject == \E c \in Cand : Gate(c, "rejected")
Validate == \E c \in Cand : Gate(c, "validated")
Launch == \E c \in Cand : Gate(c, "launched")
-----------------------------------------------------------------------------
(* Booking payments.                                                       *)

\* Both files are read before the provider is asked.
LoadToBook ==
    /\ booker.pc = "idle"
    /\ booker' = [NoBooker EXCEPT !.pc = "loaded", !.copy = board, !.ledger = ledger]
    /\ UNCHANGED <<board, ledger, agent, runs, deaths, passed, booked>>

Bookable(c) == booker.copy[c].status \in {"launched", "earning"}

\* record_payment up to ledger.save; a candidate that earns already is left alone.
Book(p) ==
    /\ booker.pc = "loaded"
    /\ p \notin booker.ledger
    /\ Bookable(PaidFor[p])
    /\ ledger' = booker.ledger \cup {p}
    /\ booked' = booked \cup {p}
    /\ passed' = [passed EXCEPT ![PaidFor[p]] = @ \cup {"earning"}]
    /\ booker' = IF booker.copy[PaidFor[p]].status = "launched"
                 THEN [booker EXCEPT !.ledger = ledger', !.pc = "booked", !.paid = {PaidFor[p]}]
                 ELSE [booker EXCEPT !.ledger = ledger']
    /\ UNCHANGED <<board, agent, runs, deaths>>

\* The second half: the candidate is moved to earning and the store saved.
SaveEarning ==
    /\ booker.pc = "booked"
    /\ board' = [c \in Cand |-> IF c \in booker.paid
                              THEN [booker.copy[c] EXCEPT !.status = "earning"]
                              ELSE booker.copy[c]]
    /\ booker' = [booker EXCEPT !.pc = "loaded", !.copy = board', !.paid = {}]
    /\ UNCHANGED <<ledger, agent, runs, deaths, passed, booked>>

EndBooking ==
    /\ booker.pc = "loaded"
    /\ booker' = NoBooker
    /\ UNCHANGED <<board, ledger, agent, runs, deaths, passed, booked>>

\* A program is stopped or the machine goes down, between any two saves.
BoardDeath ==
    /\ deaths < MaxDeaths
    /\ deaths' = deaths + 1
    /\ \/ agent.pc # "idle" /\ agent' = Resting /\ UNCHANGED booker
       \/ booker.pc # "idle" /\ booker' = NoBooker /\ UNCHANGED agent
    /\ UNCHANGED <<board, ledger, runs, passed, booked>>

BoardNext ==
    \/ StartRun \/ Decide \/ LoadBoard \/ Refused \/ Pass \/ Discover
    \/ Approve \/ Reject \/ Validate \/ Launch
    \/ LoadToBook \/ (\E p \in Pay : Book(p)) \/ SaveEarning \/ EndBooking
    \/ BoardDeath
-----------------------------------------------------------------------------
(* Properties.                                                             *)

BoardTypeOK ==
    /\ board \in Board
    /\ ledger \subseteq Pay /\ booked \subseteq Pay
    /\ agent \in [pc : {"idle", "deciding", "decided", "working"}, action : Action,
                  copy : Board, done : SUBSET Action, capped : BOOLEAN, cycle : Nat]
    /\ booker \in [pc : {"idle", "loaded", "booked"}, copy : Board,
                   ledger : SUBSET Pay, paid : SUBSET Cand]
    /\ runs \in Nat /\ deaths \in Nat
    /\ passed \in [Cand -> SUBSET Status]

\* The gates a status lies behind.
Behind(status) ==
    CASE status \in {"approved", "investigating"} -> {"approved"}
      [] status = "validated" -> {"approved", "validated"}
      [] status = "launched"  -> {"approved", "validated", "launched"}
      [] status = "earning"   -> {"approved", "validated", "launched", "earning"}
      [] status = "rejected"  -> {"rejected"}
      [] OTHER -> {}

\* Whatever writers overwrite each other and whenever one dies, no candidate on
\* the board is behind a gate that a human has not opened for it, and none is
\* earning of which no payment was ever booked (operator.py: "it has no code
\* path to approve a candidate, launch an offer, set a budget, or record a
\* payment").
GatesHeld == \A c \in Cand : Behind(board[c].status) \subseteq passed[c]

Place(status) ==
    IF status = "absent" THEN 0
    ELSE IF status = "rejected" THEN 8
    ELSE CHOOSE i \in 1..7 : Ladder[i] = status

\* A candidate is taken back (in its status, or in what was attached to it) only
\* by a writer whose copy of it was not what the file held: a re-run on a fresh
\* copy "refreshes scores but never downgrades a candidate a human has already
\* acted on" (workflow.py), and so does every other pass and booking.
TakenBack(c) ==
    \/ Place(board'[c].status) < Place(board[c].status)
    \/ ~(board[c].notes \subseteq board'[c].notes)

NeverDowngraded ==
    [][\A c \in Cand : TakenBack(c) =>
           \/ agent.pc = "working" /\ agent' # agent /\ agent.copy[c] # board[c]
           \/ booker.pc = "booked" /\ booker' # booker /\ booker.copy[c] # board[c]]_boardVars
=============================================================================
