-------------------------- MODULE PlanOrdersProofs --------------------------
(***************************************************************************)
(* Theorems about CandidateBoard and PlanOrders, for any candidates,       *)
(* payments and orders, any number of runs, cycles, submissions, drafts    *)
(* and deaths.                                                             *)
(***************************************************************************)
EXTENDS PlanOrders, TLAPS

(***************************************************************************)
(* The ladder and its gates.                                               *)
(***************************************************************************)
LEMMA StatusNames ==
  Status = {"discovered", "shortlisted", "approved", "investigating",
            "validated", "launched", "earning", "absent", "rejected"}
<1>1. {Ladder[i] : i \in 1..7} = {Ladder[1], Ladder[2], Ladder[3], Ladder[4],
                                  Ladder[5], Ladder[6], Ladder[7]}
  BY DEF Ladder
<1>2. QED
  BY <1>1 DEF Status, Ladder

\* A legal move passes no gate but its own.
LEMMA OneGateAtATime ==
  ASSUME NEW from \in Status, NEW to \in Status, CanTransition(from, to)
  PROVE  Behind(to) \subseteq Behind(from) \cup {to}
BY StatusNames DEF CanTransition, Forward, Behind

\* What the passes do to a candidate passes no gate either.
LEMMA PassesOpenNoGate ==
  ASSUME NEW b \in Board, NEW action \in Action, NEW c \in Pending(b, action)
  PROVE  /\ Treated(b[c], action).status \in Status
         /\ Behind(Treated(b[c], action).status) \subseteq Behind(b[c].status)
BY StatusNames DEF Board, Candidate, Pending, Lacking, In, Treated, Behind
-----------------------------------------------------------------------------
(***************************************************************************)
(* The board: types.                                                       *)
(***************************************************************************)
LEMMA EmptyType == Empty \in Board /\ Empty = [c \in Cand |-> Absent]
BY StatusNames DEF Empty, Board, Absent, Candidate

AgentType == [pc : {"idle", "deciding", "decided", "working"}, action : Action,
              copy : Board, done : SUBSET Action, capped : BOOLEAN, cycle : Nat]
BookerType == [pc : {"idle", "loaded", "booked"}, copy : Board,
               ledger : SUBSET Pay, paid : SUBSET Cand]

LEMMA RestingType == Resting \in AgentType /\ NoBooker \in BookerType
BY EmptyType DEF Resting, NoBooker, AgentType, BookerType, Action

\* The actions that can be decided on.
Doable == Goal \cup {"investigate", "prepare_launch", "discover"}

LEMMA DoableType == Doable \subseteq Action \ {"stop"}
<1>1. \A i \in 1..6 : Passes[i] \in Action
  BY DEF Action
<1>2. Optional \cup {"investigate", "prepare_launch"} =
         {Passes[1], Passes[2], Passes[3], Passes[4], Passes[5], Passes[6]}
  BY DEF Optional, Passes
<1>3. "discover" \in Action
  BY DEF Action
<1>4. QED
  BY <1>1, <1>2, <1>3, BoardConstants DEF Doable, Optional

LEMMA DecisionType == Decisions \subseteq Doable \cup {"stop"}
<1>1. ASSUME NEW i \in 1..6, Due(i)
      PROVE  \E k \in 1..6 : Due(k) /\ \A j \in 1..(k - 1) : ~Due(j)
  <2> DEFINE D(k) == Due(k)
  <2> HIDE DEF D
  <2>1. \/ D(1)
        \/ D(2) /\ ~D(1)
        \/ D(3) /\ ~D(2) /\ ~D(1)
        \/ D(4) /\ ~D(3) /\ ~D(2) /\ ~D(1)
        \/ D(5) /\ ~D(4) /\ ~D(3) /\ ~D(2) /\ ~D(1)
        \/ D(6) /\ ~D(5) /\ ~D(4) /\ ~D(3) /\ ~D(2) /\ ~D(1)
    <3>1. D(i)
      BY <1>1 DEF D
    <3>2. i = 1 \/ i = 2 \/ i = 3 \/ i = 4 \/ i = 5 \/ i = 6
      OBVIOUS
    <3>3. QED
      BY <3>1, <3>2
  <2>2. \E k \in 1..6 : D(k) /\ \A j \in 1..(k - 1) : ~D(j)
    BY <2>1
  <2>3. QED
    BY <2>2 DEF D
<1>2. ASSUME \E i \in 1..6 : Due(i)
      PROVE  Passes[CHOOSE i \in 1..6 : Due(i) /\ \A j \in 1..(i - 1) : ~Due(j)] \in Doable
  <2> DEFINE first == CHOOSE i \in 1..6 : Due(i) /\ \A j \in 1..(i - 1) : ~Due(j)
  <2>1. first \in 1..6 /\ Due(first)
    BY <1>1, <1>2
  <2>2. Wanted(Passes[first])
    BY <2>1 DEF Due
  <2>3. QED
    BY <2>2 DEF Wanted, Doable
<1>3. QED
  BY <1>2 DEF Decisions, Doable

LEMMA NextCycleType ==
  ASSUME BoardTypeOK, NEW done \in SUBSET Action, NEW capped \in BOOLEAN
  PROVE  /\ NextCycle(done, capped) \in AgentType
         /\ NextCycle(done, capped).copy = Empty
<1>1. agent.cycle + 1 \in Nat
  BY DEF BoardTypeOK
<1>2. QED
  BY <1>1, RestingType DEF NextCycle, AgentType, Resting

LEMMA NextCyclePc ==
  \A done, capped : NextCycle(done, capped).pc \in {"idle", "deciding"}
BY DEF NextCycle, Resting

LEMMA TreatedType ==
  ASSUME NEW b \in Board, NEW action \in Doable \ {"discover"}, NEW c \in Pending(b, action)
  PROVE  Treated(b[c], action) \in Candidate
<1>1. c \in Cand
  BY DEF Pending, Lacking, In
<1>2. b[c] \in Candidate
  BY <1>1 DEF Board
<1>3. b[c].notes \in SUBSET Note
  BY <1>2 DEF Candidate
<1>4. CASE action = "investigate"
  BY <1>2, <1>4, StatusNames DEF Treated, Candidate
<1>5. CASE action = "prepare_launch"
  BY <1>2, <1>3, <1>5 DEF Treated, Candidate, Note
<1>6. CASE action \notin {"investigate", "prepare_launch"}
  <2>1. Treated(b[c], action) = [b[c] EXCEPT !.notes = @ \cup {action}]
    BY <1>6 DEF Treated
  <2>2. QED
    BY <1>2, <1>3, <1>6, <2>1 DEF Candidate, Note, Doable
<1>7. QED
  BY <1>4, <1>5, <1>6

LEMMA DiscoveredType ==
  ASSUME NEW b \in Board, NEW kept \in SUBSET Cand, NEW best \in SUBSET kept
  PROVE  Discovered(b, kept, best) \in Board
<1>1. ASSUME NEW c \in Cand PROVE Discovered(b, kept, best)[c] \in Candidate
  <2>1. b[c] \in Candidate /\ Upsert(b[c]) \in Candidate
    BY StatusNames DEF Board, Candidate, Upsert
  <2>2. [Upsert(b[c]) EXCEPT !.status = "shortlisted"] \in Candidate
    BY <2>1, StatusNames DEF Candidate
  <2>3. QED
    BY <2>1, <2>2 DEF Discovered
<1>2. QED
  BY <1>1 DEF Discovered, Board

\* Being found again opens no gate.
LEMMA DiscoveryOpensNoGate ==
  ASSUME NEW b \in Board, NEW kept \in SUBSET Cand, NEW best \in SUBSET kept, NEW c \in Cand
  PROVE  Behind(Discovered(b, kept, best)[c].status) \subseteq Behind(b[c].status)
<1>1. b[c] \in Candidate /\ b[c].status \in Status
  BY DEF Board, Candidate
<1>2. Upsert(b[c]).status = IF b[c].status = "absent" THEN "discovered" ELSE b[c].status
  BY <1>1 DEF Candidate, Upsert
<1>3. Behind("discovered") = {} /\ Behind("shortlisted") = {}
  BY DEF Behind
<1>4. Behind(Upsert(b[c]).status) \subseteq Behind(b[c].status)
  BY <1>2, <1>3
<1>5. CASE c \in best /\ Upsert(b[c]).status = "discovered"
  <2>1. [Upsert(b[c]) EXCEPT !.status = "shortlisted"].status = "shortlisted"
    BY <1>1 DEF Candidate, Upsert
  <2>2. QED
    BY <1>3, <1>5, <2>1 DEF Discovered
<1>6. CASE ~(c \in best /\ Upsert(b[c]).status = "discovered")
  BY <1>4, <1>6 DEF Discovered
<1>7. QED
  BY <1>5, <1>6
-----------------------------------------------------------------------------
(***************************************************************************)
(* The inductive invariant of the board.  The gates hold on every copy of  *)
(* the board, not just on the file: a writer may put its copy back at any  *)
(* time.                                                                   *)
(***************************************************************************)
Sound(b, p) == \A c \in Cand : Behind(b[c].status) \subseteq p[c]

BoardInv ==
  /\ BoardTypeOK
  /\ Sound(board, passed)
  /\ Sound(agent.copy, passed)
  /\ Sound(booker.copy, passed)
  /\ agent.pc \in {"decided", "working"} => agent.action \in Doable
  /\ ledger \subseteq booked
  /\ booker.ledger \subseteq booked
  /\ \A c \in booker.paid : "earning" \in passed[c] /\ booker.copy[c].status = "launched"

LEMMA EmptySound == \A p : Sound(Empty, p)
<1>1. \A c \in Cand : Empty[c].status = "absent"
  BY DEF Empty, Absent
<1>2. Behind("absent") = {}
  BY DEF Behind
<1>3. QED
  BY <1>1, <1>2 DEF Sound

LEMMA GrowingKeepsSound ==
  ASSUME NEW b, NEW p, NEW q, Sound(b, p), \A c \in Cand : p[c] \subseteq q[c]
  PROVE  Sound(b, q)
BY DEF Sound

LEMMA BoardInvInit == BoardInit => BoardInv
<1> SUFFICES ASSUME BoardInit PROVE BoardInv
  OBVIOUS
<1>1. BoardTypeOK
  BY EmptyType, RestingType DEF BoardInit, BoardTypeOK, AgentType, BookerType
<1>2. Sound(board, passed) /\ Sound(agent.copy, passed) /\ Sound(booker.copy, passed)
  BY EmptySound DEF BoardInit, Resting, NoBooker
<1>3. QED
  BY <1>1, <1>2 DEF BoardInit, BoardInv, Resting, NoBooker

\* The operator's steps that do not write the board.
LEMMA DecidingKeeps == BoardInv /\ (StartRun \/ Decide \/ LoadBoard \/ Refused) => BoardInv'
<1> SUFFICES ASSUME BoardInv, StartRun \/ Decide \/ LoadBoard \/ Refused PROVE BoardInv'
  OBVIOUS
<1> USE DEF BoardInv
<1>0. agent \in AgentType /\ Resting \in AgentType /\ Resting.copy = Empty /\ Resting.pc = "idle"
  BY RestingType DEF BoardTypeOK, AgentType, Resting
<1>1. CASE StartRun
  <2>1. agent' \in AgentType /\ agent'.copy = Empty /\ agent'.pc = "deciding"
    BY <1>0, <1>1 DEF StartRun, AgentType
  <2>2. runs' \in Nat
    BY <1>1 DEF StartRun, BoardTypeOK
  <2>3. BoardTypeOK'
    BY <1>1, <2>1, <2>2 DEF StartRun, BoardTypeOK, AgentType
  <2>4. QED
    BY <1>1, <2>1, <2>3, EmptySound DEF StartRun, Sound
<1>2. CASE Decide
  <2>1. PICK a \in Decisions :
           agent' = IF a = "stop" THEN Resting
                    ELSE [agent EXCEPT !.pc = "decided", !.action = a]
    BY <1>2 DEF Decide
  <2>2. CASE a = "stop"
    <3>1. BoardTypeOK'
      BY <1>0, <1>2, <2>1, <2>2 DEF Decide, BoardTypeOK, AgentType
    <3>2. QED
      BY <1>0, <1>2, <2>1, <2>2, <3>1, EmptySound DEF Decide, Sound
  <2>3. CASE a # "stop"
    <3>1. a \in Doable
      BY <2>3, DecisionType
    <3>2. agent' \in AgentType /\ agent'.copy = agent.copy /\ agent'.action = a
      BY <1>0, <2>1, <2>3, <3>1, DoableType DEF AgentType
    <3>3. BoardTypeOK'
      BY <1>2, <3>2 DEF Decide, BoardTypeOK, AgentType
    <3>4. QED
      BY <1>2, <3>1, <3>2, <3>3 DEF Decide, Sound
  <2>4. QED
    BY <2>2, <2>3
<1>3. CASE LoadBoard
  <2>1. /\ agent' \in AgentType
        /\ agent'.copy = board /\ agent'.action = agent.action /\ agent.pc = "decided"
    BY <1>0, <1>3 DEF LoadBoard, AgentType, BoardTypeOK
  <2>2. BoardTypeOK'
    BY <1>3, <2>1 DEF LoadBoard, BoardTypeOK, AgentType
  <2>3. QED
    BY <1>3, <2>1, <2>2 DEF LoadBoard, Sound
<1>4. CASE Refused
  <2>1. agent.done \in SUBSET Action
    BY DEF BoardTypeOK
  <2>2. agent' \in AgentType /\ agent'.copy = Empty /\ agent'.pc \in {"idle", "deciding"}
    <3>1. agent' = NextCycle(agent.done, TRUE)
      BY <1>4 DEF Refused
    <3>2. NextCycle(agent.done, TRUE).pc \in {"idle", "deciding"}
      BY <1>0, NextCyclePc
    <3>3. QED
      BY <2>1, <3>1, <3>2, NextCycleType
  <2>3. BoardTypeOK'
    BY <1>4, <2>2 DEF Refused, BoardTypeOK, AgentType
  <2>4. QED
    BY <1>4, <2>2, <2>3, EmptySound DEF Refused, Sound
<1>5. QED
  BY <1>1, <1>2, <1>3, <1>4

\* What a pass or a discovery puts back is as sound as its copy.
LEMMA WritingKeeps ==
  ASSUME BoardInv, NEW done \in SUBSET Action,
         board' \in Board, \A c \in Cand : Behind(board'[c].status) \subseteq passed[c],
         agent' = NextCycle(done, FALSE),
         UNCHANGED <<ledger, runs, booker, deaths, passed, booked>>
  PROVE  BoardInv'
<1>1. /\ agent' \in AgentType
      /\ agent'.copy = Empty
      /\ agent'.pc \in {"idle", "deciding"}
  BY NextCycleType, NextCyclePc DEF BoardInv
<1>2. BoardTypeOK'
  BY <1>1 DEF BoardInv, BoardTypeOK, AgentType
<1>3. QED
  BY <1>1, <1>2, EmptySound DEF BoardInv, Sound

LEMMA PassKeeps == BoardInv /\ Pass => BoardInv'
<1> SUFFICES ASSUME BoardInv, Pass PROVE BoardInv'
  OBVIOUS
<1> DEFINE copy == agent.copy
           action == agent.action
<1>1. copy \in Board /\ action \in Doable \ {"discover"} /\ action \in Action
  BY DoableType DEF BoardInv, BoardTypeOK, Pass
<1>2. PICK well \in SUBSET Pending(copy, action) :
        /\ board' = IF action \in Goal /\ Pending(copy, action) = {}
                    THEN board
                    ELSE [c \in Cand |-> IF c \in well THEN Treated(copy[c], action)
                                         ELSE copy[c]]
        /\ agent' = NextCycle(IF action \in Goal /\ well = {}
                              THEN agent.done \cup {action} ELSE agent.done, FALSE)
  BY DEF Pass
<1>3. \A c \in well :
        /\ Treated(copy[c], action) \in Candidate
        /\ Behind(Treated(copy[c], action).status) \subseteq Behind(copy[c].status)
  BY <1>1, TreatedType, PassesOpenNoGate
<1>4. /\ board' \in Board
      /\ \A c \in Cand : Behind(board'[c].status) \subseteq passed[c]
  <2>1. CASE action \in Goal /\ Pending(copy, action) = {}
    BY <1>2, <2>1 DEF BoardInv, BoardTypeOK, Sound
  <2>2. CASE ~(action \in Goal /\ Pending(copy, action) = {})
    <3>1. board' = [c \in Cand |-> IF c \in well THEN Treated(copy[c], action) ELSE copy[c]]
      BY <1>2, <2>2
    <3>2. \A c \in Cand : Behind(copy[c].status) \subseteq passed[c]
      BY DEF BoardInv, Sound
    <3> HIDE DEF copy, action
    <3>3. \A c \in Cand : board'[c] = IF c \in well THEN Treated(copy[c], action) ELSE copy[c]
      BY <3>1
    <3>4. \A c \in Cand : copy[c] \in Candidate
      BY <1>1 DEF Board
    <3>5. board' \in Board
      BY <1>3, <3>1, <3>4 DEF Board
    <3>6. QED
      BY <1>3, <3>2, <3>3, <3>5
  <2>3. QED
    BY <2>1, <2>2
<1>5. (IF action \in Goal /\ well = {} THEN agent.done \cup {action} ELSE agent.done)
        \in SUBSET Action
  BY <1>1 DEF BoardInv, BoardTypeOK
<1>6. UNCHANGED <<ledger, runs, booker, deaths, passed, booked>>
  BY DEF Pass
<1> HIDE DEF copy, action
<1>7. QED
  BY <1>2, <1>4, <1>5, <1>6, WritingKeeps

LEMMA DiscoverKeeps == BoardInv /\ Discover => BoardInv'
<1> SUFFICES ASSUME BoardInv, Discover PROVE BoardInv'
  OBVIOUS
<1>1. PICK kept \in SUBSET Cand : \E best \in SUBSET kept :
        /\ board' = Discovered(agent.copy, kept, best)
        /\ agent' = NextCycle(IF kept \subseteq In(agent.copy, Status \ {"absent"})
                              THEN agent.done \cup {"discover"} ELSE agent.done, FALSE)
  BY DEF Discover
<1>a. PICK best \in SUBSET kept :
        /\ board' = Discovered(agent.copy, kept, best)
        /\ agent' = NextCycle(IF kept \subseteq In(agent.copy, Status \ {"absent"})
                              THEN agent.done \cup {"discover"} ELSE agent.done, FALSE)
  BY <1>1
<1>2. agent.copy \in Board
  BY DEF BoardInv, BoardTypeOK
<1>3. board' \in Board /\ \A c \in Cand : Behind(board'[c].status) \subseteq passed[c]
  BY <1>a, <1>2, DiscoveredType, DiscoveryOpensNoGate DEF BoardInv, Sound
<1>4. (IF kept \subseteq In(agent.copy, Status \ {"absent"})
       THEN agent.done \cup {"discover"} ELSE agent.done) \in SUBSET Action
  BY DEF BoardInv, BoardTypeOK, Action
<1>5. UNCHANGED <<ledger, runs, booker, deaths, passed, booked>>
  BY DEF Discover
<1>6. QED
  BY <1>a, <1>3, <1>4, <1>5, WritingKeeps

\* A human opens one gate, and notes it.
LEMMA GateKeeps ==
  ASSUME BoardInv, NEW c \in Cand, NEW to \in Status, Gate(c, to)
  PROVE  BoardInv'
<1>1. board[c] \in Candidate /\ board[c].status \in Status
  BY DEF BoardInv, BoardTypeOK, Board, Candidate
<1>2. /\ board' = [board EXCEPT ![c] = [board[c] EXCEPT !.status = to]]
      /\ passed' = [passed EXCEPT ![c] = passed[c] \cup {to}]
      /\ UNCHANGED <<ledger, agent, runs, booker, deaths, booked>>
  BY DEF Gate
<1>3. [board[c] EXCEPT !.status = to] \in Candidate
  BY <1>1 DEF Candidate
<1>4. board' \in Board /\ passed' \in [Cand -> SUBSET Status]
  BY <1>2, <1>3 DEF BoardInv, BoardTypeOK, Board
<1>5. \A d \in Cand : passed[d] \subseteq passed'[d]
  BY <1>2 DEF BoardInv, BoardTypeOK
<1>6. Sound(board', passed')
  <2> SUFFICES ASSUME NEW d \in Cand PROVE Behind(board'[d].status) \subseteq passed'[d]
    BY DEF Sound
  <2>1. CASE d = c
    <3>1. board'[c].status = to
      BY <1>1, <1>2 DEF BoardInv, BoardTypeOK, Board, Candidate
    <3>2. Behind(to) \subseteq Behind(board[c].status) \cup {to}
      BY <1>1, OneGateAtATime DEF Gate
    <3>3. passed'[c] = passed[c] \cup {to} /\ Behind(board[c].status) \subseteq passed[c]
      BY <1>2 DEF BoardInv, BoardTypeOK, Sound
    <3>4. QED
      BY <2>1, <3>1, <3>2, <3>3
  <2>2. CASE d # c
    BY <1>2, <1>5, <2>2 DEF BoardInv, BoardTypeOK, Board, Sound
  <2>3. QED
    BY <2>1, <2>2
<1>7. Sound(agent.copy, passed') /\ Sound(booker.copy, passed')
  BY <1>5, GrowingKeepsSound DEF BoardInv
<1>8. BoardTypeOK'
  BY <1>2, <1>4 DEF BoardInv, BoardTypeOK
<1>9. QED
  BY <1>2, <1>5, <1>6, <1>7, <1>8 DEF BoardInv

\* Booking changes the ledger before the board; the candidate it will move is
\* on the copy of the booker, and its payment on record.
LEMMA BookKeeps == ASSUME BoardInv, NEW p \in Pay, Book(p) PROVE BoardInv'
<1> DEFINE c == PaidFor[p]
<1>1. c \in Cand
  BY BoardConstants
<1>2. /\ ledger' = booker.ledger \cup {p}
      /\ booked' = booked \cup {p}
      /\ passed' = [passed EXCEPT ![c] = passed[c] \cup {"earning"}]
      /\ UNCHANGED <<board, agent, runs, deaths>>
  BY DEF Book
<1>3. booker \in BookerType
  BY DEF BoardInv, BoardTypeOK, BookerType
<1>4. \A d \in Cand : passed[d] \subseteq passed'[d]
  BY <1>2 DEF BoardInv, BoardTypeOK
<1>5. "earning" \in passed'[c]
  BY <1>1, <1>2 DEF BoardInv, BoardTypeOK
<1>6. /\ booker' \in BookerType
      /\ booker'.copy = booker.copy
      /\ booker'.ledger = ledger'
      /\ \A d \in booker'.paid : \/ d \in booker.paid
                                 \/ d = c /\ booker.copy[c].status = "launched"
  <2>1. booker.ledger \cup {p} \in SUBSET Pay
    BY <1>3 DEF BookerType
  <2>2. CASE booker.copy[c].status = "launched"
    <3>1. booker' = [booker EXCEPT !.ledger = ledger', !.pc = "booked", !.paid = {c}]
      BY <2>2 DEF Book
    <3>2. QED
      BY <1>1, <1>2, <1>3, <2>1, <2>2, <3>1 DEF BookerType
  <2>3. CASE booker.copy[c].status # "launched"
    <3>1. booker' = [booker EXCEPT !.ledger = ledger']
      BY <2>3 DEF Book
    <3>2. QED
      BY <1>2, <1>3, <2>1, <3>1 DEF BookerType
  <2>4. QED
    BY <2>2, <2>3
<1>7. passed' \in [Cand -> SUBSET Status]
  BY <1>2, StatusNames DEF BoardInv, BoardTypeOK
<1> HIDE DEF c
<1>8. BoardTypeOK'
  BY <1>2, <1>3, <1>6, <1>7 DEF BoardInv, BoardTypeOK, BookerType
<1>9. Sound(board, passed') /\ Sound(agent.copy, passed') /\ Sound(booker.copy, passed')
  BY <1>4, GrowingKeepsSound DEF BoardInv
<1>10. booker.paid \subseteq Cand
  BY <1>3 DEF BookerType
<1>11. QED
  BY <1>2, <1>4, <1>5, <1>6, <1>8, <1>9, <1>10 DEF BoardInv

LEMMA SaveEarningKeeps == BoardInv /\ SaveEarning => BoardInv'
<1> SUFFICES ASSUME BoardInv, SaveEarning PROVE BoardInv'
  OBVIOUS
<1>1. /\ board' = [c \in Cand |-> IF c \in booker.paid
                                THEN [booker.copy[c] EXCEPT !.status = "earning"]
                                ELSE booker.copy[c]]
      /\ booker' = [booker EXCEPT !.pc = "loaded", !.copy = board', !.paid = {}]
      /\ UNCHANGED <<ledger, agent, runs, deaths, passed, booked>>
  BY DEF SaveEarning
<1>2. booker \in BookerType /\ booker.copy \in Board
  BY DEF BoardInv, BoardTypeOK, BookerType
<1>3. ASSUME NEW c \in Cand
      PROVE  board'[c] \in Candidate /\ Behind(board'[c].status) \subseteq passed[c]
  <2>1. booker.copy[c] \in Candidate
    BY <1>2 DEF Board
  <2>2. Behind(booker.copy[c].status) \subseteq passed[c]
    BY DEF BoardInv, Sound
  <2>3. CASE c \in booker.paid
    <3>1. board'[c] = [booker.copy[c] EXCEPT !.status = "earning"]
      BY <1>1, <2>3
    <3>2. board'[c] \in Candidate /\ board'[c].status = "earning"
      BY <2>1, <3>1, StatusNames DEF Candidate
    <3>3. Behind("earning") \subseteq Behind("launched") \cup {"earning"}
      BY DEF Behind
    <3>4. QED
      BY <2>2, <2>3, <3>2, <3>3 DEF BoardInv
  <2>4. CASE c \notin booker.paid
    BY <1>1, <2>1, <2>2, <2>4
  <2>5. QED
    BY <2>3, <2>4
<1>4. board' \in Board
  BY <1>1, <1>3 DEF Board
<1>5. /\ booker' \in BookerType
      /\ booker'.copy = board' /\ booker'.paid = {} /\ booker'.ledger = booker.ledger
  BY <1>1, <1>2, <1>4 DEF BookerType
<1>6. BoardTypeOK'
  BY <1>1, <1>4, <1>5 DEF BoardInv, BoardTypeOK, BookerType
<1>7. QED
  BY <1>1, <1>3, <1>5, <1>6 DEF BoardInv, Sound

\* A booker begins with what the files hold, and ends or dies with nothing.
LEMMA BookerTurnsKeep == BoardInv /\ (LoadToBook \/ EndBooking \/ BoardDeath) => BoardInv'
<1> SUFFICES ASSUME BoardInv, LoadToBook \/ EndBooking \/ BoardDeath PROVE BoardInv'
  OBVIOUS
<1> USE DEF BoardInv
<1>1. CASE LoadToBook
  <2>1. /\ booker' \in BookerType
        /\ booker'.copy = board /\ booker'.ledger = ledger /\ booker'.paid = {}
    BY <1>1, RestingType DEF LoadToBook, NoBooker, BookerType, BoardTypeOK
  <2>2. BoardTypeOK'
    BY <1>1, <2>1 DEF LoadToBook, BoardTypeOK, BookerType
  <2>3. QED
    BY <1>1, <2>1, <2>2 DEF LoadToBook, Sound
<1>2. ASSUME booker' = NoBooker,
             UNCHANGED <<board, ledger, agent, runs, passed, booked>>, deaths' \in Nat
      PROVE  BoardInv'
  <2>1. BoardTypeOK'
    BY <1>2, RestingType DEF BoardTypeOK, BookerType
  <2>2. QED
    BY <1>2, <2>1, EmptySound DEF NoBooker, Sound
<1>3. ASSUME agent' = Resting,
             UNCHANGED <<board, ledger, booker, runs, passed, booked>>, deaths' \in Nat
      PROVE  BoardInv'
  <2>1. BoardTypeOK'
    BY <1>3, RestingType DEF BoardTypeOK, AgentType
  <2>2. QED
    BY <1>3, <2>1, EmptySound DEF Resting, Sound
<1>4. deaths \in Nat /\ deaths + 1 \in Nat
  BY DEF BoardTypeOK
<1>5. CASE EndBooking
  BY <1>2, <1>4, <1>5 DEF EndBooking
<1>6. CASE BoardDeath
  BY <1>2, <1>3, <1>4, <1>6 DEF BoardDeath
<1>7. QED
  BY <1>1, <1>5, <1>6
-----------------------------------------------------------------------------
LEMMA BoardStepKeeps ==
  BoardInv /\ (BoardNext \/ OrderDeath \/ UNCHANGED boardVars) => BoardInv'
<1> SUFFICES ASSUME BoardInv, BoardNext \/ OrderDeath \/ UNCHANGED boardVars
             PROVE  BoardInv'
  OBVIOUS
<1>1. CASE StartRun \/ Decide \/ LoadBoard \/ Refused
  BY <1>1, DecidingKeeps
<1>2. CASE Pass \/ Discover
  BY <1>2, PassKeeps, DiscoverKeeps
<1>3. CASE Approve \/ Reject \/ Validate \/ Launch
  BY <1>3, GateKeeps, StatusNames DEF Approve, Reject, Validate, Launch
<1>4. CASE \E p \in Pay : Book(p)
  BY <1>4, BookKeeps
<1>5. CASE SaveEarning
  BY <1>5, SaveEarningKeeps
<1>6. CASE LoadToBook \/ EndBooking \/ BoardDeath
  BY <1>6, BookerTurnsKeep
<1>7. CASE OrderDeath
  <2>1. UNCHANGED <<board, ledger, agent, runs, booker, passed, booked>>
    BY <1>7 DEF OrderDeath
  <2>2. deaths' \in Nat
    BY <1>7 DEF OrderDeath, BoardInv, BoardTypeOK
  <2>3. BoardTypeOK'
    BY <2>1, <2>2 DEF BoardInv, BoardTypeOK
  <2>4. QED
    BY <2>1, <2>3 DEF BoardInv, Sound
<1>8. CASE UNCHANGED boardVars
  <2>1. BoardTypeOK'
    BY <1>8 DEF boardVars, BoardInv, BoardTypeOK
  <2>2. QED
    BY <1>8, <2>1 DEF boardVars, BoardInv, Sound
<1>9. QED
  BY <1>1, <1>2, <1>3, <1>4, <1>5, <1>6, <1>7, <1>8 DEF BoardNext

LEMMA BoardInvHolds == Spec => []BoardInv
<1>1. Init => BoardInv
  BY BoardInvInit DEF Init
<1>2. BoardInv /\ [Next]_vars => BoardInv'
  BY BoardStepKeeps DEF Next, vars
<1>3. QED
  BY <1>1, <1>2, PTL DEF Spec

(***************************************************************************)
(* Type correctness of the board, the operator and the booker.             *)
(***************************************************************************)
THEOREM BoardTypeCorrect == Spec => []BoardTypeOK
<1>1. BoardInv => BoardTypeOK
  BY DEF BoardInv
<1>2. QED
  BY <1>1, BoardInvHolds, PTL

(***************************************************************************)
(* No candidate gets behind a gate that no human (or, for earning, no      *)
(* booked payment) has opened for it, however the operator's passes, the   *)
(* booking and the human overwrite each other's board (workflow.py saves   *)
(* the board it loaded before its slow calls, record_payment likewise).    *)
(***************************************************************************)
THEOREM GatesStayHeld == Spec => []GatesHeld
<1>1. BoardInv => GatesHeld
  BY DEF BoardInv, Sound, GatesHeld
<1>2. QED
  BY <1>1, BoardInvHolds, PTL
-----------------------------------------------------------------------------
(***************************************************************************)
(* Orders: the inductive invariant.  A paper (an entry of the intake, a    *)
(* draft, a PDF) carries its own past: what was reviewed before what was   *)
(* drawn before what was approved, on every copy.  And what a sender has   *)
(* not yet recorded is the one mail an order may be ahead of its record.   *)
(***************************************************************************)
Entry == [status : {"none", "new", "reviewed"}, fields : Nat, plan : Nat,
          approved : BOOLEAN]
Record == [status : {"none", "staged", "sent"}, draft : Nat, to : Nat]
DrafterType == [pc : {"idle", "asking"}, order : Order \cup {"none"},
                copy : [Order -> Entry]]
DeskType == [pc : {"idle", "rendered", "sending", "mailed"},
             order : Order \cup {"none"}, record : Record,
             copy : [Order -> Record], sends : BOOLEAN]

OrderTypeOK ==
  /\ intake \in [Order -> Entry]
  /\ imports \in Nat
  /\ drafter \in DrafterType
  /\ drawn \in Seq(Nat)
  /\ pdf \in [Order -> Nat]
  /\ deliveries \in [Order -> Record]
  /\ desk \in [Desk -> DeskType]
  /\ count \in [Order -> Nat]
  /\ unrecorded \in [Order -> Nat]

DrawnWell(n, dr, rev) == n \in 1..Len(dr) /\ dr[n] \in rev

GoodEntry(e, dr, rev, app) ==
  /\ e.status = "reviewed" => e.fields \in rev
  /\ e.plan # 0 => DrawnWell(e.plan, dr, rev)
  /\ e.approved => e.plan \in app

PapersInOrder ==
  /\ \A o \in Order : GoodEntry(intake[o], drawn, reviewed, approved)
  /\ \A o \in Order : GoodEntry(drafter.copy[o], drawn, reviewed, approved)
  /\ drafter.pc = "asking" => /\ drafter.order \in Order
                              /\ drafter.copy[drafter.order].status = "reviewed"

MailsInOrder ==
  /\ \A o \in Order : pdf[o] # 0 =>
        /\ DrawnWell(pdf[o], drawn, reviewed)
        /\ pdf[o] \in approved
        /\ CaptureOf[o] \in booked
  /\ \A m \in mails :
        /\ m.draft \in approved
        /\ DrawnWell(m.draft, drawn, reviewed)
        /\ CaptureOf[m.order] \in booked

\* The mail the human's process has sent and not yet recorded.
Unsaved(o) == desk["human"].pc = "mailed" /\ desk["human"].order = o

DesksInOrder ==
  /\ \A d \in Desk : desk[d].pc # "idle" => desk[d].order \in Order /\ pdf[desk[d].order] # 0
  /\ \A d \in Desk : desk[d].pc = "rendered" /\ desk[d].sends => d = "human"
  /\ desk["loop"].pc \in {"idle", "rendered"}
  /\ desk["human"].pc \in {"sending", "mailed"} =>
        /\ deliveries[desk["human"].order].status # "sent"
        /\ \A o \in Order \ {desk["human"].order} :
              desk["human"].copy[o].status = "sent" <=> deliveries[o].status = "sent"
  /\ \A o \in Order : count[o] <= unrecorded[o] +
        (IF deliveries[o].status = "sent" \/ Unsaved(o) THEN 1 ELSE 0)

OrderInv == OrderTypeOK /\ PapersInOrder /\ MailsInOrder /\ DesksInOrder

LEMMA RestTypes ==
  /\ NoEntry \in Entry /\ NoRecord \in Record
  /\ AtRest \in DeskType /\ NoDraft \in DrafterType
BY DEF NoEntry, NoRecord, Entry, Record, AtRest, DeskType, NoDraft, DrafterType

LEMMA NoEntryGood == \A dr, rev, app : GoodEntry(NoEntry, dr, rev, app)
BY DEF GoodEntry, NoEntry

LEMMA OrderInvInit == Init => OrderInv
<1> SUFFICES ASSUME Init PROVE OrderInv
  OBVIOUS
<1>1. OrderTypeOK
  BY RestTypes DEF Init, OrderTypeOK
<1>2. PapersInOrder
  BY NoEntryGood DEF Init, PapersInOrder, NoDraft
<1>3. MailsInOrder
  BY DEF Init, MailsInOrder
<1>4. DesksInOrder
  BY DEF Init, DesksInOrder, Desk, AtRest, Unsaved
<1>5. QED
  BY <1>1, <1>2, <1>3, <1>4 DEF OrderInv

\* What was drawn, reviewed and approved stays so.
LEMMA GoodStaysGood ==
  ASSUME NEW dr \in Seq(Nat), NEW rev, NEW app, NEW rev2, NEW app2,
         NEW dr2 \in Seq(Nat), rev \subseteq rev2, app \subseteq app2,
         dr2 = dr \/ \E n \in Nat : dr2 = Append(dr, n)
  PROVE  /\ \A n : DrawnWell(n, dr, rev) => DrawnWell(n, dr2, rev2)
         /\ \A e \in Entry : GoodEntry(e, dr, rev, app) => GoodEntry(e, dr2, rev2, app2)
<1>1. \A n \in 1..Len(dr) : n \in 1..Len(dr2) /\ dr2[n] = dr[n]
  <2>1. CASE dr2 = dr
    BY <2>1
  <2>2. ASSUME NEW k \in Nat, dr2 = Append(dr, k)
        PROVE  \A n \in 1..Len(dr) : n \in 1..Len(dr2) /\ dr2[n] = dr[n]
    BY <2>2
  <2>3. QED
    BY <2>1, <2>2
<1>2. \A n : DrawnWell(n, dr, rev) => DrawnWell(n, dr2, rev2)
  BY <1>1 DEF DrawnWell
<1>3. QED
  BY <1>2 DEF GoodEntry

LEMMA PapersStayGood ==
  ASSUME drawn \in Seq(Nat), drawn' \in Seq(Nat),
         drawn' = drawn \/ \E n \in Nat : drawn' = Append(drawn, n),
         reviewed \subseteq reviewed', approved \subseteq approved'
  PROVE  /\ \A n : DrawnWell(n, drawn, reviewed) => DrawnWell(n, drawn', reviewed')
         /\ \A e \in Entry : GoodEntry(e, drawn, reviewed, approved)
                               => GoodEntry(e, drawn', reviewed', approved')
BY GoodStaysGood

\* Nothing else than the booker changes what was booked, and it only adds to it.
LEMMA BookedGrows == BoardNext => booked \subseteq booked'
<1>1. Approve \/ Reject \/ Validate \/ Launch => booked' = booked
  BY DEF Approve, Reject, Validate, Launch, Gate
<1>2. \A p \in Pay : Book(p) => booked \subseteq booked'
  BY DEF Book
<1>3. StartRun \/ Decide \/ LoadBoard \/ Refused \/ Pass \/ Discover => booked' = booked
  BY DEF StartRun, Decide, LoadBoard, Refused, Pass, Discover
<1>4. LoadToBook \/ SaveEarning \/ EndBooking \/ BoardDeath => booked' = booked
  BY DEF LoadToBook, SaveEarning, EndBooking, BoardDeath
<1>5. QED
  BY <1>1, <1>2, <1>3, <1>4 DEF BoardNext

\* The board's steps leave the orders alone.
LEMMA BoardKeepsOrders ==
  OrderInv /\ booked \subseteq booked' /\ UNCHANGED orderVars => OrderInv'
<1> SUFFICES ASSUME OrderInv, booked \subseteq booked', UNCHANGED orderVars PROVE OrderInv'
  OBVIOUS
<1>1. OrderTypeOK' /\ PapersInOrder'
  BY DEF OrderInv, OrderTypeOK, PapersInOrder, orderVars
<1>2. MailsInOrder'
  BY DEF OrderInv, MailsInOrder, orderVars
<1>3. DesksInOrder'
  BY DEF OrderInv, DesksInOrder, orderVars, Unsaved
<1>4. QED
  BY <1>1, <1>2, <1>3 DEF OrderInv

(***************************************************************************)
(* Intake and plan: the delivery side is left alone.                       *)
(***************************************************************************)
LEMMA PaperworkKeeps ==
  ASSUME OrderInv,
         intake' \in [Order -> Entry], imports' \in Nat, drafter' \in DrafterType,
         drawn' \in Seq(Nat), drawn' = drawn \/ \E n \in Nat : drawn' = Append(drawn, n),
         reviewed \subseteq reviewed', approved \subseteq approved',
         PapersInOrder',
         UNCHANGED <<pdf, deliveries, desk, mails, count, unrecorded, booked>>
  PROVE  OrderInv'
<1>1. OrderTypeOK'
  BY DEF OrderInv, OrderTypeOK
<1>2. drawn \in Seq(Nat)
  BY DEF OrderInv, OrderTypeOK
<1>3. \A n : DrawnWell(n, drawn, reviewed) => DrawnWell(n, drawn', reviewed')
  BY <1>2, PapersStayGood
<1>4. MailsInOrder'
  BY <1>3 DEF OrderInv, MailsInOrder
<1>5. DesksInOrder'
  BY DEF OrderInv, DesksInOrder, Unsaved
<1>6. QED
  BY <1>1, <1>4, <1>5 DEF OrderInv

LEMMA ImportKeeps == ASSUME OrderInv, NEW o \in Order, Import(o), UNCHANGED booked PROVE OrderInv'
<1> DEFINE entry == [NoEntry EXCEPT !.status = "new", !.fields = imports']
<1>1. imports' \in Nat /\ drawn \in Seq(Nat)
  BY DEF OrderInv, OrderTypeOK, Import
<1>2. entry \in Entry /\ entry.status = "new" /\ entry.plan = 0 /\ entry.approved = FALSE
  BY <1>1, RestTypes DEF Entry, NoEntry
<1>3. \A dr, rev, app : GoodEntry(entry, dr, rev, app)
  BY <1>2 DEF GoodEntry
<1>4. intake' = [intake EXCEPT ![o] = entry]
  BY DEF Import
<1> HIDE DEF entry
<1>5. intake' \in [Order -> Entry]
  BY <1>2, <1>4 DEF OrderInv, OrderTypeOK
<1>6. UNCHANGED <<drafter, drawn, pdf, deliveries, desk, mails, count, unrecorded,
                  reviewed, approved>>
  BY DEF Import
<1>7. PapersInOrder'
  BY <1>3, <1>4, <1>6 DEF OrderInv, OrderTypeOK, PapersInOrder
<1>8. QED
  BY <1>1, <1>5, <1>6, <1>7, PaperworkKeeps DEF OrderInv, OrderTypeOK

LEMMA ReviewKeeps == ASSUME OrderInv, NEW o \in Order, Review(o), UNCHANGED booked PROVE OrderInv'
<1>1. /\ intake' = [intake EXCEPT ![o] = [intake[o] EXCEPT !.status = "reviewed"]]
      /\ reviewed' = reviewed \cup {intake[o].fields}
      /\ UNCHANGED <<imports, drafter, drawn, pdf, deliveries, desk, mails, count,
                     unrecorded, approved>>
  BY DEF Review
<1>2. /\ intake \in [Order -> Entry] /\ drawn \in Seq(Nat) /\ imports \in Nat
      /\ drafter \in DrafterType
  BY DEF OrderInv, OrderTypeOK
<1>3. \A e \in Entry : GoodEntry(e, drawn, reviewed, approved)
                         => GoodEntry(e, drawn', reviewed', approved')
  BY <1>1, <1>2, PapersStayGood
<1> DEFINE entry == [intake[o] EXCEPT !.status = "reviewed"]
<1>4. /\ entry \in Entry
      /\ entry.fields = intake[o].fields /\ entry.plan = intake[o].plan
      /\ entry.approved = intake[o].approved
  BY <1>2 DEF Entry
<1>5. GoodEntry(intake[o], drawn', reviewed', approved')
  BY <1>2, <1>3 DEF OrderInv, PapersInOrder
<1>6. GoodEntry(entry, drawn', reviewed', approved')
  BY <1>1, <1>4, <1>5 DEF GoodEntry
<1> HIDE DEF entry
<1>7. intake' = [intake EXCEPT ![o] = entry]
  BY <1>1 DEF entry
<1>8. intake' \in [Order -> Entry]
  BY <1>2, <1>4, <1>7
<1>9. \A p \in Order : drafter.copy[p] \in Entry
  BY <1>2 DEF DrafterType
<1>10. PapersInOrder'
  BY <1>1, <1>2, <1>3, <1>6, <1>7, <1>9 DEF OrderInv, PapersInOrder
<1>11. QED
  BY <1>1, <1>2, <1>8, <1>10, PaperworkKeeps

LEMMA StartDraftKeeps ==
  ASSUME OrderInv, NEW o \in Order, StartDraft(o), UNCHANGED booked PROVE OrderInv'
<1>1. /\ drafter' = [pc |-> "asking", order |-> o, copy |-> intake]
      /\ UNCHANGED <<intake, imports, drawn, pdf, deliveries, desk, mails, count,
                     unrecorded, reviewed, approved>>
      /\ intake[o].status = "reviewed"
  BY DEF StartDraft, Draftable
<1>2. intake \in [Order -> Entry] /\ drawn \in Seq(Nat) /\ imports \in Nat
  BY DEF OrderInv, OrderTypeOK
<1>3. drafter' \in DrafterType
  BY <1>1, <1>2 DEF DrafterType
<1>4. PapersInOrder'
  BY <1>1 DEF OrderInv, PapersInOrder
<1>5. QED
  BY <1>1, <1>2, <1>3, <1>4, PaperworkKeeps

LEMMA SaveDraftKeeps == ASSUME OrderInv, SaveDraft, UNCHANGED booked PROVE OrderInv'
<1> DEFINE o == drafter.order
           old == drafter.copy[o]
           new == [old EXCEPT !.plan = Len(drawn'), !.approved = FALSE]
<1>1. /\ o \in Order /\ old.status = "reviewed"
      /\ \A p \in Order : GoodEntry(drafter.copy[p], drawn, reviewed, approved)
      /\ \A p \in Order : GoodEntry(intake[p], drawn, reviewed, approved)
  BY DEF OrderInv, PapersInOrder, SaveDraft
<1>2. /\ intake \in [Order -> Entry] /\ drawn \in Seq(Nat) /\ imports \in Nat
      /\ drafter \in DrafterType /\ drafter.copy \in [Order -> Entry]
  BY DEF OrderInv, OrderTypeOK, DrafterType
<1>3. old \in Entry /\ old.fields \in Nat /\ old.fields \in reviewed
  BY <1>1, <1>2 DEF Entry, GoodEntry
<1>4. /\ drawn' = Append(drawn, old.fields)
      /\ drafter' = NoDraft
      /\ UNCHANGED <<imports, pdf, deliveries, desk, mails, count, unrecorded,
                     reviewed, approved>>
  BY DEF SaveDraft
<1>5. /\ drawn' \in Seq(Nat) /\ Len(drawn') = Len(drawn) + 1
      /\ drawn'[Len(drawn')] = old.fields /\ Len(drawn') \in Nat \ {0}
  BY <1>2, <1>3, <1>4
<1>6. \A e \in Entry : GoodEntry(e, drawn, reviewed, approved)
                         => GoodEntry(e, drawn', reviewed', approved')
  BY <1>2, <1>3, <1>4, <1>5, PapersStayGood
<1>7. /\ new \in Entry /\ new.status = "reviewed" /\ new.fields = old.fields
      /\ new.plan = Len(drawn') /\ new.approved = FALSE
  BY <1>1, <1>3, <1>5 DEF Entry
<1>8. DrawnWell(new.plan, drawn', reviewed')
  BY <1>3, <1>4, <1>5, <1>7 DEF DrawnWell
<1>9. GoodEntry(new, drawn', reviewed', approved')
  BY <1>3, <1>4, <1>7, <1>8 DEF GoodEntry
<1>10. intake' = [drafter.copy EXCEPT ![o] = new]
  <2>1. intake' = [drafter.copy EXCEPT ![o].plan = Len(drawn'), ![o].approved = FALSE]
    BY DEF SaveDraft
  <2>2. QED
    BY <1>1, <1>2, <2>1
<1> HIDE DEF new, old, o
<1>11. intake' \in [Order -> Entry]
  BY <1>2, <1>7, <1>10
<1>12. \A p \in Order : GoodEntry(intake'[p], drawn', reviewed', approved')
  BY <1>1, <1>2, <1>6, <1>9, <1>10
<1>13. PapersInOrder'
  BY <1>4, <1>12, NoEntryGood DEF PapersInOrder, NoDraft
<1>14. QED
  BY <1>2, <1>3, <1>4, <1>5, <1>11, <1>13, RestTypes, PaperworkKeeps

LEMMA DraftFailsKeeps == ASSUME OrderInv, DraftFails, UNCHANGED booked PROVE OrderInv'
<1>1. /\ drafter' = NoDraft
      /\ UNCHANGED <<intake, imports, drawn, pdf, deliveries, desk, mails, count,
                     unrecorded, reviewed, approved>>
  BY DEF DraftFails
<1>2. intake \in [Order -> Entry] /\ drawn \in Seq(Nat) /\ imports \in Nat
  BY DEF OrderInv, OrderTypeOK
<1>3. PapersInOrder'
  BY <1>1, NoEntryGood DEF OrderInv, PapersInOrder, NoDraft
<1>4. QED
  BY <1>1, <1>2, <1>3, RestTypes, PaperworkKeeps

LEMMA ApprovePlanKeeps ==
  ASSUME OrderInv, NEW o \in Order, ApprovePlan(o), UNCHANGED booked PROVE OrderInv'
<1> DEFINE entry == [intake[o] EXCEPT !.approved = TRUE]
<1>1. /\ intake' = [intake EXCEPT ![o] = entry]
      /\ approved' = approved \cup {intake[o].plan}
      /\ UNCHANGED <<imports, drafter, drawn, pdf, deliveries, desk, mails, count,
                     unrecorded, reviewed>>
  BY DEF ApprovePlan
<1>2. /\ intake \in [Order -> Entry] /\ drawn \in Seq(Nat) /\ imports \in Nat
      /\ drafter \in DrafterType
  BY DEF OrderInv, OrderTypeOK
<1>3. \A e \in Entry : GoodEntry(e, drawn, reviewed, approved)
                         => GoodEntry(e, drawn', reviewed', approved')
  BY <1>1, <1>2, PapersStayGood
<1>4. /\ entry \in Entry
      /\ entry.status = intake[o].status /\ entry.fields = intake[o].fields
      /\ entry.plan = intake[o].plan
  BY <1>2 DEF Entry
<1>5. GoodEntry(intake[o], drawn', reviewed', approved')
  BY <1>2, <1>3 DEF OrderInv, PapersInOrder
<1>6. GoodEntry(entry, drawn', reviewed', approved')
  BY <1>1, <1>4, <1>5 DEF GoodEntry
<1> HIDE DEF entry
<1>7. intake' \in [Order -> Entry]
  BY <1>1, <1>2, <1>4
<1>8. \A p \in Order : drafter.copy[p] \in Entry
  BY <1>2 DEF DrafterType
<1>9. PapersInOrder'
  BY <1>1, <1>2, <1>3, <1>6, <1>8 DEF OrderInv, PapersInOrder
<1>10. QED
  BY <1>1, <1>2, <1>7, <1>9, PaperworkKeeps

(***************************************************************************)
(* Delivery: the papers are left alone.                                    *)
(***************************************************************************)
LEMMA DeliveryKeeps ==
  ASSUME OrderInv,
         pdf' \in [Order -> Nat], deliveries' \in [Order -> Record],
         desk' \in [Desk -> DeskType],
         count' \in [Order -> Nat], unrecorded' \in [Order -> Nat],
         MailsInOrder', DesksInOrder',
         UNCHANGED <<intake, imports, drafter, drawn, reviewed, approved>>
  PROVE  OrderInv'
<1>1. OrderTypeOK'
  BY DEF OrderInv, OrderTypeOK
<1>2. PapersInOrder'
  BY DEF OrderInv, PapersInOrder
<1>3. QED
  BY <1>1, <1>2 DEF OrderInv

LEMMA DeskFacts ==
  ASSUME OrderInv
  PROVE  /\ pdf \in [Order -> Nat] /\ deliveries \in [Order -> Record]
         /\ count \in [Order -> Nat] /\ unrecorded \in [Order -> Nat]
         /\ desk \in [Desk -> DeskType]
         /\ MailsInOrder /\ DesksInOrder
BY DEF OrderInv, OrderTypeOK

\* The gates make sure that what goes into a PDF is approved and paid for.
LEMMA GatedIsDue ==
  ASSUME OrderInv, ledger \subseteq booked, NEW o \in Order, Gated(o)
  PROVE  /\ intake[o].plan \in Nat \ {0} /\ intake[o].fields \in Nat
         /\ DrawnWell(intake[o].plan, drawn, reviewed)
         /\ intake[o].plan \in approved
         /\ CaptureOf[o] \in booked
<1>1. GoodEntry(intake[o], drawn, reviewed, approved) /\ intake[o] \in Entry
  BY DEF OrderInv, PapersInOrder, OrderTypeOK
<1>2. QED
  BY <1>1 DEF Gated, GoodEntry, Entry, IsBooked

LEMMA RenderKeeps ==
  ASSUME OrderInv, ledger \subseteq booked, UNCHANGED booked,
         NEW d \in Desk, NEW o \in Order, NEW sends \in BOOLEAN,
         desk[d].pc = "idle", sends => d = "human", Render(d, o, sends)
  PROVE  OrderInv'
<1> DEFINE record == [status |-> "staged", draft |-> intake[o].plan, to |-> intake[o].fields]
           place  == [AtRest EXCEPT !.pc = "rendered", !.order = o, !.sends = sends,
                                    !.record = record]
<1>1. /\ pdf' = [pdf EXCEPT ![o] = intake[o].plan]
      /\ desk' = [desk EXCEPT ![d] = place]
      /\ UNCHANGED <<intake, imports, drafter, drawn, deliveries, mails, count,
                     unrecorded, reviewed, approved>>
      /\ Gated(o)
  BY DEF Render
<1>2. /\ intake[o].plan \in Nat \ {0} /\ intake[o].fields \in Nat
      /\ DrawnWell(intake[o].plan, drawn, reviewed)
      /\ intake[o].plan \in approved
      /\ CaptureOf[o] \in booked
  BY <1>1, GatedIsDue
<1>3. record \in Record
  BY <1>2 DEF Record
<1>4. /\ place \in DeskType /\ place.pc = "rendered" /\ place.order = o
      /\ place.sends = sends
  BY <1>3, RestTypes DEF AtRest, DeskType
<1> HIDE DEF record, place
<1>5. /\ pdf \in [Order -> Nat] /\ deliveries \in [Order -> Record]
      /\ count \in [Order -> Nat] /\ unrecorded \in [Order -> Nat]
      /\ desk \in [Desk -> DeskType]
      /\ MailsInOrder /\ DesksInOrder
  BY DeskFacts
<1>6. pdf' \in [Order -> Nat] /\ desk' \in [Desk -> DeskType]
  BY <1>1, <1>2, <1>4, <1>5
<1>7. MailsInOrder'
  BY <1>1, <1>2, <1>5 DEF MailsInOrder
<1>8. \A e \in Desk : desk'[e] = IF e = d THEN place ELSE desk[e]
  BY <1>1, <1>5
<1>9. \A p \in Order : pdf[p] # 0 => pdf'[p] # 0
  BY <1>1, <1>2, <1>5
<1>10. \A p \in Order : Unsaved(p)' <=> Unsaved(p)
  BY <1>4, <1>8 DEF Unsaved, Desk
<1>11. DesksInOrder'
  <2>1. \A e \in Desk : desk'[e].pc # "idle" => desk'[e].order \in Order /\ pdf'[desk'[e].order] # 0
    BY <1>1, <1>2, <1>4, <1>5, <1>8, <1>9 DEF DesksInOrder
  <2>2. \A e \in Desk : desk'[e].pc = "rendered" /\ desk'[e].sends => e = "human"
    BY <1>4, <1>5, <1>8 DEF DesksInOrder
  <2>3. desk'["loop"].pc \in {"idle", "rendered"}
    BY <1>4, <1>5, <1>8 DEF DesksInOrder, Desk
  <2>4. desk'["human"].pc \in {"sending", "mailed"} => desk'["human"] = desk["human"]
    BY <1>4, <1>8 DEF Desk
  <2>5. QED
    BY <1>1, <1>5, <1>10, <2>1, <2>2, <2>3, <2>4 DEF DesksInOrder
<1>12. QED
  BY <1>1, <1>5, <1>6, <1>7, <1>11, DeliveryKeeps

\* A record that says sent keeps saying so when the order is staged again.
LEMMA SaveStagedKeeps ==
  ASSUME OrderInv, UNCHANGED booked, NEW d \in Desk, SaveStaged(d)
  PROVE  OrderInv'
<1> DEFINE o == desk[d].order
           record == [desk[d].record EXCEPT !.status = StatusKept(o)]
           going == desk[d].sends /\ record.status # "sent"
           place == IF going
                    THEN [desk[d] EXCEPT !.pc = "sending", !.record = record,
                                         !.copy = deliveries']
                    ELSE AtRest
<1>1. /\ desk[d].pc = "rendered"
      /\ deliveries' = [deliveries EXCEPT ![o] = record]
      /\ desk' = [desk EXCEPT ![d] = place]
      /\ UNCHANGED <<intake, imports, drafter, drawn, pdf, mails, count, unrecorded,
                     reviewed, approved>>
  BY DEF SaveStaged
<1>2. /\ pdf \in [Order -> Nat] /\ deliveries \in [Order -> Record]
      /\ count \in [Order -> Nat] /\ unrecorded \in [Order -> Nat]
      /\ desk \in [Desk -> DeskType] /\ desk[d] \in DeskType
      /\ MailsInOrder /\ DesksInOrder
  BY DeskFacts
<1>3. /\ o \in Order /\ pdf[o] # 0
      /\ desk[d].sends => d = "human"
  BY <1>1, <1>2 DEF DesksInOrder
<1>4. /\ record \in Record
      /\ record.status = IF deliveries[o].status = "sent" THEN "sent" ELSE "staged"
  BY <1>2 DEF StatusKept, Record, DeskType
<1>5. /\ deliveries' \in [Order -> Record]
      /\ \A p \in Order : deliveries'[p].status = "sent" <=> deliveries[p].status = "sent"
  BY <1>1, <1>2, <1>3, <1>4
<1>6. /\ place \in DeskType
      /\ going => /\ place.pc = "sending" /\ place.order = o
                  /\ place.copy = deliveries'
      /\ ~going => place.pc = "idle"
  <2>1. CASE going
    BY <1>2, <1>4, <1>5, <2>1 DEF DeskType
  <2>2. CASE ~going
    BY <2>2, RestTypes DEF AtRest
  <2>3. QED
    BY <2>1, <2>2
<1>7. going => d = "human" /\ deliveries'[o].status # "sent"
  BY <1>1, <1>2, <1>3, <1>4, <1>5
<1> HIDE DEF place, going, record, o
<1>8. desk' \in [Desk -> DeskType] /\ \A e \in Desk : desk'[e] = IF e = d THEN place ELSE desk[e]
  BY <1>1, <1>2, <1>6
<1>9. MailsInOrder'
  BY <1>1, <1>2 DEF MailsInOrder
<1>10. \A p \in Order : Unsaved(p)' <=> Unsaved(p)
  BY <1>1, <1>6, <1>8 DEF Unsaved, Desk
<1>11. DesksInOrder'
  <2>1. \A e \in Desk : desk'[e].pc # "idle" => desk'[e].order \in Order /\ pdf'[desk'[e].order] # 0
    BY <1>1, <1>2, <1>3, <1>6, <1>8 DEF DesksInOrder
  <2>2. \A e \in Desk : desk'[e].pc = "rendered" /\ desk'[e].sends => e = "human"
    BY <1>2, <1>6, <1>8 DEF DesksInOrder
  <2>3. desk'["loop"].pc \in {"idle", "rendered"}
    BY <1>2, <1>6, <1>7, <1>8 DEF DesksInOrder, Desk
  <2>4. desk'["human"].pc \in {"sending", "mailed"} =>
          /\ deliveries'[desk'["human"].order].status # "sent"
          /\ \A p \in Order \ {desk'["human"].order} :
                desk'["human"].copy[p].status = "sent" <=> deliveries'[p].status = "sent"
    <3>1. CASE d = "human"
      BY <1>6, <1>7, <1>8, <3>1 DEF Desk
    <3>2. CASE d # "human"
      <4>1. desk'["human"] = desk["human"]
        BY <1>8, <3>2 DEF Desk
      <4>2. desk["human"].pc # "idle" => desk["human"].order \in Order
        BY <1>2 DEF DesksInOrder, Desk
      <4>3. QED
        BY <1>2, <1>5, <4>1, <4>2 DEF DesksInOrder
    <3>3. QED
      BY <3>1, <3>2
  <2>5. \A p \in Order : count'[p] <= unrecorded'[p] +
          (IF deliveries'[p].status = "sent" \/ Unsaved(p)' THEN 1 ELSE 0)
    BY <1>1, <1>2, <1>5, <1>10 DEF DesksInOrder
  <2>6. QED
    BY <2>1, <2>2, <2>3, <2>4, <2>5 DEF DesksInOrder
<1>12. QED
  BY <1>1, <1>2, <1>5, <1>8, <1>9, <1>11, DeliveryKeeps

\* What the human sends is staged, or goes straight to the mail.
LEMMA HumanSendsKeeps ==
  ASSUME OrderInv, ledger \subseteq booked, UNCHANGED booked, NEW o \in Order, HumanSends(o)
  PROVE  OrderInv'
<1> DEFINE place == [AtRest EXCEPT !.pc = "sending", !.order = o,
                                   !.record = deliveries[o], !.copy = deliveries]
<1>1. CASE deliveries[o].status = "none" \/ pdf[o] = 0
  BY <1>1, RenderKeeps DEF HumanSends, Desk
<1>2. CASE ~(deliveries[o].status = "none" \/ pdf[o] = 0)
  <2>1. /\ deliveries[o].status # "sent" /\ pdf[o] # 0
        /\ desk' = [desk EXCEPT !["human"] = place]
        /\ UNCHANGED <<intake, imports, drafter, drawn, pdf, deliveries, mails, count,
                       unrecorded, reviewed, approved>>
        /\ desk["human"].pc = "idle"
    BY <1>2 DEF HumanSends
  <2>2. /\ pdf \in [Order -> Nat] /\ deliveries \in [Order -> Record]
        /\ count \in [Order -> Nat] /\ unrecorded \in [Order -> Nat]
        /\ desk \in [Desk -> DeskType]
        /\ MailsInOrder /\ DesksInOrder
    BY DeskFacts
  <2>3. /\ place \in DeskType /\ place.pc = "sending" /\ place.order = o
        /\ place.copy = deliveries /\ place.sends = FALSE
    BY <2>2, RestTypes DEF AtRest, DeskType
  <2> HIDE DEF place
  <2>4. /\ desk' \in [Desk -> DeskType]
        /\ desk'["human"] = place /\ desk'["loop"] = desk["loop"]
    BY <2>1, <2>2, <2>3 DEF Desk
  <2>5. MailsInOrder'
    BY <2>1, <2>2 DEF MailsInOrder
  <2>6. \A p \in Order : ~Unsaved(p) /\ ~Unsaved(p)'
    BY <2>1, <2>3, <2>4 DEF Unsaved
  <2>7. DesksInOrder'
    BY <2>1, <2>2, <2>3, <2>4, <2>6 DEF DesksInOrder, Desk
  <2>8. QED
    BY <2>1, <2>2, <2>4, <2>5, <2>7, DeliveryKeeps
<1>3. QED
  BY <1>1, <1>2

\* The mail: at most one ahead of the records.
LEMMA MailKeeps == ASSUME OrderInv, UNCHANGED booked, Mail PROVE OrderInv'
<1> DEFINE h == desk["human"]
           mail == [order |-> h.order, draft |-> pdf[h.order], to |-> h.record.to]
<1>1. /\ h.pc = "sending"
      /\ mails' = mails \cup {mail}
      /\ count' = [count EXCEPT ![h.order] = count[h.order] + 1]
      /\ desk' = [desk EXCEPT !["human"] = [h EXCEPT !.pc = "mailed"]]
      /\ UNCHANGED <<intake, imports, drafter, drawn, pdf, deliveries, unrecorded,
                     reviewed, approved>>
  BY DEF Mail
<1>2. /\ pdf \in [Order -> Nat] /\ deliveries \in [Order -> Record]
      /\ count \in [Order -> Nat] /\ unrecorded \in [Order -> Nat]
      /\ desk \in [Desk -> DeskType] /\ h \in DeskType
      /\ MailsInOrder /\ DesksInOrder
  BY DeskFacts DEF Desk
<1>3. h.order \in Order /\ pdf[h.order] # 0 /\ deliveries[h.order].status # "sent"
  BY <1>1, <1>2 DEF DesksInOrder, Desk
<1>4. mail.order = h.order /\ mail.draft = pdf[h.order]
  OBVIOUS
<1>5. MailsInOrder'
  BY <1>1, <1>2, <1>3, <1>4 DEF MailsInOrder
<1>6. /\ desk' \in [Desk -> DeskType] /\ desk'["loop"] = desk["loop"]
      /\ desk'["human"].pc = "mailed" /\ desk'["human"].order = h.order
      /\ desk'["human"].copy = h.copy
  BY <1>1, <1>2 DEF Desk, DeskType
<1>7. \A p \in Order : ~Unsaved(p) /\ (Unsaved(p)' <=> p = h.order)
  BY <1>1, <1>6 DEF Unsaved
<1> HIDE DEF mail
<1>8. \A p \in Order : count'[p] <= unrecorded'[p] +
        (IF deliveries'[p].status = "sent" \/ Unsaved(p)' THEN 1 ELSE 0)
  <2> SUFFICES ASSUME NEW p \in Order
               PROVE  count'[p] <= unrecorded'[p] +
                        (IF deliveries'[p].status = "sent" \/ Unsaved(p)' THEN 1 ELSE 0)
    OBVIOUS
  <2>1. count[p] \in Nat /\ unrecorded[p] \in Nat
    BY <1>2
  <2>2. count[p] <= unrecorded[p] + (IF deliveries[p].status = "sent" THEN 1 ELSE 0)
    BY <1>2, <1>7 DEF DesksInOrder
  <2>3. CASE p = h.order
    BY <1>1, <1>2, <1>3, <1>7, <2>1, <2>2, <2>3
  <2>4. CASE p # h.order
    BY <1>1, <1>2, <1>7, <2>2, <2>4
  <2>5. QED
    BY <2>3, <2>4
<1>9. DesksInOrder'
  <2>1. \A e \in Desk : desk'[e].pc # "idle" => desk'[e].order \in Order /\ pdf'[desk'[e].order] # 0
    BY <1>1, <1>2, <1>3, <1>6 DEF DesksInOrder, Desk
  <2>2. \A e \in Desk : desk'[e].pc = "rendered" /\ desk'[e].sends => e = "human"
    BY <1>2, <1>6 DEF DesksInOrder, Desk
  <2>3. /\ deliveries'[desk'["human"].order].status # "sent"
        /\ \A p \in Order \ {desk'["human"].order} :
              desk'["human"].copy[p].status = "sent" <=> deliveries'[p].status = "sent"
    BY <1>1, <1>2, <1>3, <1>6 DEF DesksInOrder
  <2>4. desk'["loop"].pc \in {"idle", "rendered"}
    BY <1>2, <1>6 DEF DesksInOrder
  <2>5. QED
    BY <1>8, <2>1, <2>2, <2>3, <2>4 DEF DesksInOrder
<1>10. count' \in [Order -> Nat]
  BY <1>1, <1>2, <1>3
<1>11. QED
  BY <1>1, <1>2, <1>5, <1>6, <1>9, <1>10, DeliveryKeeps

\* The record catches up with the mail; the other records on the sender's copy
\* say sent where the file does.
LEMMA SaveSentKeeps == ASSUME OrderInv, UNCHANGED booked, SaveSent PROVE OrderInv'
<1> DEFINE h == desk["human"]
           record == [h.record EXCEPT !.status = "sent"]
<1>1. /\ h.pc = "mailed"
      /\ deliveries' = [h.copy EXCEPT ![h.order] = record]
      /\ desk' = [desk EXCEPT !["human"] = AtRest]
      /\ UNCHANGED <<intake, imports, drafter, drawn, pdf, mails, count, unrecorded,
                     reviewed, approved>>
  BY DEF SaveSent
<1>2. /\ pdf \in [Order -> Nat] /\ deliveries \in [Order -> Record]
      /\ count \in [Order -> Nat] /\ unrecorded \in [Order -> Nat]
      /\ desk \in [Desk -> DeskType] /\ h \in DeskType
      /\ MailsInOrder /\ DesksInOrder
  BY DeskFacts DEF Desk
<1>3. /\ h.order \in Order
      /\ \A p \in Order \ {h.order} : h.copy[p].status = "sent" <=> deliveries[p].status = "sent"
  BY <1>1, <1>2 DEF DesksInOrder, Desk
<1>4. record \in Record /\ record.status = "sent" /\ h.copy \in [Order -> Record]
  BY <1>2 DEF DeskType, Record
<1> HIDE DEF record
<1>5. /\ deliveries' \in [Order -> Record]
      /\ deliveries'[h.order].status = "sent"
      /\ \A p \in Order \ {h.order} : deliveries'[p].status = "sent" <=> deliveries[p].status = "sent"
  BY <1>1, <1>3, <1>4
<1>6. /\ desk' \in [Desk -> DeskType] /\ desk'["loop"] = desk["loop"]
      /\ desk'["human"].pc = "idle"
  BY <1>1, <1>2, RestTypes DEF Desk, AtRest
<1>7. MailsInOrder'
  BY <1>1, <1>2 DEF MailsInOrder
<1>8. \A p \in Order : Unsaved(p) <=> p = h.order
  BY <1>1 DEF Unsaved
<1>9. \A p \in Order : count'[p] <= unrecorded'[p] +
        (IF deliveries'[p].status = "sent" \/ Unsaved(p)' THEN 1 ELSE 0)
  <2> SUFFICES ASSUME NEW p \in Order
               PROVE  count[p] <= unrecorded[p] +
                        (IF deliveries'[p].status = "sent" \/ Unsaved(p)' THEN 1 ELSE 0)
    BY <1>1
  <2>1. /\ count[p] \in Nat /\ unrecorded[p] \in Nat
        /\ count[p] <= unrecorded[p] +
             (IF deliveries[p].status = "sent" \/ Unsaved(p) THEN 1 ELSE 0)
    BY <1>2 DEF DesksInOrder
  <2>2. deliveries[p].status = "sent" \/ Unsaved(p) => deliveries'[p].status = "sent"
    BY <1>5, <1>8
  <2>3. QED
    BY <2>1, <2>2
<1>10. DesksInOrder'
  BY <1>1, <1>2, <1>6, <1>9 DEF DesksInOrder, Desk
<1>11. QED
  BY <1>1, <1>2, <1>5, <1>6, <1>7, <1>10, DeliveryKeeps

\* A process gives up or dies; one that had mailed is counted.
LEMMA DeskStopsKeep ==
  ASSUME OrderInv, UNCHANGED booked, NEW d \in Desk,
         desk' = [desk EXCEPT ![d] = AtRest],
         unrecorded' = IF desk[d].pc = "mailed"
                       THEN [unrecorded EXCEPT ![desk[d].order] = unrecorded[desk[d].order] + 1]
                       ELSE unrecorded,
         UNCHANGED <<intake, imports, drafter, drawn, pdf, deliveries, mails, count,
                     reviewed, approved>>
  PROVE  OrderInv'
<1>1. /\ pdf \in [Order -> Nat] /\ deliveries \in [Order -> Record]
      /\ count \in [Order -> Nat] /\ unrecorded \in [Order -> Nat]
      /\ desk \in [Desk -> DeskType]
      /\ MailsInOrder /\ DesksInOrder
  BY DeskFacts
<1>2. /\ desk' \in [Desk -> DeskType]
      /\ \A e \in Desk : desk'[e] = IF e = d THEN AtRest ELSE desk[e]
      /\ AtRest.pc = "idle"
  BY <1>1, RestTypes DEF AtRest
<1>3. desk[d].pc = "mailed" => d = "human" /\ desk[d].order \in Order
  BY <1>1 DEF DesksInOrder, Desk
<1>4. unrecorded' \in [Order -> Nat]
  BY <1>1, <1>3
<1>5. MailsInOrder'
  BY <1>1 DEF MailsInOrder
<1>6. \A p \in Order : count'[p] <= unrecorded'[p] +
        (IF deliveries'[p].status = "sent" \/ Unsaved(p)' THEN 1 ELSE 0)
  <2> SUFFICES ASSUME NEW p \in Order
               PROVE  count'[p] <= unrecorded'[p] +
                        (IF deliveries'[p].status = "sent" \/ Unsaved(p)' THEN 1 ELSE 0)
    OBVIOUS
  <2>1. count[p] \in Nat /\ unrecorded[p] \in Nat /\ unrecorded'[p] \in Nat
    BY <1>1, <1>4
  <2>2. count[p] <= unrecorded[p] +
          (IF deliveries[p].status = "sent" \/ Unsaved(p) THEN 1 ELSE 0)
    BY <1>1 DEF DesksInOrder
  <2>3. CASE desk[d].pc = "mailed" /\ desk[d].order = p
    <3>1. unrecorded'[p] = unrecorded[p] + 1
      BY <1>1, <2>3
    <3>2. QED
      BY <2>1, <2>2, <3>1
  <2>4. CASE ~(desk[d].pc = "mailed" /\ desk[d].order = p)
    <3>1. unrecorded'[p] = unrecorded[p]
      BY <1>1, <1>3, <2>4
    <3>2. Unsaved(p) => Unsaved(p)'
      BY <1>2, <2>4 DEF Unsaved, Desk
    <3>3. QED
      BY <2>1, <2>2, <3>1, <3>2
  <2>5. QED
    BY <2>3, <2>4
<1>7. DesksInOrder'
  <2>1. \A e \in Desk : desk'[e].pc # "idle" => desk'[e] = desk[e]
    BY <1>2
  <2>2. desk'["loop"].pc \in {"idle", "rendered"}
    BY <1>1, <1>2 DEF DesksInOrder, Desk
  <2>3. "human" \in Desk
    BY DEF Desk
  <2>4. QED
    BY <1>1, <1>6, <2>1, <2>2, <2>3 DEF DesksInOrder
<1>8. QED
  BY <1>1, <1>2, <1>4, <1>5, <1>7, DeliveryKeeps
-----------------------------------------------------------------------------
LEMMA OrderNextKeeps ==
  ASSUME OrderInv, ledger \subseteq booked, UNCHANGED booked, OrderNext
  PROVE  OrderInv'
<1>1. ASSUME NEW o \in Order,
             Import(o) \/ Review(o) \/ StartDraft(o) \/ ApprovePlan(o)
      PROVE  OrderInv'
  BY <1>1, ImportKeeps, ReviewKeeps, StartDraftKeeps, ApprovePlanKeeps
<1>2. ASSUME NEW o \in Order, LoopStages(o) \/ HumanStages(o) PROVE OrderInv'
  BY <1>2, RenderKeeps DEF LoopStages, HumanStages, Desk
<1>3. ASSUME NEW o \in Order, HumanSends(o) PROVE OrderInv'
  BY <1>3, HumanSendsKeeps
<1>4. CASE SaveDraft \/ DraftFails
  BY <1>4, SaveDraftKeeps, DraftFailsKeeps
<1>5. CASE \E d \in Desk : SaveStaged(d)
  BY <1>5, SaveStagedKeeps
<1>6. CASE Mail \/ SaveSent
  BY <1>6, MailKeeps, SaveSentKeeps
<1>7. CASE MailFails
  BY <1>7, DeskStopsKeep DEF MailFails, Desk
<1>8. QED
  BY <1>1, <1>2, <1>3, <1>4, <1>5, <1>6, <1>7 DEF OrderNext

LEMMA OrderDeathKeeps == ASSUME OrderInv, OrderDeath PROVE OrderInv'
<1>1. UNCHANGED booked
  BY DEF OrderDeath
<1>2. UNCHANGED <<intake, imports, drawn, pdf, deliveries, mails, count, reviewed, approved>>
  BY DEF OrderDeath
<1>3. CASE drafter' = NoDraft /\ UNCHANGED <<desk, unrecorded>>
  <2>1. PapersInOrder'
    BY <1>2, <1>3, NoEntryGood DEF OrderInv, PapersInOrder, NoDraft
  <2>2. intake' \in [Order -> Entry] /\ drawn' \in Seq(Nat) /\ imports' \in Nat
    BY <1>2 DEF OrderInv, OrderTypeOK
  <2>3. QED
    BY <1>1, <1>2, <1>3, <2>1, <2>2, RestTypes, PaperworkKeeps
<1>4. ASSUME NEW d \in Desk,
             desk' = [desk EXCEPT ![d] = AtRest],
             unrecorded' = IF desk[d].pc = "mailed"
                           THEN [unrecorded EXCEPT ![desk[d].order] = unrecorded[desk[d].order] + 1]
                           ELSE unrecorded,
             UNCHANGED drafter
      PROVE  OrderInv'
  BY <1>1, <1>2, <1>4, DeskStopsKeep
<1>5. QED
  BY <1>3, <1>4 DEF OrderDeath

LEMMA OrderInvHolds == Spec => [](BoardInv /\ OrderInv)
<1>1. Init => BoardInv /\ OrderInv
  BY BoardInvInit, OrderInvInit DEF Init
<1>2. BoardInv /\ OrderInv /\ [Next]_vars => (BoardInv /\ OrderInv)'
  <2> SUFFICES ASSUME BoardInv, OrderInv, [Next]_vars PROVE (BoardInv /\ OrderInv)'
    OBVIOUS
  <2>1. BoardInv'
    BY BoardStepKeeps DEF Next, vars
  <2>2. ledger \subseteq booked
    BY DEF BoardInv
  <2>3. CASE BoardNext /\ UNCHANGED orderVars
    BY <2>1, <2>3, BookedGrows, BoardKeepsOrders
  <2>4. CASE OrderNext /\ UNCHANGED boardVars
    BY <2>1, <2>2, <2>4, OrderNextKeeps DEF boardVars
  <2>5. CASE OrderDeath
    BY <2>1, <2>5, OrderDeathKeeps
  <2>6. CASE UNCHANGED vars
    BY <2>1, <2>6, BoardKeepsOrders DEF vars, boardVars
  <2>7. QED
    BY <2>1, <2>3, <2>4, <2>5, <2>6 DEF Next
<1>3. QED
  BY <1>1, <1>2, PTL DEF Spec

(***************************************************************************)
(* Every mail carries a plan that a human approved, drawn from a           *)
(* submission a human had reviewed, for a booked payment; and an order has *)
(* at most one mail more than senders died unrecorded (delivery.py:        *)
(* "Refuses to send twice for the same order"), for any number of orders   *)
(* and submissions and however often something is staged again.            *)
(***************************************************************************)
THEOREM MailsStayDue == Spec => []MailsAreDue
<1>1. OrderInv => MailsAreDue
  <2> SUFFICES ASSUME OrderInv PROVE MailsAreDue
    OBVIOUS
  <2>1. MailsInOrder /\ DesksInOrder /\ count \in [Order -> Nat] /\ unrecorded \in [Order -> Nat]
    BY DEF OrderInv, OrderTypeOK
  <2>2. \A m \in mails : /\ m.draft \in approved
                         /\ drawn[m.draft] \in reviewed
                         /\ CaptureOf[m.order] \in booked
    BY <2>1 DEF MailsInOrder, DrawnWell
  <2>3. \A o \in Order : count[o] <= 1 + unrecorded[o]
    BY <2>1 DEF DesksInOrder
  <2>4. QED
    BY <2>2, <2>3 DEF MailsAreDue
<1>2. QED
  BY <1>1, OrderInvHolds, PTL
-----------------------------------------------------------------------------
(***************************************************************************)
(* Nobody is taken back from a fresh copy.                                 *)
(***************************************************************************)
LEMMA Places ==
  /\ Place("absent") = 0 /\ Place("rejected") = 8
  /\ Place("discovered") = 1 /\ Place("shortlisted") = 2 /\ Place("approved") = 3
  /\ Place("investigating") = 4 /\ Place("validated") = 5 /\ Place("launched") = 6
  /\ Place("earning") = 7
<1>1. ASSUME NEW k \in 1..7 PROVE (CHOOSE i \in 1..7 : Ladder[i] = Ladder[k]) = k
  <2>1. \A i \in 1..7 : Ladder[i] = Ladder[k] => i = k
    BY DEF Ladder
  <2>2. QED
    BY <2>1
<1>2. \A k \in 1..7 : Ladder[k] # "absent" /\ Ladder[k] # "rejected"
  BY DEF Ladder
<1>3. \A k \in 1..7 : Place(Ladder[k]) = k
  BY <1>1, <1>2 DEF Place
<1>4. /\ Ladder[1] = "discovered" /\ Ladder[2] = "shortlisted" /\ Ladder[3] = "approved"
      /\ Ladder[4] = "investigating" /\ Ladder[5] = "validated" /\ Ladder[6] = "launched"
      /\ Ladder[7] = "earning"
  BY DEF Ladder
<1>5. Place("absent") = 0 /\ Place("rejected") = 8
  BY DEF Place
<1>6. QED
  BY <1>3, <1>4, <1>5

LEMMA LegalMovesClimb ==
  ASSUME NEW from \in Status, NEW to \in Status, CanTransition(from, to)
  PROVE  Place(from) <= Place(to)
BY Places, StatusNames DEF CanTransition, Forward

\* Nothing a candidate had is gone.
Keeps(new, old) == ~(Place(new.status) < Place(old.status)) /\ old.notes \subseteq new.notes

LEMMA SameKeeps == ASSUME NEW e \in Candidate PROVE Keeps(e, e)
<1>1. Place(e.status) \in Nat
  BY Places, StatusNames DEF Candidate
<1>2. QED
  BY <1>1 DEF Keeps

LEMMA TreatedKeeps ==
  ASSUME NEW b \in Board, NEW action \in Doable \ {"discover"}, NEW c \in Pending(b, action)
  PROVE  Keeps(Treated(b[c], action), b[c])
<1>1. c \in Cand /\ b[c] \in Candidate
  BY DEF Pending, Lacking, In, Board
<1>2. Place(b[c].status) \in Nat
  BY <1>1, Places, StatusNames DEF Candidate
<1>3. CASE action = "investigate"
  <2>1. b[c].status = "approved"
    BY <1>3 DEF Pending, In
  <2>2. Treated(b[c], action) = [b[c] EXCEPT !.status = "investigating"]
    BY <1>3 DEF Treated
  <2>3. Treated(b[c], action).status = "investigating" /\ Treated(b[c], action).notes = b[c].notes
    BY <1>1, <2>2 DEF Candidate
  <2>4. QED
    BY <2>1, <2>3, Places DEF Keeps
<1>4. CASE action # "investigate"
  <2>1. \E note : Treated(b[c], action) = [b[c] EXCEPT !.notes = b[c].notes \cup {note}]
    BY <1>4 DEF Treated
  <2>2. PICK note : Treated(b[c], action) = [b[c] EXCEPT !.notes = b[c].notes \cup {note}]
    BY <2>1
  <2>3. /\ Treated(b[c], action).status = b[c].status
        /\ Treated(b[c], action).notes = b[c].notes \cup {note}
    BY <1>1, <2>2 DEF Candidate
  <2>4. QED
    BY <1>2, <2>3 DEF Keeps
<1>5. QED
  BY <1>3, <1>4

LEMMA DiscoveredKeeps ==
  ASSUME NEW b \in Board, NEW kept \in SUBSET Cand, NEW best \in SUBSET kept, NEW c \in Cand
  PROVE  Keeps(Discovered(b, kept, best)[c], b[c])
<1>1. b[c] \in Candidate /\ Place(b[c].status) \in Nat
  BY Places, StatusNames DEF Board, Candidate
<1>2. /\ Upsert(b[c]).status = IF b[c].status = "absent" THEN "discovered" ELSE b[c].status
      /\ Upsert(b[c]).notes = b[c].notes
  BY <1>1 DEF Candidate, Upsert
<1>3. CASE c \in best /\ Upsert(b[c]).status = "discovered"
  <2>1. /\ Discovered(b, kept, best)[c].status = "shortlisted"
        /\ Discovered(b, kept, best)[c].notes = b[c].notes
    <3>1. Upsert(b[c]) \in Candidate
      BY <1>1, StatusNames DEF Candidate, Upsert
    <3>2. Discovered(b, kept, best)[c] = [Upsert(b[c]) EXCEPT !.status = "shortlisted"]
      BY <1>3 DEF Discovered
    <3>3. QED
      BY <1>2, <3>1, <3>2 DEF Candidate
  <2>2. b[c].status \in {"absent", "discovered"}
    BY <1>2, <1>3
  <2>3. QED
    BY <2>1, <2>2, Places DEF Keeps
<1>4. CASE c \in kept /\ ~(c \in best /\ Upsert(b[c]).status = "discovered")
  <2>1. Discovered(b, kept, best)[c] = Upsert(b[c])
    BY <1>4 DEF Discovered
  <2>2. QED
    BY <1>1, <1>2, <2>1, Places DEF Keeps
<1>5. CASE c \notin kept
  <2>1. Discovered(b, kept, best)[c] = b[c]
    BY <1>5 DEF Discovered
  <2>2. QED
    BY <1>1, <2>1, SameKeeps
<1>6. QED
  BY <1>3, <1>4, <1>5

Overwritten(c) ==
  \/ agent.pc = "working" /\ agent' # agent /\ agent.copy[c] # board[c]
  \/ booker.pc = "booked" /\ booker' # booker /\ booker.copy[c] # board[c]

LEMMA KeptIsNotTaken == \A c : Keeps(board'[c], board[c]) => ~TakenBack(c)
BY DEF Keeps, TakenBack

LEMMA UntouchedIsNotTaken ==
  ASSUME BoardInv, board' = board, NEW c \in Cand PROVE ~TakenBack(c)
<1>1. board[c] \in Candidate
  BY DEF BoardInv, BoardTypeOK, Board
<1>2. QED
  BY <1>1, SameKeeps, KeptIsNotTaken

LEMMA PassTakesNothing ==
  ASSUME BoardInv, Pass, NEW c \in Cand, TakenBack(c) PROVE Overwritten(c)
<1> DEFINE copy == agent.copy
           action == agent.action
<1>1. copy \in Board /\ action \in Doable \ {"discover"} /\ agent.pc = "working"
  BY DEF BoardInv, BoardTypeOK, Pass
<1>2. PICK well \in SUBSET Pending(copy, action) :
        /\ board' = IF action \in Goal /\ Pending(copy, action) = {}
                    THEN board
                    ELSE [d \in Cand |-> IF d \in well THEN Treated(copy[d], action)
                                         ELSE copy[d]]
        /\ agent' = NextCycle(IF action \in Goal /\ well = {}
                              THEN agent.done \cup {action} ELSE agent.done, FALSE)
  BY DEF Pass
<1>3. agent' # agent
  <2>1. agent'.pc \in {"idle", "deciding"}
    BY <1>2, NextCyclePc
  <2>2. QED
    BY <1>1, <2>1
<1>4. copy[c] # board[c]
  <2> SUFFICES ASSUME copy[c] = board[c] PROVE FALSE
    OBVIOUS
  <2>1. copy[c] \in Candidate
    BY <1>1 DEF Board
  <2>2. c \in well => Keeps(Treated(copy[c], action), copy[c])
    BY <1>1, TreatedKeeps
  <2>3. Keeps(copy[c], copy[c])
    BY <2>1, SameKeeps
  <2> HIDE DEF copy, action
  <2>4. CASE board' = board
    BY <2>4, UntouchedIsNotTaken
  <2>5. CASE board' = [d \in Cand |-> IF d \in well THEN Treated(copy[d], action) ELSE copy[d]]
    <3>1. board'[c] = IF c \in well THEN Treated(copy[c], action) ELSE copy[c]
      BY <2>5
    <3>2. Keeps(board'[c], board[c])
      BY <2>2, <2>3, <3>1
    <3>3. QED
      BY <3>2, KeptIsNotTaken
  <2>6. QED
    BY <1>2, <2>4, <2>5
<1>5. QED
  BY <1>1, <1>3, <1>4 DEF Overwritten

LEMMA DiscoverTakesNothing ==
  ASSUME BoardInv, Discover, NEW c \in Cand, TakenBack(c) PROVE Overwritten(c)
<1>1. agent.copy \in Board /\ agent.pc = "working"
  BY DEF BoardInv, BoardTypeOK, Discover
<1>2. /\ \E kept \in SUBSET Cand : \E best \in SUBSET kept :
             board' = Discovered(agent.copy, kept, best)
      /\ \E done : agent' = NextCycle(done, FALSE)
  BY DEF Discover
<1>3. Keeps(board'[c], agent.copy[c])
  BY <1>1, <1>2, DiscoveredKeeps
<1>4. agent'.pc \in {"idle", "deciding"}
  BY <1>2, NextCyclePc
<1>5. agent.copy[c] # board[c]
  BY <1>3, KeptIsNotTaken
<1>6. QED
  BY <1>1, <1>4, <1>5 DEF Overwritten

LEMMA GateTakesNothing ==
  ASSUME BoardInv, NEW d \in Cand, NEW to \in Status, Gate(d, to), NEW c \in Cand
  PROVE  ~TakenBack(c)
<1>1. \A e \in Cand : board[e] \in Candidate
  BY DEF BoardInv, BoardTypeOK, Board
<1>2. board' = [board EXCEPT ![d] = [board[d] EXCEPT !.status = to]] /\ board \in Board
  BY DEF Gate, BoardInv, BoardTypeOK
<1>3. CASE c # d
  <2>1. board'[c] = board[c]
    BY <1>2, <1>3 DEF Board
  <2>2. QED
    BY <1>1, <2>1, SameKeeps, KeptIsNotTaken
<1>4. CASE c = d
  <2>1. board'[c].status = to /\ board'[c].notes = board[c].notes
    BY <1>1, <1>2, <1>4 DEF Board, Candidate
  <2>2. Place(board[d].status) <= Place(to)
    BY <1>1, LegalMovesClimb DEF Gate, Candidate
  <2>3. Place(board[d].status) \in Nat /\ Place(to) \in Nat
    BY <1>1, Places, StatusNames DEF Candidate
  <2>4. Keeps(board'[c], board[c])
    BY <1>4, <2>1, <2>2, <2>3 DEF Keeps
  <2>5. QED
    BY <2>4, KeptIsNotTaken
<1>5. QED
  BY <1>3, <1>4

LEMMA SaveEarningTakesNothing ==
  ASSUME BoardInv, SaveEarning, NEW c \in Cand, TakenBack(c) PROVE Overwritten(c)
<1> DEFINE copy == booker.copy
<1>1. /\ copy \in Board /\ copy[c] \in Candidate
      /\ booker.pc = "booked" /\ booker'.pc = "loaded"
      /\ c \in booker.paid => copy[c].status = "launched"
  BY DEF BoardInv, BoardTypeOK, SaveEarning, Board
<1>2. board' = [d \in Cand |-> IF d \in booker.paid
                             THEN [copy[d] EXCEPT !.status = "earning"] ELSE copy[d]]
  BY DEF SaveEarning
<1> HIDE DEF copy
<1>3. Keeps(board'[c], copy[c])
  <2>1. CASE c \in booker.paid
    <3>1. board'[c] = [copy[c] EXCEPT !.status = "earning"]
      BY <1>2, <2>1
    <3>2. board'[c].status = "earning" /\ board'[c].notes = copy[c].notes
      BY <1>1, <3>1 DEF Candidate
    <3>3. QED
      BY <1>1, <2>1, <3>2, Places DEF Keeps
  <2>2. CASE c \notin booker.paid
    BY <1>1, <1>2, <2>2, SameKeeps
  <2>3. QED
    BY <2>1, <2>2
<1>4. copy[c] # board[c]
  BY <1>3, KeptIsNotTaken
<1>5. QED
  BY <1>1, <1>4 DEF Overwritten, copy

(***************************************************************************)
(* No candidate loses its place or a note, unless a pass or a booking puts *)
(* back a copy that was no longer what the file held (workflow.py: a re-run*)
(* "never downgrades a candidate a human has already acted on").           *)
(***************************************************************************)
THEOREM NobodyTakenBack == Spec => NeverDowngraded
<1>1. BoardInv /\ [Next]_vars => [\A c \in Cand : TakenBack(c) => Overwritten(c)]_boardVars
  <2> SUFFICES ASSUME BoardInv, [Next]_vars, NEW c \in Cand, TakenBack(c)
               PROVE  Overwritten(c)
    OBVIOUS
  <2>1. board' # board
    BY UntouchedIsNotTaken
  <2>2. Pass \/ Discover \/ Approve \/ Reject \/ Validate \/ Launch \/ SaveEarning
    <3>1. StartRun \/ Decide \/ LoadBoard \/ Refused => board' = board
      BY DEF StartRun, Decide, LoadBoard, Refused
    <3>2. LoadToBook \/ EndBooking \/ BoardDeath \/ OrderDeath => board' = board
      BY DEF LoadToBook, EndBooking, BoardDeath, OrderDeath
    <3>3. \A p \in Pay : Book(p) => board' = board
      BY DEF Book
    <3>4. UNCHANGED vars \/ UNCHANGED boardVars => board' = board
      BY DEF vars, boardVars
    <3>5. QED
      BY <2>1, <3>1, <3>2, <3>3, <3>4 DEF Next, BoardNext
  <2>3. CASE Approve \/ Reject \/ Validate \/ Launch
    BY <2>3, GateTakesNothing, StatusNames DEF Approve, Reject, Validate, Launch
  <2>4. QED
    BY <2>2, <2>3, PassTakesNothing, DiscoverTakesNothing, SaveEarningTakesNothing
<1> DEFINE A == \A c \in Cand : TakenBack(c) =>
                  \/ agent.pc = "working" /\ agent' # agent /\ agent.copy[c] # board[c]
                  \/ booker.pc = "booked" /\ booker' # booker /\ booker.copy[c] # board[c]
<1>2. BoardInv /\ [Next]_vars => [A]_boardVars
  BY <1>1 DEF Overwritten
<1>3. [][A]_boardVars <=> NeverDowngraded
  BY DEF NeverDowngraded
<1> HIDE DEF A
<1>4. QED
  BY <1>2, <1>3, BoardInvHolds, PTL DEF Spec
=============================================================================
