------------------------- MODULE AutonomyLoopProofs -------------------------
(***************************************************************************)
(* Theorems about module AutonomyLoop, for every set of opportunities,     *)
(* categories and ranks and every value of the limits: the experiments in  *)
(* flight stay within the capacity, nothing is tested that is not on disk, *)
(* requests match the board unless a cycle was torn, and a human's         *)
(* decision is lost only by a cycle that had loaded the requests before.   *)
(***************************************************************************)
EXTENDS AutonomyLoop, FiniteSetTheorems, TLAPS

\* A command under way holds a copy of the board, or of the requests.
EditsBoard == edit # <<>> /\ edit[1] = "board"
EditsRequests == edit # <<>> /\ edit[1] # "board"

-----------------------------------------------------------------------------
(* Capacity: it is kept by every version of the board, also by the ones    *)
(* that are saved late.                                                    *)
Running(b) == InFlight(b) \ Accepted(b)
Held(b) == Cardinality(Running(b)) <= Capacity

HeldInv == Held(board) /\ Held(work) /\ (EditsBoard => Held(edit[2]))

(* Pages: in every version, what is in testing is on disk.                 *)
Backed(b, pages) == With(b, {"testing"}) \subseteq pages

BackedInv ==
    /\ Backed(board, published) /\ Backed(work, published)
    /\ EditsBoard => Backed(edit[2], published)

(* Decisions: the copies under way know every decision on file, but for    *)
(* those made since the cycle loaded the requests.                         *)
DecisionsInv ==
    /\ pc # "idle" =>
          \A q \in Request : /\ Decided(asks[q]) => Decided(requests[q])
                             /\ Decided(requests[q]) /\ q \notin during => Decided(asks[q])
    /\ EditsRequests => \A q \in Request : Decided(requests[q]) => Decided(edit[2][q])

(* Requests and board: what the copies must hold at each stage of a cycle  *)
(* for the two files to match when it has ended.                           *)
Matches(b, a) ==
    \A o \in Opp :
       /\ b[o].status = "testing" => a[<<"checkout", o>>] # "none"
       /\ b[o].status \in {"abandoned", "none"} => \A q \in Request : q[2] = o => a[q] # "pending"

MatchInv ==
    ~torn =>
       /\ pc # "save requests" => Matches(board, requests)
       /\ pc \in {"discover", "select"} => asks = requests
       /\ pc = "discover" => work = board
       /\ pc \in {"build", "review", "save board", "save requests"} => Matches(work, asks)
       /\ pc = "save requests" => work = board
       /\ pc = "idle" /\ EditsBoard => \A o \in Opp : edit[2][o].status = board[o].status
       /\ pc = "idle" /\ EditsRequests =>
             \A q \in Request :
                edit[2][q] # requests[q] => requests[q] # "none" /\ Decided(edit[2][q])

IInv == TypeOK /\ HeldInv /\ BackedInv /\ DecisionsInv /\ MatchInv

-----------------------------------------------------------------------------
(***************************************************************************)
(* The operators on boards and requests.                                   *)
(***************************************************************************)
Boards == [Opp -> OppRecord]
Files == [Request -> RequestStatus]

LEMMA BoardRecord == ASSUME NEW b \in Boards, NEW o \in Opp PROVE b[o] \in OppRecord
BY DEF Boards

LEMMA FreshType ==
  /\ Absent \in OppRecord /\ Absent.status = "none" /\ Absent.accepted = FALSE
  /\ Fresh \in OppRecord /\ Fresh.status = "discovered" /\ Fresh.accepted = FALSE
<1>1. 0 \in 0..StaleCycles
  BY LoopAssumption
<1>2. "DISCOVERED" \in OppState /\ "discovered" \in Status
  BY DEF OppState, Forward, Status, StateOfStatus
<1>3. Absent \in OppRecord /\ Absent.status = "none" /\ Absent.accepted = FALSE
  BY <1>1 DEF Absent, OppRecord
<1>4. Fresh \in OppRecord /\ Fresh.status = "discovered" /\ Fresh.accepted = FALSE
  <2>1. Fresh = [Absent EXCEPT !.status = "discovered", !.state = "DISCOVERED"]
    BY DEF Fresh
  <2>2. QED
    BY <1>2, <1>3, <2>1 DEF OppRecord
<1>5. QED
  BY <1>3, <1>4

LEMMA EmptyType == EmptyBoard \in Boards /\ NoRequests \in Files
BY FreshType DEF EmptyBoard, Boards, NoRequests, Files, RequestStatus

LEMMA StatusType ==
  /\ Status = {"discovered", "evaluating", "building", "testing", "active", "successful",
               "abandoned"}
  /\ \A s \in Status : StateOfStatus[s] \in OppState
<1>1. Status = {"discovered", "evaluating", "building", "testing", "active", "successful",
                "abandoned"}
  BY DEF Status, StateOfStatus
<1>2. /\ StateOfStatus["discovered"] = "DISCOVERED" /\ StateOfStatus["evaluating"] = "SCORED"
      /\ StateOfStatus["building"] = "BUILDING" /\ StateOfStatus["testing"] = "READY_TO_DEPLOY"
      /\ StateOfStatus["active"] = "ACTIVE" /\ StateOfStatus["successful"] = "ACTIVE"
      /\ StateOfStatus["abandoned"] = "ABANDONED"
  BY DEF StateOfStatus
<1>3. {"DISCOVERED", "SCORED", "BUILDING", "READY_TO_DEPLOY", "ACTIVE", "ABANDONED"}
        \subseteq OppState
  BY DEF OppState, Forward
<1>4. QED
  BY <1>1, <1>2, <1>3

\* set_status moves the legacy status of S and nothing else that is counted.
LEMMA SetStatusFacts ==
  ASSUME NEW b \in Boards, NEW S, NEW s \in Status
  PROVE  /\ SetStatus(b, S, s) \in Boards
         /\ \A o \in Opp :
               /\ SetStatus(b, S, s)[o].status = IF o \in S THEN s ELSE b[o].status
               /\ SetStatus(b, S, s)[o].accepted = b[o].accepted
<1>1. StateOfStatus[s] \in OppState
  BY StatusType
<1>2. ASSUME NEW o \in Opp
      PROVE  /\ SetStatus(b, S, s)[o] \in OppRecord
             /\ SetStatus(b, S, s)[o].status = IF o \in S THEN s ELSE b[o].status
             /\ SetStatus(b, S, s)[o].accepted = b[o].accepted
  <2>1. b[o] \in OppRecord
    BY BoardRecord
  <2>2. SetStatus(b, S, s)[o] =
          IF o \in S THEN [b[o] EXCEPT !.status = s, !.state = StateOfStatus[s]] ELSE b[o]
    BY DEF SetStatus
  <2>3. ASSUME NEW r \in OppRecord, NEW state \in OppState
        PROVE  /\ [r EXCEPT !.status = s, !.state = state] \in OppRecord
               /\ [r EXCEPT !.status = s, !.state = state].status = s
               /\ [r EXCEPT !.status = s, !.state = state].accepted = r.accepted
    BY DEF OppRecord
  <2>4. QED
    BY <1>1, <2>1, <2>2, <2>3
<1>3. QED
  BY <1>2 DEF SetStatus, Boards

LEMMA PutFacts ==
  ASSUME NEW b \in Boards, NEW S, NEW r \in OppRecord
  PROVE  /\ Put(b, S, r) \in Boards
         /\ \A o \in Opp : Put(b, S, r)[o] = IF o \in S THEN r ELSE b[o]
BY DEF Put, Boards

LEMMA UpsertFacts ==
  ASSUME NEW b \in Boards, NEW S
  PROVE  /\ Upsert(b, S) \in Boards
         /\ \A o \in Opp :
               \/ Upsert(b, S)[o] = b[o]
               \/ b[o].status = "none" /\ Upsert(b, S)[o] = Fresh
<1>1. Upsert(b, S) = Put(b, S \cap With(b, {"none"}), Fresh)
  BY DEF Upsert
<1>2. QED
  BY <1>1, PutFacts, FreshType DEF With

LEMMA SweptFacts ==
  ASSUME NEW b \in Boards, NEW c \in Swept(b)
  PROVE  /\ c \in Boards
         /\ \A o \in Opp : c[o] = b[o] \/ (b[o].status = "abandoned" /\ c[o] = Absent)
<1>1. c = b \/ \E keep : c = Put(b, With(b, {"abandoned"}) \ keep, Absent)
  BY DEF Swept
<1>2. CASE c = b
  BY <1>2
<1>3. ASSUME NEW keep, c = Put(b, With(b, {"abandoned"}) \ keep, Absent)
      PROVE  /\ c \in Boards
             /\ \A o \in Opp : c[o] = b[o] \/ (b[o].status = "abandoned" /\ c[o] = Absent)
  <2>1. /\ c \in Boards
        /\ \A o \in Opp : c[o] = IF o \in With(b, {"abandoned"}) \ keep THEN Absent ELSE b[o]
    BY <1>3, PutFacts, FreshType
  <2>2. QED
    BY <2>1 DEF With
<1>4. QED
  BY <1>1, <1>2, <1>3

LEMMA MeasuredFacts ==
  ASSUME NEW b \in Boards
  PROVE  /\ Measured(b) \in Boards
         /\ \A o \in Opp : /\ Measured(b)[o].status = b[o].status
                           /\ Measured(b)[o].accepted = b[o].accepted
<1>1. ASSUME NEW o \in Opp
      PROVE  /\ Measured(b)[o] \in OppRecord
             /\ Measured(b)[o].status = b[o].status
             /\ Measured(b)[o].accepted = b[o].accepted
  <2> DEFINE n == IF b[o].cycles < StaleCycles THEN b[o].cycles + 1 ELSE b[o].cycles
             e == b[o].earned \/ o \in ledger
  <2>1. b[o] \in OppRecord
    BY BoardRecord
  <2>2. n \in 0..StaleCycles /\ e \in BOOLEAN
    BY <2>1, LoopAssumption DEF OppRecord
  <2>3. Measured(b)[o] = IF o \in InFlight(b) THEN [b[o] EXCEPT !.cycles = n, !.earned = e]
                         ELSE b[o]
    BY DEF Measured
  <2> HIDE DEF n, e
  <2>4. ASSUME NEW r \in OppRecord
        PROVE  /\ [r EXCEPT !.cycles = n, !.earned = e] \in OppRecord
               /\ [r EXCEPT !.cycles = n, !.earned = e].status = r.status
               /\ [r EXCEPT !.cycles = n, !.earned = e].accepted = r.accepted
    BY <2>2 DEF OppRecord
  <2>5. QED
    BY <2>1, <2>3, <2>4
<1>2. QED
  BY <1>1 DEF Measured, Boards

LEMMA FileFacts ==
  ASSUME NEW a \in Files, NEW kind, NEW S
  PROVE  /\ File(a, kind, S) \in Files
         /\ \A q \in Request :
               File(a, kind, S)[q] = IF q[1] = kind /\ q[2] \in S /\ a[q] = "none"
                                     THEN "pending" ELSE a[q]
BY DEF File, Files, RequestStatus

LEMMA WithdrawFacts ==
  ASSUME NEW a \in Files, NEW S
  PROVE  /\ Withdraw(a, S) \in Files
         /\ \A q \in Request :
               Withdraw(a, S)[q] = IF q[2] \in S /\ a[q] = "pending" THEN "none" ELSE a[q]
BY DEF Withdraw, Files, RequestStatus

-----------------------------------------------------------------------------
(***************************************************************************)
(* The strategist never picks more than the free slots.                    *)
(***************************************************************************)
LEMMA OppFinite == \A S \in SUBSET Opp : IsFiniteSet(S) /\ Cardinality(S) \in Nat
BY LoopAssumption, FS_Subset, FS_CardinalityType

LEMMA SubsetBound ==
  ASSUME NEW T \in SUBSET Opp, NEW S \in SUBSET T
  PROVE  Cardinality(S) <= Cardinality(T)
BY OppFinite, FS_Subset

LEMMA UnionBound ==
  ASSUME NEW S \in SUBSET Opp, NEW T \in SUBSET Opp
  PROVE  Cardinality(S \cup T) <= Cardinality(S) + Cardinality(T)
<1>1. /\ IsFiniteSet(S) /\ IsFiniteSet(T)
      /\ Cardinality(S) \in Nat /\ Cardinality(T) \in Nat /\ Cardinality(S \cap T) \in Nat
  BY OppFinite
<1>2. Cardinality(S \cup T) = Cardinality(S) + Cardinality(T) - Cardinality(S \cap T)
  BY <1>1, FS_Union
<1>3. QED
  BY <1>1, <1>2

\* The number of better ones tells two members of a set apart, so that no
\* more than k members can have fewer than k better ones.
LEMMA TopBound ==
  ASSUME NEW S \in SUBSET Opp, NEW k \in Nat
  PROVE  Top(S, k) \subseteq S /\ Cardinality(Top(S, k)) \in 0..k
<1> DEFINE T == Top(S, k)
           place == [o \in T |-> Cardinality(Better(o, S))]
<1>1. T \subseteq S
  BY DEF Top
<1>2. ASSUME NEW o \in S
      PROVE  /\ Better(o, S) \in SUBSET Opp
             /\ IsFiniteSet(Better(o, S)) /\ Cardinality(Better(o, S)) \in Nat
  BY OppFinite DEF Better
<1>3. \A o \in S : Rank[o] \in Nat
  BY LoopAssumption
<1>4. ASSUME NEW o \in S, NEW p \in S, Rank[o] < Rank[p]
      PROVE  Cardinality(Better(o, S)) < Cardinality(Better(p, S))
  <2>1. Better(o, S) \cup {o} \in SUBSET Better(p, S) /\ o \notin Better(o, S)
    BY <1>3, <1>4 DEF Better
  <2>2. Cardinality(Better(o, S) \cup {o}) = Cardinality(Better(o, S)) + 1
    BY <1>2, <2>1, FS_AddElement
  <2>3. Cardinality(Better(o, S) \cup {o}) <= Cardinality(Better(p, S))
    BY <1>2, <2>1, FS_Subset
  <2>4. QED
    BY <1>2, <2>2, <2>3
<1>5. ASSUME NEW o \in S, NEW p \in S, Cardinality(Better(o, S)) = Cardinality(Better(p, S))
      PROVE  o = p
  <2>1. ~(Rank[o] < Rank[p]) /\ ~(Rank[p] < Rank[o])
    BY <1>2, <1>4, <1>5
  <2>2. Rank[o] = Rank[p]
    BY <1>3, <2>1
  <2>3. QED
    BY <2>2, LoopAssumption
<1>6. place \in Injection(T, 0..(k - 1))
  <2>1. \A o \in T : Cardinality(Better(o, S)) \in 0..(k - 1)
    BY <1>1, <1>2 DEF Top
  <2>2. place \in [T -> 0..(k - 1)]
    BY <2>1
  <2>3. \A o, p \in T : place[o] = place[p] => o = p
    BY <1>1, <1>5
  <2> HIDE DEF place
  <2>4. QED
    BY <2>2, <2>3 DEF Injection, IsInjective
<1>7. IsFiniteSet(0..(k - 1)) /\ Cardinality(0..(k - 1)) = k
  <2>1. 0 \in Int /\ k - 1 \in Int
    OBVIOUS
  <2>2. Cardinality(0..(k - 1)) = IF 0 > k - 1 THEN 0 ELSE (k - 1) - 0 + 1
    BY <2>1, FS_Interval
  <2>3. QED
    BY <2>1, <2>2, FS_Interval
<1> HIDE DEF place, T
<1>8. Cardinality(T) <= k
  BY <1>6, <1>7, FS_Injection
<1>9. Cardinality(T) \in Nat
  BY <1>1, OppFinite
<1>10. QED
  BY <1>1, <1>8, <1>9 DEF T

LEMMA PicksBound ==
  ASSUME NEW b, NEW blocked
  PROVE  /\ Picks(b, blocked) \subseteq With(b, {"evaluating", "discovered"}) \ Accepted(b)
         /\ Picks(b, blocked) \subseteq Opp
         /\ Cardinality(Picks(b, blocked)) <= FreeSlots(b)
<1> DEFINE free == FreeSlots(b)
           running == Categories(InFlight(b) \ Accepted(b))
           tested == running \cup
               Categories({o \in With(b, {"abandoned"}) \ Accepted(b) : b[o].cycles > 0})
           pool == With(b, {"evaluating", "discovered"}) \ (Accepted(b) \cup blocked)
           untested == {o \in pool : Cat[o] \notin tested}
           one == IF free > 0 THEN 1 ELSE 0
           explore == Top(untested, one)
           used == running \cup Categories(explore)
           leaders == {o \in pool : /\ Cat[o] \notin used
                                    /\ \A p \in Better(o, pool) : Cat[p] # Cat[o]}
           spread == explore \cup Top(leaders, free - Cardinality(explore))
           rest == Top(pool \ spread, free - Cardinality(spread))
<1>1. Picks(b, blocked) = spread \cup rest
  BY DEF Picks
<1>2. free \in Nat
  <2>1. Cardinality(InFlight(b) \ Accepted(b)) \in Nat /\ Capacity \in Nat
    BY OppFinite, LoopAssumption DEF InFlight, With
  <2>2. QED
    BY <2>1 DEF FreeSlots
<1>3. /\ pool \subseteq Opp /\ untested \subseteq pool /\ leaders \subseteq pool
      /\ pool \subseteq With(b, {"evaluating", "discovered"}) \ Accepted(b)
  BY DEF With
<1> HIDE DEF free, pool, untested, leaders
<1>4. one \in Nat /\ one <= free
  BY <1>2
<1> HIDE DEF one
<1>5. explore \subseteq untested /\ Cardinality(explore) \in 0..one
  BY <1>3, <1>4, TopBound
<1>6. free - Cardinality(explore) \in Nat
  BY <1>2, <1>4, <1>5
<1>7. /\ Top(leaders, free - Cardinality(explore)) \subseteq leaders
      /\ Cardinality(Top(leaders, free - Cardinality(explore)))
            \in 0..(free - Cardinality(explore))
  BY <1>3, <1>6, TopBound
<1> HIDE DEF explore
<1>8. spread \subseteq pool /\ Cardinality(spread) \in 0..free
  <2>1. Cardinality(spread) <= Cardinality(explore)
          + Cardinality(Top(leaders, free - Cardinality(explore)))
    BY <1>3, <1>5, <1>7, UnionBound
  <2>2. spread \subseteq pool
    BY <1>3, <1>5, <1>7
  <2>3. Cardinality(spread) \in Nat
    BY <1>3, <2>2, OppFinite
  <2> HIDE DEF spread
  <2>4. QED
    BY <1>2, <1>4, <1>5, <1>6, <1>7, <2>1, <2>2, <2>3
<1> HIDE DEF spread
<1>9. free - Cardinality(spread) \in Nat
  BY <1>2, <1>8
<1>10. rest \subseteq pool \ spread /\ Cardinality(rest) \in 0..(free - Cardinality(spread))
  BY <1>3, <1>9, TopBound
<1> HIDE DEF rest
<1>11. Cardinality(spread \cup rest) <= Cardinality(spread) + Cardinality(rest)
  BY <1>3, <1>8, <1>10, UnionBound
<1>12. spread \cup rest \subseteq pool
  BY <1>8, <1>10
<1>13. Cardinality(spread \cup rest) \in Nat
  BY <1>3, <1>12, OppFinite
<1>14. Cardinality(spread \cup rest) <= free
  BY <1>2, <1>8, <1>10, <1>11, <1>13
<1>15. QED
  BY <1>1, <1>3, <1>12, <1>14 DEF free

-----------------------------------------------------------------------------
(***************************************************************************)
(* What the steps of a cycle do to the copies.                             *)
(***************************************************************************)
LEMMA HeldSmaller ==
  ASSUME NEW b, NEW c, Held(b),
         \A o \in Opp : c[o].status \in {"building", "testing", "active"} /\ ~c[o].accepted =>
            b[o].status \in {"building", "testing", "active"} /\ ~b[o].accepted
  PROVE  Held(c)
<1>1. Running(c) \in SUBSET Running(b) /\ Running(b) \in SUBSET Opp
  BY DEF Running, InFlight, Accepted, With
<1>2. Cardinality(Running(c)) <= Cardinality(Running(b))
  BY <1>1, SubsetBound
<1>3. Cardinality(Running(c)) \in Nat /\ Cardinality(Running(b)) \in Nat /\ Capacity \in Nat
  BY <1>1, OppFinite, LoopAssumption
<1> HIDE DEF Running
<1>4. QED
  BY <1>2, <1>3 DEF Held

LEMMA EmptyHeld == Held(EmptyBoard)
<1>1. Running(EmptyBoard) = {}
  BY FreshType DEF Running, InFlight, With, EmptyBoard
<1>2. QED
  BY <1>1, FS_EmptySet, LoopAssumption DEF Held

LEMMA PicksHeld ==
  ASSUME NEW b \in Boards, NEW blocked, Held(b)
  PROVE  Held(SetStatus(b, Picks(b, blocked), "building"))
<1> DEFINE P == Picks(b, blocked)
           c == SetStatus(b, P, "building")
<1>1. "building" \in Status
  BY StatusType
<1>2. /\ P \subseteq With(b, {"evaluating", "discovered"}) \ Accepted(b) /\ P \subseteq Opp
      /\ Cardinality(P) <= FreeSlots(b)
  BY PicksBound
<1> HIDE DEF P
<1>3. \A o \in Opp : /\ c[o].status = IF o \in P THEN "building" ELSE b[o].status
                     /\ c[o].accepted = b[o].accepted
  BY <1>1, SetStatusFacts
<1> HIDE DEF c
<1>4. Running(c) \in SUBSET (Running(b) \cup P) /\ Running(b) \in SUBSET Opp
  BY <1>3 DEF Running, InFlight, Accepted, With
<1>5. /\ Cardinality(Running(b)) \in Nat /\ Cardinality(P) \in Nat
      /\ Cardinality(Running(c)) \in Nat /\ Cardinality(Running(b) \cup P) \in Nat
      /\ Capacity \in Nat
  BY <1>2, <1>4, OppFinite, LoopAssumption
<1>6. Cardinality(Running(b) \cup P) <= Cardinality(Running(b)) + Cardinality(P)
  BY <1>2, <1>4, UnionBound
<1>7. Cardinality(Running(c)) <= Cardinality(Running(b) \cup P)
  BY <1>2, <1>4, SubsetBound
<1>8. FreeSlots(b) = Capacity - Cardinality(Running(b))
  BY <1>5 DEF FreeSlots, Running, Held
<1>9. QED
  BY <1>2, <1>5, <1>6, <1>7, <1>8 DEF Held, c, P

SelectEffect(dropped) ==
    /\ asks' = Withdraw(asks, dropped) /\ asks' \in Files
    /\ work' \in Boards /\ Held(work')
    /\ \A o \in Opp :
          /\ o \in dropped => board[o].status \in {"discovered", "evaluating"}
          /\ work'[o].status = "testing" => board[o].status = "testing"
          /\ work'[o].status \in {"abandoned", "none"} =>
                o \in dropped \/ board[o].status \in {"abandoned", "none"}

LEMMA SelectFacts ==
  ASSUME board \in Boards, asks \in Files, Held(board), ScoreAndSelect
  PROVE  \E dropped : SelectEffect(dropped)
<1> DEFINE known == Accepted(board)
           scored == SetStatus(board, With(board, {"discovered"}) \ known, "evaluating")
           listed == With(scored, {"evaluating"}) \ known
           dropped == listed \ Shortlist(listed)
           pruned == SetStatus(scored, dropped, "abandoned")
<1>1. asks' = Withdraw(asks, dropped)
  BY DEF ScoreAndSelect
<1>2. PICK b \in Swept(pruned) : work' = SetStatus(b, Picks(b, Denied(asks')), "building")
  BY DEF ScoreAndSelect
<1>3. "evaluating" \in Status /\ "abandoned" \in Status /\ "building" \in Status
  BY StatusType
<1>4. /\ scored \in Boards
      /\ \A o \in Opp : /\ scored[o].status \in {board[o].status, "evaluating"}
                        /\ scored[o].status = "evaluating" =>
                              board[o].status \in {"discovered", "evaluating"}
                        /\ scored[o].accepted = board[o].accepted
  BY <1>3, SetStatusFacts DEF With
<1> HIDE DEF scored
<1>5. \A o \in Opp : o \in dropped => scored[o].status = "evaluating"
  BY DEF With
<1> HIDE DEF dropped
<1>6. /\ pruned \in Boards
      /\ \A o \in Opp : /\ pruned[o].status = IF o \in dropped THEN "abandoned" ELSE scored[o].status
                        /\ pruned[o].accepted = scored[o].accepted
  BY <1>3, <1>4, SetStatusFacts
<1> HIDE DEF pruned
<1>7. /\ b \in Boards
      /\ \A o \in Opp : b[o] = pruned[o] \/ (pruned[o].status = "abandoned" /\ b[o] = Absent)
  BY <1>6, SweptFacts
<1>8. Held(b)
  BY <1>4, <1>6, <1>7, HeldSmaller, FreshType
<1>9. Held(work')
  BY <1>2, <1>7, <1>8, PicksHeld
<1>10. /\ work' \in Boards
       /\ \A o \in Opp : work'[o].status \in {b[o].status, "building"}
  BY <1>2, <1>3, <1>7, SetStatusFacts
<1>11. ASSUME NEW o \in Opp
       PROVE  /\ o \in dropped => board[o].status \in {"discovered", "evaluating"}
              /\ work'[o].status = "testing" => board[o].status = "testing"
              /\ work'[o].status \in {"abandoned", "none"} =>
                    o \in dropped \/ board[o].status \in {"abandoned", "none"}
  BY <1>4, <1>5, <1>6, <1>7, <1>10, FreshType
<1>12. asks' \in Files
  BY <1>1, WithdrawFacts
<1>13. QED
  BY <1>1, <1>9, <1>10, <1>11, <1>12 DEF SelectEffect

BuildEffect(staged) ==
    /\ staged \subseteq With(work, {"building"})
    /\ published' = published \cup staged
    /\ asks' = File(asks, "checkout", staged) /\ asks' \in Files
    /\ work' \in Boards
    /\ \A o \in Opp : /\ work'[o].status = IF o \in staged THEN "testing" ELSE work[o].status
                      /\ work'[o].accepted = work[o].accepted

LEMMA BuildFacts ==
  ASSUME work \in Boards, asks \in Files, BuildAndPublish
  PROVE  \E staged : BuildEffect(staged)
<1>1. PICK staged \in SUBSET With(work, {"building"}) :
        /\ published' = published \cup staged
        /\ asks' = File(asks, "checkout", staged)
        /\ work' = SetStatus(work, staged, "testing")
  BY DEF BuildAndPublish, Tested
<1>2. "testing" \in Status
  BY StatusType
<1>3. /\ work' \in Boards
      /\ \A o \in Opp : /\ work'[o].status = IF o \in staged THEN "testing" ELSE work[o].status
                        /\ work'[o].accepted = work[o].accepted
  BY <1>1, <1>2, SetStatusFacts
<1>4. asks' \in Files
  BY <1>1, FileFacts
<1>5. QED
  BY <1>1, <1>3, <1>4 DEF BuildEffect

ReviewEffect(gone, winners) ==
    /\ asks' = File(Withdraw(asks, gone), "scale", winners) /\ asks' \in Files
    /\ work' \in Boards
    /\ \A o \in Opp :
          /\ work'[o].status \in {work[o].status, "abandoned", "successful", "discovered"}
          /\ work'[o].status \in {"building", "testing", "active"} =>
                work'[o].accepted = work[o].accepted
          /\ work'[o].status = "testing" => o \notin gone
          /\ work'[o].status = "abandoned" => o \in gone \/ work[o].status = "abandoned"
          /\ work'[o].status \in {"abandoned", "none"} => o \notin winners

LEMMA ReviewFacts ==
  ASSUME work \in Boards, asks \in Files, MeasureAndReview
  PROVE  \E gone, winners : ReviewEffect(gone, winners)
<1> DEFINE m == Measured(work)
           given(v) == {o \in InFlight(m) : Verdict(m[o]) = v}
           gone == given("abandon")
           won == given("promote")
           c == SetStatus(m, gone, "abandoned")
           b == SetStatus(c, won, "successful")
           next == UNION {Adjacent[o] : o \in won}
           winners == With(b, {"successful"})
<1>1. work' = Upsert(b, next) /\ asks' = File(Withdraw(asks, gone), "scale", winners)
  BY DEF MeasureAndReview
<1>2. "abandoned" \in Status /\ "successful" \in Status
  BY StatusType
<1>3. /\ m \in Boards
      /\ \A o \in Opp : m[o].status = work[o].status /\ m[o].accepted = work[o].accepted
  BY MeasuredFacts
<1> HIDE DEF m
<1>5. /\ c \in Boards
      /\ \A o \in Opp : /\ c[o].status = IF o \in gone THEN "abandoned" ELSE m[o].status
                        /\ c[o].accepted = m[o].accepted
  BY <1>2, <1>3, SetStatusFacts
<1> HIDE DEF c, gone, won
<1>6. /\ b \in Boards
      /\ \A o \in Opp : /\ b[o].status = IF o \in won THEN "successful" ELSE c[o].status
                        /\ b[o].accepted = c[o].accepted
  BY <1>2, <1>5, SetStatusFacts
<1>7. \A o \in Opp : o \in winners <=> b[o].status = "successful"
  BY DEF With
<1> HIDE DEF b, next, winners
<1>8. /\ work' \in Boards
      /\ \A o \in Opp : work'[o] = b[o] \/ (b[o].status = "none" /\ work'[o].status = "discovered")
  BY <1>1, <1>6, UpsertFacts, FreshType
<1>9. asks' \in Files
  BY <1>1, WithdrawFacts, FileFacts
<1>10. ASSUME NEW o \in Opp
       PROVE  /\ work'[o].status \in {work[o].status, "abandoned", "successful", "discovered"}
              /\ work'[o].status \in {"building", "testing", "active"} =>
                    work'[o].accepted = work[o].accepted
              /\ work'[o].status = "testing" => o \notin gone
              /\ work'[o].status = "abandoned" => o \in gone \/ work[o].status = "abandoned"
              /\ work'[o].status \in {"abandoned", "none"} => o \notin winners
  BY <1>3, <1>5, <1>6, <1>7, <1>8
<1>11. QED
  BY <1>1, <1>8, <1>9, <1>10 DEF ReviewEffect

-----------------------------------------------------------------------------
(***************************************************************************)
(* The inductive invariant, one lemma per step.                            *)
(***************************************************************************)
LEMMA TypeFacts ==
  ASSUME IInv
  PROVE  /\ board \in Boards /\ work \in Boards /\ requests \in Files /\ asks \in Files
         /\ EditsBoard => edit[2] \in Boards
         /\ EditsRequests => edit[2] \in Files
         /\ Held(board) /\ Held(work) /\ Backed(board, published) /\ Backed(work, published)
BY DEF IInv, TypeOK, HeldInv, BackedInv, Boards, Files, EditsBoard, EditsRequests

\* What TypeOK asks of a step, in one place.
LEMMA TypeFrame ==
  ASSUME IInv, board' \in Boards, work' \in Boards, requests' \in Files, asks' \in Files,
         published' \subseteq Opp, ledger' \subseteq Opp, paused' \in BOOLEAN,
         pc' \in {"idle", "discover", "select", "build", "review", "save board",
                  "save requests"},
         EditsBoard' => edit'[2] \in Boards,
         EditsRequests' => edit'[1] = "requests" /\ edit'[2] \in Files,
         during' \subseteq Request, torn' \in BOOLEAN,
         edits' \in 0..MaxEdits, crashes' \in 0..MaxCrashes
  PROVE  TypeOK'
BY DEF TypeOK, Boards, Files, EditsBoard, EditsRequests

LEMMA BeginStep == ASSUME IInv, BeginCycle PROVE IInv'
<1>1. TypeOK'
  BY DEF IInv, TypeOK, BeginCycle, human
<1>2. HeldInv' /\ BackedInv'
  BY DEF IInv, HeldInv, BackedInv, EditsBoard, BeginCycle, human
<1>3. DecisionsInv'
  BY DEF IInv, DecisionsInv, EditsRequests, BeginCycle, human
<1>4. MatchInv'
  BY DEF IInv, MatchInv, BeginCycle, human
<1>5. QED
  BY <1>1, <1>2, <1>3, <1>4 DEF IInv

LEMMA DiscoverStep == ASSUME IInv, Discover PROVE IInv'
<1>1. PICK new : board' = Upsert(work, new)
  BY DEF Discover
<1>2. /\ pc = "discover" /\ pc' = "select"
      /\ UNCHANGED <<requests, published, ledger, paused, work, asks, human, during, torn, crashes>>
  BY DEF Discover
<1>3. /\ board' \in Boards
      /\ \A o \in Opp : board'[o] = work[o] \/ (work[o].status = "none" /\ board'[o] = Fresh)
  BY <1>1, TypeFacts, UpsertFacts
<1>4. TypeOK'
  BY <1>2, <1>3, TypeFacts, TypeFrame
  DEF IInv, TypeOK, human, EditsBoard, EditsRequests
<1>5. HeldInv'
  <2>1. Held(board')
    BY <1>3, FreshType, TypeFacts, HeldSmaller
  <2>2. QED
    BY <1>2, <2>1 DEF IInv, HeldInv, EditsBoard, human
<1>6. BackedInv'
  <2>1. Backed(board', published)
    BY <1>3, FreshType, TypeFacts DEF Backed, With
  <2>2. QED
    BY <1>2, <2>1 DEF IInv, BackedInv, EditsBoard, human
<1>7. DecisionsInv'
  BY <1>2 DEF IInv, DecisionsInv, EditsRequests, human
<1>8. MatchInv'
  <2>1. ASSUME ~torn PROVE Matches(board', requests)
    <3>1. Matches(work, requests)
      BY <1>2, <2>1 DEF IInv, MatchInv
    <3>2. QED
      BY <1>3, <3>1, FreshType DEF Matches
  <2>2. QED
    BY <1>2, <2>1 DEF IInv, MatchInv
<1>9. QED
  BY <1>4, <1>5, <1>6, <1>7, <1>8 DEF IInv

LEMMA SelectStep == ASSUME IInv, ScoreAndSelect PROVE IInv'
<1>1. PICK dropped : SelectEffect(dropped)
  BY TypeFacts, SelectFacts
<1>2. /\ pc = "select" /\ pc' = "build"
      /\ UNCHANGED <<board, requests, published, ledger, paused, human, during, torn, crashes>>
  BY DEF ScoreAndSelect
<1>3. \A q \in Request :
        asks'[q] = IF q[2] \in dropped /\ asks[q] = "pending" THEN "none" ELSE asks[q]
  BY <1>1, TypeFacts, WithdrawFacts DEF SelectEffect
<1>4. TypeOK'
  BY <1>1, <1>2, TypeFacts, TypeFrame
  DEF IInv, TypeOK, human, EditsBoard, EditsRequests, SelectEffect
<1>5. HeldInv'
  BY <1>1, <1>2 DEF IInv, HeldInv, EditsBoard, human, SelectEffect
<1>6. BackedInv'
  BY <1>1, <1>2, TypeFacts DEF IInv, BackedInv, Backed, With, EditsBoard, human, SelectEffect
<1>7. DecisionsInv'
  BY <1>2, <1>3 DEF IInv, DecisionsInv, Decided, EditsRequests, human
<1>8. MatchInv'
  <2>1. ASSUME ~torn PROVE Matches(work', asks') /\ Matches(board, requests)
    <3>1. Matches(board, requests) /\ asks = requests
      BY <1>2, <2>1 DEF IInv, MatchInv
    <3>2. ASSUME NEW o \in Opp, work'[o].status = "testing"
          PROVE  asks'[<<"checkout", o>>] # "none"
      <4>1. board[o].status = "testing" /\ o \notin dropped
        BY <1>1, <3>2 DEF SelectEffect
      <4>2. <<"checkout", o>> \in Request
        BY DEF Request
      <4>3. QED
        BY <1>3, <3>1, <4>1, <4>2 DEF Matches
    <3>3. ASSUME NEW o \in Opp, work'[o].status \in {"abandoned", "none"},
                 NEW q \in Request, q[2] = o
          PROVE  asks'[q] # "pending"
      BY <1>1, <1>3, <3>1, <3>3 DEF Matches, SelectEffect
    <3>4. QED
      BY <3>1, <3>2, <3>3 DEF Matches
  <2>2. QED
    BY <1>2, <2>1 DEF MatchInv
<1>9. QED
  BY <1>4, <1>5, <1>6, <1>7, <1>8 DEF IInv

LEMMA BuildStep == ASSUME IInv, BuildAndPublish PROVE IInv'
<1>1. PICK staged : BuildEffect(staged)
  BY TypeFacts, BuildFacts
<1>2. /\ pc = "build" /\ pc' = "review"
      /\ UNCHANGED <<board, requests, ledger, paused, human, during, torn, crashes>>
  BY DEF BuildAndPublish
<1>3. \A q \in Request : asks'[q] = IF q[1] = "checkout" /\ q[2] \in staged /\ asks[q] = "none"
                                    THEN "pending" ELSE asks[q]
  BY <1>1, TypeFacts, FileFacts DEF BuildEffect
<1>4. staged \subseteq Opp /\ \A o \in staged : work[o].status = "building"
  BY <1>1 DEF BuildEffect, With
<1>5. TypeOK'
  BY <1>1, <1>2, <1>4, TypeFacts, TypeFrame
  DEF IInv, TypeOK, human, EditsBoard, EditsRequests, BuildEffect
<1>6. HeldInv'
  <2>1. Held(work')
    BY <1>1, <1>4, TypeFacts, HeldSmaller DEF BuildEffect
  <2>2. QED
    BY <1>2, <2>1 DEF IInv, HeldInv, EditsBoard, human
<1>7. BackedInv'
  BY <1>1, <1>2, TypeFacts DEF IInv, BackedInv, Backed, With, EditsBoard, human, BuildEffect
<1>8. DecisionsInv'
  BY <1>2, <1>3 DEF IInv, DecisionsInv, Decided, EditsRequests, human
<1>9. MatchInv'
  <2>1. ASSUME ~torn PROVE Matches(work', asks')
    <3>1. Matches(work, asks)
      BY <1>2, <2>1 DEF IInv, MatchInv
    <3>2. \A o \in Opp : <<"checkout", o>> \in Request
      BY DEF Request
    <3>3. ASSUME NEW o \in Opp, work'[o].status = "testing"
          PROVE  asks'[<<"checkout", o>>] # "none"
      <4>1. o \in staged \/ work[o].status = "testing"
        BY <1>1, <3>3 DEF BuildEffect
      <4>2. QED
        BY <1>3, <3>1, <3>2, <4>1 DEF Matches
    <3>4. ASSUME NEW o \in Opp, work'[o].status \in {"abandoned", "none"},
                 NEW q \in Request, q[2] = o
          PROVE  asks'[q] # "pending"
      <4>1. o \notin staged /\ work[o].status \in {"abandoned", "none"}
        BY <1>1, <3>4 DEF BuildEffect
      <4>2. QED
        BY <1>3, <3>1, <3>4, <4>1 DEF Matches
    <3>5. QED
      BY <3>3, <3>4 DEF Matches
  <2>2. QED
    BY <1>2, <2>1 DEF IInv, MatchInv
<1>10. QED
  BY <1>5, <1>6, <1>7, <1>8, <1>9 DEF IInv

LEMMA ReviewStep == ASSUME IInv, MeasureAndReview PROVE IInv'
<1>1. PICK gone, winners : ReviewEffect(gone, winners)
  BY TypeFacts, ReviewFacts
<1>2. /\ pc = "review" /\ pc' = "save board"
      /\ UNCHANGED <<board, requests, published, ledger, paused, human, during, torn, crashes>>
  BY DEF MeasureAndReview
<1>3. /\ \A q \in Request : Withdraw(asks, gone)[q] =
            IF q[2] \in gone /\ asks[q] = "pending" THEN "none" ELSE asks[q]
      /\ \A q \in Request : asks'[q] =
            IF q[1] = "scale" /\ q[2] \in winners /\ Withdraw(asks, gone)[q] = "none"
            THEN "pending" ELSE Withdraw(asks, gone)[q]
  BY <1>1, TypeFacts, WithdrawFacts, FileFacts DEF ReviewEffect
<1>4. TypeOK'
  BY <1>1, <1>2, TypeFacts, TypeFrame
  DEF IInv, TypeOK, human, EditsBoard, EditsRequests, ReviewEffect
<1>5. HeldInv'
  <2>1. Held(work')
    BY <1>1, TypeFacts, HeldSmaller DEF ReviewEffect
  <2>2. QED
    BY <1>2, <2>1 DEF IInv, HeldInv, EditsBoard, human
<1>6. BackedInv'
  BY <1>1, <1>2, TypeFacts DEF IInv, BackedInv, Backed, With, EditsBoard, human, ReviewEffect
<1>7. DecisionsInv'
  BY <1>2, <1>3 DEF IInv, DecisionsInv, Decided, EditsRequests, human
<1>8. MatchInv'
  <2>1. ASSUME ~torn PROVE Matches(work', asks')
    <3>1. Matches(work, asks)
      BY <1>2, <2>1 DEF IInv, MatchInv
    <3>2. \A o \in Opp : <<"checkout", o>> \in Request
      BY DEF Request
    <3>3. ASSUME NEW o \in Opp, work'[o].status = "testing"
          PROVE  asks'[<<"checkout", o>>] # "none"
      <4>1. o \notin gone /\ work[o].status = "testing"
        BY <1>1, <3>3 DEF ReviewEffect
      <4>2. QED
        BY <1>3, <3>1, <3>2, <4>1 DEF Matches
    <3>4. ASSUME NEW o \in Opp, work'[o].status \in {"abandoned", "none"},
                 NEW q \in Request, q[2] = o
          PROVE  asks'[q] # "pending"
      <4>1. o \notin winners /\ (o \in gone \/ work[o].status \in {"abandoned", "none"})
        BY <1>1, <3>4 DEF ReviewEffect
      <4>2. QED
        BY <1>3, <3>1, <3>4, <4>1 DEF Matches
    <3>5. QED
      BY <3>3, <3>4 DEF Matches
  <2>2. QED
    BY <1>2, <2>1 DEF IInv, MatchInv
<1>9. QED
  BY <1>4, <1>5, <1>6, <1>7, <1>8 DEF IInv

LEMMA SaveBoardStep == ASSUME IInv, SaveBoard PROVE IInv'
<1>1. TypeOK'
  BY DEF IInv, TypeOK, SaveBoard, human
<1>2. HeldInv' /\ BackedInv'
  BY DEF IInv, HeldInv, BackedInv, EditsBoard, SaveBoard, human
<1>3. DecisionsInv'
  BY DEF IInv, DecisionsInv, EditsRequests, SaveBoard, human
<1>4. MatchInv'
  BY DEF IInv, MatchInv, SaveBoard, human
<1>5. QED
  BY <1>1, <1>2, <1>3, <1>4 DEF IInv

LEMMA SaveRequestsStep == ASSUME IInv, SaveRequests PROVE IInv'
<1>1. TypeOK'
  BY EmptyType DEF IInv, TypeOK, SaveRequests, human, Boards, Files
<1>2. HeldInv'
  BY EmptyHeld DEF IInv, HeldInv, EditsBoard, SaveRequests, human
<1>3. BackedInv'
  BY FreshType DEF IInv, BackedInv, Backed, With, EmptyBoard, EditsBoard, SaveRequests, human
<1>4. DecisionsInv'
  BY DEF IInv, DecisionsInv, EditsRequests, SaveRequests, human
<1>5. MatchInv'
  BY DEF IInv, MatchInv, EditsBoard, EditsRequests, SaveRequests, human
<1>6. QED
  BY <1>1, <1>2, <1>3, <1>4, <1>5 DEF IInv

\* A command on the board starts: its copy has the statuses of the file, and
\* at least what is accepted there.
LEMMA EditBoardStep ==
  ASSUME IInv, NEW file \in Boards, StartEdit("board", file),
         \A o \in Opp : /\ file[o].status = board[o].status
                        /\ board[o].accepted => file[o].accepted
  PROVE  IInv'
<1>1. /\ edit = <<>> /\ edits < MaxEdits /\ edits' = edits + 1
      /\ edit' = <<"board", file>>
      /\ UNCHANGED <<board, requests, published, ledger, paused, pc, work, asks, during, torn,
                     crashes>>
  BY DEF StartEdit, loop
<1>2. edit'[1] = "board" /\ edit'[2] = file /\ EditsBoard' /\ ~EditsRequests'
  BY <1>1 DEF EditsBoard, EditsRequests
<1>3. edits' \in 0..MaxEdits
  <2>1. MaxEdits \in Nat /\ edits \in 0..MaxEdits
    BY LoopAssumption DEF IInv, TypeOK
  <2>2. QED
    BY <1>1, <2>1
<1>4. TypeOK'
  BY <1>1, <1>2, <1>3, TypeFacts, TypeFrame DEF IInv, TypeOK
<1>5. HeldInv'
  <2>1. Held(file)
    BY TypeFacts, HeldSmaller
  <2>2. QED
    BY <1>1, <1>2, <2>1 DEF IInv, HeldInv
<1>6. BackedInv'
  <2>1. Backed(file, published)
    BY TypeFacts DEF Backed, With
  <2>2. QED
    BY <1>1, <1>2, <2>1 DEF IInv, BackedInv
<1>7. DecisionsInv'
  BY <1>1, <1>2 DEF IInv, DecisionsInv
<1>8. MatchInv'
  BY <1>1, <1>2 DEF IInv, MatchInv
<1>9. QED
  BY <1>4, <1>5, <1>6, <1>7, <1>8 DEF IInv

LEMMA AcceptStep == ASSUME IInv, NEW o \in Opp, Accept(o) PROVE IInv'
<1> DEFINE state == IF board[o].state \in {"DISCOVERED", "RESEARCHING", "SCORED"}
                    THEN "SELECTED" ELSE board[o].state
           file == [board EXCEPT ![o].accepted = TRUE, ![o].state =
                       IF @ \in {"DISCOVERED", "RESEARCHING", "SCORED"} THEN "SELECTED" ELSE @]
<1>1. StartEdit("board", file)
  BY DEF Accept
<1>2. board \in Boards
  BY TypeFacts
<1>3. "SELECTED" \in OppState
  BY DEF OppState, Forward
<1>4. ASSUME NEW p \in Opp
      PROVE  /\ file[p] \in OppRecord /\ file[p].status = board[p].status
             /\ board[p].accepted => file[p].accepted
  <2>1. board[p] \in OppRecord
    BY <1>2, BoardRecord
  <2>2. file[p] = IF p = o THEN [board[o] EXCEPT !.accepted = TRUE, !.state = state]
                  ELSE board[p]
    BY <1>2, <2>1 DEF Boards, OppRecord
  <2>3. ASSUME NEW r \in OppRecord, NEW to \in OppState \cup {"none"}
        PROVE  /\ [r EXCEPT !.accepted = TRUE, !.state = to] \in OppRecord
               /\ [r EXCEPT !.accepted = TRUE, !.state = to].status = r.status
               /\ [r EXCEPT !.accepted = TRUE, !.state = to].accepted
    BY DEF OppRecord
  <2>4. state \in OppState \cup {"none"}
    BY <1>2, <1>3, BoardRecord DEF OppRecord
  <2> HIDE DEF file, state
  <2>5. CASE p = o
    <3>1. board[o] \in OppRecord
      BY <2>1, <2>5
    <3>2. /\ [board[o] EXCEPT !.accepted = TRUE, !.state = state] \in OppRecord
          /\ [board[o] EXCEPT !.accepted = TRUE, !.state = state].status = board[o].status
          /\ [board[o] EXCEPT !.accepted = TRUE, !.state = state].accepted
      BY <2>3, <2>4, <3>1
    <3>3. file[p] = [board[o] EXCEPT !.accepted = TRUE, !.state = state]
      BY <2>2, <2>5
    <3>4. QED
      BY <2>5, <3>2, <3>3
  <2>6. CASE p # o
    BY <2>1, <2>2, <2>6
  <2>7. QED
    BY <2>5, <2>6
<1>5. file \in Boards
  BY <1>2, <1>4 DEF Boards
<1> HIDE DEF file
<1>6. QED
  BY <1>1, <1>4, <1>5, EditBoardStep

LEMMA AbandonStep == ASSUME IInv, NEW o \in Opp, Abandon(o) PROVE IInv'
<1> DEFINE file == [board EXCEPT ![o].state = "ABANDONED"]
<1>1. StartEdit("board", file)
  BY DEF Abandon
<1>2. board \in Boards
  BY TypeFacts
<1>3. ASSUME NEW p \in Opp
      PROVE  /\ file[p] \in OppRecord /\ file[p].status = board[p].status
             /\ board[p].accepted => file[p].accepted
  <2>1. board[p] \in OppRecord
    BY <1>2, BoardRecord
  <2>2. file[p] = IF p = o THEN [board[o] EXCEPT !.state = "ABANDONED"] ELSE board[p]
    BY <1>2, <2>1 DEF Boards, OppRecord
  <2>3. "ABANDONED" \in OppState
    BY DEF OppState
  <2>4. ASSUME NEW r \in OppRecord
        PROVE  /\ [r EXCEPT !.state = "ABANDONED"] \in OppRecord
               /\ [r EXCEPT !.state = "ABANDONED"].status = r.status
               /\ [r EXCEPT !.state = "ABANDONED"].accepted = r.accepted
    BY <2>3 DEF OppRecord
  <2> HIDE DEF file
  <2>5. QED
    BY <2>1, <2>2, <2>4
<1>4. file \in Boards
  BY <1>2, <1>3 DEF Boards
<1> HIDE DEF file
<1>5. QED
  BY <1>1, <1>3, <1>4, EditBoardStep

LEMMA DecideStep ==
  ASSUME IInv, NEW q \in Request, NEW d \in {"approved", "denied"}, Decide(q, d)
  PROVE  IInv'
<1> DEFINE file == [requests EXCEPT ![q] = d]
<1>1. requests[q] # "none" /\ StartEdit("requests", file)
  BY DEF Decide
<1>2. /\ edit = <<>> /\ edits < MaxEdits /\ edits' = edits + 1
      /\ edit' = <<"requests", file>>
      /\ UNCHANGED <<board, requests, published, ledger, paused, pc, work, asks, during, torn,
                     crashes>>
  BY <1>1 DEF StartEdit, loop
<1>3. /\ file \in Files
      /\ \A p \in Request : file[p] = IF p = q THEN d ELSE requests[p]
  BY TypeFacts DEF Files, RequestStatus
<1> HIDE DEF file
<1>4. edit'[1] = "requests" /\ edit'[2] = file /\ ~EditsBoard' /\ EditsRequests'
  BY <1>2 DEF EditsBoard, EditsRequests
<1>5. edits' \in 0..MaxEdits
  <2>1. MaxEdits \in Nat /\ edits \in 0..MaxEdits
    BY LoopAssumption DEF IInv, TypeOK
  <2>2. QED
    BY <1>2, <2>1
<1>6. TypeOK'
  BY <1>2, <1>3, <1>4, <1>5, TypeFacts, TypeFrame DEF IInv, TypeOK
<1>7. HeldInv' /\ BackedInv'
  BY <1>2, <1>4 DEF IInv, HeldInv, BackedInv
<1>8. Decided(d)
  BY DEF Decided
<1>9. DecisionsInv'
  BY <1>2, <1>3, <1>4, <1>8 DEF IInv, DecisionsInv
<1>10. MatchInv'
  BY <1>1, <1>2, <1>3, <1>4, <1>8 DEF IInv, MatchInv
<1>11. QED
  BY <1>6, <1>7, <1>9, <1>10 DEF IInv

LEMMA SaveEditStep == ASSUME IInv, SaveEdit PROVE IInv'
<1>1. /\ edit # <<>> /\ edit' = <<>> /\ torn' = (torn \/ pc # "idle")
      /\ ~EditsBoard' /\ ~EditsRequests'
      /\ UNCHANGED <<published, ledger, paused, pc, work, asks, edits, crashes>>
  BY DEF SaveEdit, loop, EditsBoard, EditsRequests
<1>2. CASE edit[1] = "board"
  <2>1. EditsBoard /\ board' = edit[2] /\ UNCHANGED <<requests, during>>
    BY <1>1, <1>2 DEF SaveEdit, EditsBoard
  <2>2. TypeOK'
    BY <1>1, <2>1, TypeFacts, TypeFrame DEF IInv, TypeOK
  <2>3. HeldInv' /\ BackedInv'
    BY <1>1, <2>1 DEF IInv, HeldInv, BackedInv
  <2>4. DecisionsInv'
    BY <1>1, <2>1 DEF IInv, DecisionsInv
  <2>5. MatchInv'
    <3>1. ASSUME ~torn, pc = "idle" PROVE Matches(edit[2], requests)
      <4>1. Matches(board, requests) /\ \A o \in Opp : edit[2][o].status = board[o].status
        BY <2>1, <3>1 DEF IInv, MatchInv
      <4>2. QED
        BY <4>1 DEF Matches
    <3>2. QED
      BY <1>1, <2>1, <3>1 DEF IInv, TypeOK, MatchInv
  <2>6. QED
    BY <2>2, <2>3, <2>4, <2>5 DEF IInv
<1>3. CASE edit[1] # "board"
  <2>1. /\ EditsRequests /\ requests' = edit[2] /\ board' = board
        /\ during' = IF pc = "idle" THEN during
                     ELSE during \cup {q \in Request : edit[2][q] # requests[q]}
    BY <1>1, <1>3 DEF SaveEdit, EditsRequests
  <2>2. during' \subseteq Request
    BY <2>1 DEF IInv, TypeOK
  <2>3. TypeOK'
    BY <1>1, <2>1, <2>2, TypeFacts, TypeFrame DEF IInv, TypeOK
  <2>4. HeldInv' /\ BackedInv'
    BY <1>1, <2>1 DEF IInv, HeldInv, BackedInv
  <2>5. DecisionsInv'
    <3>1. \A q \in Request : Decided(requests[q]) => Decided(edit[2][q])
      BY <2>1 DEF IInv, DecisionsInv
    <3>2. ASSUME pc # "idle", NEW q \in Request
          PROVE  /\ Decided(asks[q]) => Decided(requests'[q])
                 /\ Decided(requests'[q]) /\ q \notin during' => Decided(asks[q])
      <4>1. /\ Decided(asks[q]) => Decided(requests[q])
            /\ Decided(requests[q]) /\ q \notin during => Decided(asks[q])
        BY <3>2 DEF IInv, DecisionsInv
      <4>2. q \notin during' => edit[2][q] = requests[q] /\ q \notin during
        BY <2>1, <3>2
      <4>3. QED
        BY <2>1, <3>1, <4>1, <4>2
    <3>3. QED
      BY <1>1, <3>2 DEF DecisionsInv
  <2>6. MatchInv'
    <3>1. ASSUME ~torn, pc = "idle" PROVE Matches(board, edit[2])
      <4>1. /\ Matches(board, requests)
            /\ \A q \in Request : edit[2][q] # requests[q] =>
                  requests[q] # "none" /\ Decided(edit[2][q])
        BY <2>1, <3>1 DEF IInv, MatchInv
      <4>2. \A q \in Request :
               /\ requests[q] # "none" => edit[2][q] # "none"
               /\ requests[q] # "pending" => edit[2][q] # "pending"
        BY <4>1 DEF Decided
      <4>3. QED
        BY <4>1, <4>2 DEF Matches, Request
    <3>2. QED
      BY <1>1, <2>1, <3>1 DEF IInv, TypeOK, MatchInv
  <2>7. QED
    BY <2>3, <2>4, <2>5, <2>6 DEF IInv
<1>4. QED
  BY <1>2, <1>3

LEMMA WorkerStep == ASSUME IInv, NEW o \in Opp, WorkerMoves(o) PROVE IInv'
<1>1. /\ pc = "idle" /\ board' = [board EXCEPT ![o].state = "PLANNING"]
      /\ UNCHANGED <<requests, published, ledger, paused, pc, work, asks, edit, edits, during,
                     torn, crashes>>
  BY DEF WorkerMoves, loop, human
<1>2. board \in Boards /\ "PLANNING" \in OppState
  BY TypeFacts DEF OppState, Forward
<1>3. ASSUME NEW p \in Opp
      PROVE  /\ board'[p] \in OppRecord /\ board'[p].status = board[p].status
             /\ board'[p].accepted = board[p].accepted
  <2>1. board[p] \in OppRecord
    BY <1>2, BoardRecord
  <2>2. board'[p] = IF p = o THEN [board[o] EXCEPT !.state = "PLANNING"] ELSE board[p]
    BY <1>1, <1>2, <2>1 DEF Boards, OppRecord
  <2>3. ASSUME NEW r \in OppRecord
        PROVE  /\ [r EXCEPT !.state = "PLANNING"] \in OppRecord
               /\ [r EXCEPT !.state = "PLANNING"].status = r.status
               /\ [r EXCEPT !.state = "PLANNING"].accepted = r.accepted
    BY <1>2 DEF OppRecord
  <2>4. QED
    BY <2>1, <2>2, <2>3
<1>4. board' \in Boards
  BY <1>1, <1>2, <1>3 DEF Boards
<1>5. EditsBoard' = EditsBoard /\ EditsRequests' = EditsRequests
  BY <1>1 DEF EditsBoard, EditsRequests
<1>6. TypeOK'
  BY <1>1, <1>4, TypeFacts, TypeFrame DEF IInv, TypeOK, EditsBoard, EditsRequests
<1>7. HeldInv'
  <2>1. Held(board')
    BY <1>3, TypeFacts, HeldSmaller
  <2>2. QED
    BY <1>1, <1>5, <2>1 DEF IInv, HeldInv
<1>8. BackedInv'
  <2>1. Backed(board', published)
    BY <1>3, TypeFacts DEF Backed, With
  <2>2. QED
    BY <1>1, <1>5, <2>1 DEF IInv, BackedInv
<1>9. DecisionsInv'
  BY <1>1, <1>5 DEF IInv, DecisionsInv
<1>10. MatchInv'
  <2>1. ASSUME ~torn PROVE Matches(board', requests)
    BY <1>1, <1>3, <2>1 DEF IInv, MatchInv, Matches
  <2>2. ASSUME ~torn, EditsBoard PROVE \A p \in Opp : edit[2][p].status = board'[p].status
    BY <1>1, <1>3, <2>2 DEF IInv, MatchInv
  <2>3. QED
    BY <1>1, <1>5, <2>1, <2>2 DEF IInv, MatchInv
<1>11. QED
  BY <1>6, <1>7, <1>8, <1>9, <1>10 DEF IInv

\* Pausing, resuming and booking touch neither file nor copy.
LEMMA AsideStep ==
  ASSUME IInv, Pause \/ Resume \/ \E o \in Opp : Book(o)
  PROVE  IInv'
<1>1. UNCHANGED <<board, requests, published, pc, work, asks, edit, during, torn, crashes>>
  BY DEF Pause, Resume, Book, loop, human
<1>2. edits' \in 0..MaxEdits
  <2>1. MaxEdits \in Nat /\ edits \in 0..MaxEdits
    BY LoopAssumption DEF IInv, TypeOK
  <2>2. edits' = edits \/ (edits' = edits + 1 /\ edits < MaxEdits)
    BY DEF Pause, Resume, Book, human
  <2>3. QED
    BY <2>1, <2>2
<1>3. ledger' \subseteq Opp /\ paused' \in BOOLEAN
  <2>1. published \subseteq Opp /\ ledger \subseteq Opp /\ paused \in BOOLEAN
    BY DEF IInv, TypeOK
  <2>2. QED
    BY <2>1 DEF Pause, Resume, Book
<1>4. TypeOK'
  BY <1>1, <1>2, <1>3 DEF IInv, TypeOK
<1>5. HeldInv' /\ BackedInv' /\ DecisionsInv'
  BY <1>1 DEF IInv, HeldInv, BackedInv, DecisionsInv, EditsBoard, EditsRequests
<1>6. MatchInv'
  BY <1>1 DEF IInv, MatchInv, EditsBoard, EditsRequests
<1>7. QED
  BY <1>4, <1>5, <1>6 DEF IInv

LEMMA CrashStep == ASSUME IInv, Crash PROVE IInv'
<1>1. /\ pc' = "idle" /\ work' = EmptyBoard /\ asks' = NoRequests /\ edit' = <<>>
      /\ torn' = (torn \/ pc = "save requests")
      /\ UNCHANGED <<board, requests, published, ledger, paused, edits, during>>
      /\ ~EditsBoard' /\ ~EditsRequests'
  BY DEF Crash, EditsBoard, EditsRequests
<1>2. crashes' \in 0..MaxCrashes
  <2>1. MaxCrashes \in Nat /\ crashes \in 0..MaxCrashes
    BY LoopAssumption DEF IInv, TypeOK
  <2>2. crashes < MaxCrashes /\ crashes' = crashes + 1
    BY DEF Crash
  <2>3. QED
    BY <2>1, <2>2
<1>3. TypeOK'
  BY <1>1, <1>2, EmptyType, TypeFacts, TypeFrame DEF IInv, TypeOK
<1>4. HeldInv' /\ BackedInv'
  BY <1>1, EmptyHeld, FreshType, TypeFacts DEF HeldInv, BackedInv, Backed, With, EmptyBoard
<1>5. DecisionsInv'
  BY <1>1 DEF DecisionsInv
<1>6. MatchInv'
  BY <1>1 DEF IInv, MatchInv
<1>7. QED
  BY <1>3, <1>4, <1>5, <1>6 DEF IInv

LEMMA InitIInv == ASSUME Init PROVE IInv
<1>1. TypeOK
  <2>1. 0 \in 0..MaxEdits /\ 0 \in 0..MaxCrashes
    BY LoopAssumption
  <2>2. QED
    BY <2>1, EmptyType DEF Init, TypeOK, Boards, Files
<1>2. HeldInv /\ BackedInv
  BY EmptyHeld, FreshType DEF Init, HeldInv, BackedInv, Backed, With, EmptyBoard, EditsBoard
<1>3. DecisionsInv
  BY DEF Init, DecisionsInv, EditsRequests
<1>4. MatchInv
  <2>1. Matches(EmptyBoard, NoRequests)
    BY FreshType DEF Matches, EmptyBoard, NoRequests, Request
  <2>2. QED
    BY <2>1 DEF Init, MatchInv, EditsBoard, EditsRequests
<1>5. QED
  BY <1>1, <1>2, <1>3, <1>4 DEF IInv

LEMMA StepIInv == ASSUME IInv, [Next]_vars PROVE IInv'
<1>1. CASE BeginCycle
  BY <1>1, BeginStep
<1>2. CASE CycleStep
  BY <1>2, DiscoverStep, SelectStep, BuildStep, ReviewStep, SaveBoardStep, SaveRequestsStep
  DEF CycleStep
<1>3. CASE \E o \in Opp : Accept(o) \/ Abandon(o) \/ WorkerMoves(o) \/ Book(o)
  BY <1>3, AcceptStep, AbandonStep, WorkerStep, AsideStep
<1>4. CASE \E q \in Request, d \in {"approved", "denied"} : Decide(q, d)
  BY <1>4, DecideStep
<1>5. CASE SaveEdit
  BY <1>5, SaveEditStep
<1>6. CASE Pause \/ Resume
  BY <1>6, AsideStep
<1>7. CASE Crash
  BY <1>7, CrashStep
<1>8. CASE UNCHANGED vars
  <2>1. UNCHANGED <<board, requests, published, ledger, paused, pc, work, asks, edit, edits,
                    during, torn, crashes>>
    BY <1>8 DEF vars, loop, human
  <2>2. TypeOK'
    BY <2>1 DEF IInv, TypeOK
  <2>3. HeldInv' /\ BackedInv' /\ DecisionsInv'
    BY <2>1 DEF IInv, HeldInv, BackedInv, DecisionsInv, EditsBoard, EditsRequests
  <2>4. MatchInv'
    BY <2>1 DEF IInv, MatchInv, EditsBoard, EditsRequests
  <2>5. QED
    BY <2>2, <2>3, <2>4 DEF IInv
<1>9. QED
  BY <1>1, <1>2, <1>3, <1>4, <1>5, <1>6, <1>7, <1>8 DEF Next

-----------------------------------------------------------------------------
(***************************************************************************)
(* The theorems.                                                           *)
(***************************************************************************)
\* The inductive invariant: what every version of the two files and of their
\* copies satisfies, whoever saves it and whenever.
THEOREM LoopStaysSound == Spec => []IInv
<1>1. Init => IInv
  BY InitIInv
<1>2. IInv /\ [Next]_vars => IInv'
  BY StepIInv
<1>3. QED
  BY <1>1, <1>2, PTL DEF Spec

\* The files and the copies are well formed for every set of opportunities.
THEOREM TypeCorrect == Spec => []TypeOK
<1>1. IInv => TypeOK
  BY DEF IInv
<1>2. QED
  BY <1>1, LoopStaysSound, PTL

\* select_experiments never fills more than the capacity, on the board and on
\* the copy, for every capacity, also zero.
THEOREM CapacityHeldAlways == Spec => []CapacityHeld
<1>1. IInv => CapacityHeld
  BY DEF IInv, HeldInv, Held, Running, CapacityHeld
<1>2. QED
  BY <1>1, LoopStaysSound, PTL

\* What is in testing has its page on disk, after any crash or lost update.
THEOREM TestedIsPublishedAlways == Spec => []TestedIsPublished
<1>1. IInv => TestedIsPublished
  BY DEF IInv, BackedInv, Backed, TestedIsPublished
<1>2. QED
  BY <1>1, LoopStaysSound, PTL

\* Between cycles the requests match the board, unless a cycle died between its
\* saves or crossed a command.
THEOREM RequestsMatchBoardAlways == Spec => []RequestsMatchBoard
<1>1. IInv => RequestsMatchBoard
  BY DEF IInv, MatchInv, Matches, RequestsMatchBoard
<1>2. QED
  BY <1>1, LoopStaysSound, PTL

(* One step of DecisionsStick. *)
KeepsDecisions ==
    \A q \in Request : Decided(requests[q]) /\ ~Decided(requests'[q]) => q \in during

LEMMA DecisionsStep == ASSUME IInv, Next PROVE KeepsDecisions
<1>1. CASE SaveRequests
  <2>1. pc # "idle" /\ requests' = asks
    BY <1>1 DEF SaveRequests
  <2>2. QED
    BY <2>1 DEF IInv, DecisionsInv, KeepsDecisions
<1>2. CASE SaveEdit
  <2>1. CASE edit[1] = "board"
    BY <1>2, <2>1 DEF SaveEdit, KeepsDecisions
  <2>2. CASE edit[1] # "board"
    <3>1. EditsRequests /\ requests' = edit[2]
      BY <1>2, <2>2 DEF SaveEdit, EditsRequests
    <3>2. QED
      BY <3>1 DEF IInv, DecisionsInv, KeepsDecisions
  <2>3. QED
    BY <2>1, <2>2
<1>3. CASE requests' = requests
  BY <1>3 DEF KeepsDecisions
<1>4. SaveRequests \/ SaveEdit \/ requests' = requests
  BY DEF Next, CycleStep, BeginCycle, Discover, ScoreAndSelect, BuildAndPublish,
         MeasureAndReview, SaveBoard, Accept, Abandon, WorkerMoves, Book, Decide, StartEdit,
         Pause, Resume, Crash
<1>5. QED
  BY <1>1, <1>2, <1>3, <1>4

\* A decision of a human is lost only by a cycle that had loaded the requests
\* before it was made.
THEOREM DecisionsStickAlways == Spec => DecisionsStick
<1>1. IInv /\ [Next]_vars => [KeepsDecisions]_vars
  BY DecisionsStep
<1>2. Spec => [][KeepsDecisions]_vars
  BY <1>1, LoopStaysSound, PTL DEF Spec
<1>3. QED
  BY <1>2 DEF DecisionsStick, KeepsDecisions
=============================================================================
