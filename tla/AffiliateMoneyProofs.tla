------------------------ MODULE AffiliateMoneyProofs ------------------------
(***************************************************************************)
(* Theorems about module AffiliateMoney, for every set of links,           *)
(* commissions, references and server threads and any number of deaths:    *)
(* clicks and conversions are accounted for row by row, a commission is    *)
(* booked once, and what a reversal leaves in the ledger is reported.      *)
(***************************************************************************)
EXTENDS AffiliateMoney, FiniteSetTheorems, TLAPS

(* What the variables hold.  Clicks are not bounded here: the bound on     *)
(* them is the model's, not the program's.                                 *)
Store == [Link -> Row]
Busy == [at : {"log", "count"}, link : Link, copy : Store]
Settling == [at : {"settle"}, commission : Commission, ref : Ref]
Plain == [at : {"load link", "win"}, commission : Commission]
Reversing == [at : {"loss", "answer"}, commission : Commission, booked : BOOLEAN]
Saving == [at : {"save link"}, commission : Commission, copy : Store]
Counts == [wins : Nat, losses : Nat]

ShapeInv ==
    /\ links \in Store /\ log \in [Link -> Nat]
    /\ lock \in Handler \cup {None}
    /\ thread \in [Handler -> {Waiting} \cup Busy]
    /\ status \in [Commission -> {None, "PENDING", "CONFIRMED", "PAID", "REVERSED"}]
    /\ refOf \in [Commission -> Ref \cup {None}]
    /\ ledger \in [Ref -> Commission \cup {None}]
    /\ learnt \in [Commission -> Counts]
    /\ command \in {Nothing} \cup Settling \cup Plain \cup Saving \cup Reversing
    /\ minting \in {NoMint} \cup (Link \X Store)

(* The commission command: what it still has to do decides what is settled *)
(* and booked.                                                             *)
BooksOf(c) ==
    /\ status[c] \in {None, "PENDING"} => refOf[c] = None /\ learnt[c].wins = 0
    /\ status[c] \in Settled => refOf[c] # None
    /\ refOf[c] # None => ledger[refOf[c]] # None
    /\ status[c] # "REVERSED" => learnt[c].losses = 0
    /\ Doing(c, {"settle"}) => status[c] = "PENDING" /\ ledger[command.ref] # None
    /\ Doing(c, {"load link", "save link", "win"}) =>
          status[c] = "CONFIRMED" /\ learnt[c].wins = 0
    /\ c \in skipped => refOf[c] # None
    /\ Doing(c, {"load link", "save link"}) => c \notin skipped
    /\ Doing(c, {"loss"}) => learnt[c].losses = 0
    /\ Doing(c, {"loss", "answer"}) =>
          status[c] = "REVERSED" /\ (refOf[c] # None => command.booked = TRUE)
                                /\ (command.booked = TRUE => refOf[c] # None)
    /\ learnt[c].wins <= 1 /\ learnt[c].losses <= 1
    /\ ~DiedAt(c, {"settle"}) =>
          \A r \in RefsOf(c) : r = IF Doing(c, {"settle"}) THEN command.ref ELSE refOf[c]
    /\ c \in told => refOf[c] # None
    /\ /\ status[c] = "REVERSED" /\ refOf[c] # None
       /\ ~Doing(c, {"loss", "answer"}) /\ ~DiedAt(c, {"loss", "answer"})
       => c \in told

BooksInv == \A c \in Commission : BooksOf(c)

(* The link file: what holds of every version of it, the copies included.  *)
(* Counted leaves out the conversion the command has yet to save.          *)
Counted(l) == {c \in Reached(l) : ~Doing(c, {"load link", "save link"})}

CountedOf == [l \in Link |-> Cardinality(Counted(l))]

Fits(store, rows, counted) ==
    \A l \in Link : /\ ~store[l].made => store[l] = NoRow
                    /\ store[l].clicks <= rows[l]
                    /\ store[l].conversions <= counted[l]

VersionsInv ==
    /\ Fits(links, log, CountedOf)
    /\ \A t \in Handler : thread[t] # Waiting =>
          /\ lock = t
          /\ Fits(thread[t].copy, log, CountedOf) /\ thread[t].copy[thread[t].link].made
          /\ thread[t].at = "count" => thread[t].copy[thread[t].link].clicks < log[thread[t].link]
          /\ \A l \in Link \ lost : thread[t].copy[l].clicks = links[l].clicks
    /\ minting # NoMint => Fits(minting[2], log, CountedOf) /\ ~minting[2][minting[1]].made
    /\ command.at = "save link" =>
          Fits(command.copy, log, CountedOf) /\ command.copy[LinkOf[command.commission]].made

(* Rows nobody has set back are exact, up to the click and the conversion  *)
(* under way.                                                              *)
Complete(l) == \A c \in Confirmed(l) : ~DiedAt(c, {"load link", "save link"})
Due(l) == \E t \in Handler : thread[t].at = "count" /\ thread[t].link = l

ExactInv ==
    \A l \in Link \ lost :
       /\ links[l].clicks + (IF Due(l) THEN 1 ELSE 0) = log[l]
       /\ Complete(l) => links[l].conversions = Cardinality(Counted(l))

IInv == ShapeInv /\ BooksInv /\ VersionsInv /\ ExactInv

-----------------------------------------------------------------------------
(***************************************************************************)
(* Rows, stores and what is counted.                                       *)
(***************************************************************************)
LEMMA RowFacts ==
  /\ NoRow \in Row /\ NoRow.made = FALSE /\ NoRow.clicks = 0 /\ NoRow.conversions = 0
  /\ NewRow \in Row /\ NewRow.made = TRUE /\ NewRow.clicks = 0 /\ NewRow.conversions = 0
<1>1. NoRow \in Row /\ NoRow.made = FALSE /\ NoRow.clicks = 0 /\ NoRow.conversions = 0
  BY DEF NoRow, Row
<1>2. QED
  BY <1>1 DEF NewRow, Row

LEMMA StoreRow ==
  ASSUME NEW store \in Store, NEW l \in Link
  PROVE  /\ store[l] \in Row
         /\ store[l].made \in BOOLEAN /\ store[l].clicks \in Nat /\ store[l].conversions \in Nat
BY DEF Store, Row

\* One more click, one more conversion, and a row that is minted.
LEMMA PlusClick ==
  ASSUME NEW store \in Store, NEW l \in Link
  PROVE  LET after == [store EXCEPT ![l].clicks = @ + 1]
         IN /\ after \in Store
            /\ \A k \in Link : k # l => after[k] = store[k]
            /\ after[l].made = store[l].made /\ after[l].clicks = store[l].clicks + 1
            /\ after[l].conversions = store[l].conversions
BY StoreRow DEF Store, Row

LEMMA PlusConversion ==
  ASSUME NEW store \in Store, NEW l \in Link
  PROVE  LET after == [store EXCEPT ![l].conversions = @ + 1]
         IN /\ after \in Store
            /\ \A k \in Link : k # l => after[k] = store[k]
            /\ after[l].made = store[l].made /\ after[l].clicks = store[l].clicks
            /\ after[l].conversions = store[l].conversions + 1
BY StoreRow DEF Store, Row

LEMMA Reflexive == \A n \in Nat : n <= n
OBVIOUS

LEMMA CommissionsFinite ==
  \A S \in SUBSET Commission : IsFiniteSet(S) /\ Cardinality(S) \in Nat
BY MoneyAssumption, FS_Subset, FS_CardinalityType

LEMMA FitsGrows ==
  ASSUME NEW store \in Store, NEW rows \in [Link -> Nat], NEW more \in [Link -> Nat],
         NEW counted \in [Link -> Nat], NEW above \in [Link -> Nat],
         Fits(store, rows, counted),
         \A l \in Link : rows[l] <= more[l] /\ counted[l] <= above[l]
  PROVE  Fits(store, more, above)
<1>1. ASSUME NEW l \in Link
      PROVE  store[l].clicks <= more[l] /\ store[l].conversions <= above[l]
  <2>1. store[l].clicks \in Nat /\ store[l].conversions \in Nat
    BY StoreRow
  <2>2. rows[l] \in Nat /\ more[l] \in Nat /\ counted[l] \in Nat /\ above[l] \in Nat
    OBVIOUS
  <2>3. /\ store[l].clicks <= rows[l] /\ store[l].conversions <= counted[l]
        /\ rows[l] <= more[l] /\ counted[l] <= above[l]
    BY DEF Fits
  <2>4. QED
    BY <2>1, <2>2, <2>3
<1>2. QED
  BY <1>1 DEF Fits

LEMMA CountedFacts ==
  /\ \A l \in Link : Counted(l) \in SUBSET Commission /\ Cardinality(Counted(l)) \in Nat
  /\ CountedOf \in [Link -> Nat]
  /\ \A l \in Link : CountedOf[l] = Cardinality(Counted(l))
<1>1. \A l \in Link : Counted(l) \in SUBSET Commission
  BY DEF Counted, Reached, Confirmed
<1>2. QED
  BY <1>1, CommissionsFinite DEF CountedOf

\* A thread is waiting, or it has a link, a copy and the lock.
LEMMA ThreadFacts ==
  ASSUME IInv, NEW t \in Handler
  PROVE  /\ thread[t].at = "idle" <=> thread[t] = Waiting
         /\ thread[t] # Waiting =>
               /\ thread[t] \in Busy /\ thread[t].at \in {"log", "count"} /\ lock = t
               /\ thread[t].link \in Link /\ thread[t].copy \in Store
<1>1. thread[t] \in {Waiting} \cup Busy /\ Waiting.at = "idle"
  BY DEF IInv, ShapeInv, Waiting
<1>2. ASSUME NEW s \in Busy
      PROVE  s.at \in {"log", "count"} /\ s.at # "idle" /\ s.link \in Link /\ s.copy \in Store
  BY DEF Busy
<1>3. thread[t] # Waiting => lock = t
  BY DEF IInv, VersionsInv
<1>4. QED
  BY <1>1, <1>2, <1>3

LEMMA CommandFacts ==
  ASSUME ShapeInv
  PROVE  /\ Idle <=> command = Nothing
         /\ ~Idle => command.at \in CommandStep /\ command.commission \in Commission
         /\ command.at = "settle" => command.ref \in Ref
         /\ command.at = "save link" => command.copy \in Store
         /\ command.at \in {"loss", "answer"} =>
               command \in Reversing /\ command.booked \in BOOLEAN
<1>1. /\ command \in {Nothing} \cup Settling \cup Plain \cup Saving \cup Reversing
      /\ Nothing.at = "idle"
  BY DEF ShapeInv, Nothing
<1>2. ASSUME NEW s \in Settling
      PROVE  s.at = "settle" /\ s.commission \in Commission /\ s.ref \in Ref
  BY DEF Settling
<1>3. ASSUME NEW s \in Plain
      PROVE  s.at \in {"load link", "win"} /\ s.commission \in Commission
  BY DEF Plain
<1>4. ASSUME NEW s \in Saving
      PROVE  s.at = "save link" /\ s.commission \in Commission /\ s.copy \in Store
  BY DEF Saving
<1>5. ASSUME NEW s \in Reversing
      PROVE  s.at \in {"loss", "answer"} /\ s.commission \in Commission /\ s.booked \in BOOLEAN
  BY DEF Reversing
<1>6. QED
  BY <1>1, <1>2, <1>3, <1>4, <1>5 DEF Idle, CommandStep

\* What is counted and booked depends on the books and the command alone.
LEMMA BooksFrame ==
  ASSUME UNCHANGED <<books, command, skipped, cut>>
  PROVE  /\ BooksInv => BooksInv'
         /\ CountedOf' = CountedOf
         /\ \A l \in Link : Reached(l)' = Reached(l) /\ Counted(l)' = Counted(l)
         /\ \A l \in Link : Complete(l)' = Complete(l)
<1>1. UNCHANGED <<status, refOf, ledger, learnt, told, command, skipped, cut>>
  BY DEF books
<1>2. BooksInv => BooksInv'
  <2>1. ASSUME NEW c \in Commission, BooksOf(c) PROVE BooksOf(c)'
    <3>1. /\ DiedAt(c, {"settle"})' = DiedAt(c, {"settle"}) /\ RefsOf(c)' = RefsOf(c)
          /\ DiedAt(c, {"loss", "answer"})' = DiedAt(c, {"loss", "answer"})
      BY <1>1 DEF DiedAt, RefsOf
    <3>2. /\ Doing(c, {"settle"})' = Doing(c, {"settle"})
          /\ Doing(c, {"loss"})' = Doing(c, {"loss"})
          /\ Doing(c, {"loss", "answer"})' = Doing(c, {"loss", "answer"})
          /\ Doing(c, {"load link", "save link", "win"})' =
                Doing(c, {"load link", "save link", "win"})
          /\ Doing(c, {"load link", "save link"})' = Doing(c, {"load link", "save link"})
      BY <1>1 DEF Doing
    <3>3. QED
      BY <1>1, <2>1, <3>1, <3>2 DEF BooksOf
  <2>2. QED
    BY <2>1 DEF BooksInv
<1>3. \A l \in Link : Reached(l)' = Reached(l) /\ Counted(l)' = Counted(l)
  BY <1>1 DEF Reached, Confirmed, Counted, Doing
<1>4. CountedOf' = CountedOf
  BY <1>3 DEF CountedOf
<1>5. \A l \in Link : Complete(l)' = Complete(l)
  BY <1>1 DEF Complete, Confirmed, DiedAt
<1>6. QED
  BY <1>2, <1>3, <1>4, <1>5

-----------------------------------------------------------------------------
(***************************************************************************)
(* The redirect server.                                                    *)
(***************************************************************************)
LEMMA ClickStep ==
  ASSUME IInv, NEW t \in Handler, NEW l \in Link, Click(t, l)
  PROVE  IInv'
<1>1. /\ lock = None /\ links[l].made /\ lock' = t
      /\ thread' = [thread EXCEPT ![t] = [at |-> "log", link |-> l, copy |-> links]]
      /\ UNCHANGED <<links, log, books, command, minting, lost, skipped, cut, crashes>>
  BY DEF Click, Free, file
<1>2. links \in Store /\ [at |-> "log", link |-> l, copy |-> links] \in Busy
  BY DEF IInv, ShapeInv, Busy
<1>3. \A u \in Handler : thread[u] = Waiting /\ thread[u].at = "idle"
  BY <1>1, ThreadFacts, MoneyAssumption
<1>4. \A u \in Handler :
         thread'[u] = IF u = t THEN [at |-> "log", link |-> l, copy |-> links] ELSE Waiting
  BY <1>1, <1>3 DEF IInv, ShapeInv
<1>5. ShapeInv'
  BY <1>1, <1>2 DEF IInv, ShapeInv, books
<1>6. /\ BooksInv' /\ CountedOf' = CountedOf
      /\ \A k \in Link : Reached(k)' = Reached(k) /\ Counted(k)' = Counted(k)
      /\ \A k \in Link : Complete(k)' = Complete(k)
  BY <1>1, BooksFrame DEF IInv
<1>7. VersionsInv'
  <2>1. ASSUME NEW u \in Handler, thread'[u] # Waiting
        PROVE  /\ lock' = u /\ thread'[u].copy = links /\ thread'[u].link = l
               /\ thread'[u].at = "log"
    BY <1>1, <1>4, <2>1
  <2>2. Fits(links, log, CountedOf)
    BY DEF IInv, VersionsInv
  <2>3. /\ minting' # NoMint => Fits(minting'[2], log', CountedOf')
                                /\ ~minting'[2][minting'[1]].made
        /\ command'.at = "save link" =>
              Fits(command'.copy, log', CountedOf')
              /\ command'.copy[LinkOf[command'.commission]].made
    BY <1>1, <1>6 DEF IInv, VersionsInv
  <2>4. QED
    BY <1>1, <1>6, <2>1, <2>2, <2>3 DEF VersionsInv
<1>8. ExactInv'
  <2>1. \A k \in Link : ~Due(k) /\ ~Due(k)'
    BY <1>3, <1>4 DEF Due, Waiting
  <2>2. status' = status
    BY <1>1 DEF books
  <2>3. QED
    BY <1>1, <1>6, <2>1, <2>2 DEF IInv, ExactInv
<1>9. QED
  BY <1>5, <1>6, <1>7, <1>8 DEF IInv

LEMMA LogClickStep == ASSUME IInv, NEW t \in Handler, LogClick(t) PROVE IInv'
<1> DEFINE l == thread[t].link
<1>1. /\ thread[t].at = "log"
      /\ log' = [log EXCEPT ![l] = @ + 1]
      /\ thread' = [thread EXCEPT ![t].at = "count"]
      /\ UNCHANGED <<links, lock, books, command, minting, lost, skipped, cut, crashes>>
  BY DEF LogClick
<1>2. /\ thread[t] # Waiting /\ thread[t] \in Busy /\ lock = t
      /\ l \in Link /\ thread[t].copy \in Store
  BY <1>1, ThreadFacts
<1>3. \A u \in Handler : u # t => thread[u] = Waiting /\ thread[u].at = "idle"
  BY <1>2, ThreadFacts
<1>4. ASSUME NEW s \in Busy
      PROVE  /\ [s EXCEPT !.at = "count"] \in Busy /\ [s EXCEPT !.at = "count"].at = "count"
             /\ [s EXCEPT !.at = "count"].link = s.link
             /\ [s EXCEPT !.at = "count"].copy = s.copy
             /\ [s EXCEPT !.at = "count"] # Waiting
  BY DEF Busy, Waiting
<1>5. /\ thread'[t] \in Busy /\ thread'[t].at = "count" /\ thread'[t].link = l
      /\ thread'[t].copy = thread[t].copy
      /\ thread' \in [Handler -> {Waiting} \cup Busy]
      /\ \A u \in Handler : u # t => thread'[u] = Waiting
  BY <1>1, <1>2, <1>3, <1>4 DEF IInv, ShapeInv
<1>6. /\ log \in [Link -> Nat] /\ log' \in [Link -> Nat]
      /\ \A k \in Link : log'[k] = IF k = l THEN log[k] + 1 ELSE log[k]
  BY <1>1, <1>2 DEF IInv, ShapeInv
<1>7. ShapeInv'
  BY <1>1, <1>5, <1>6 DEF IInv, ShapeInv, books
<1>8. /\ BooksInv' /\ CountedOf' = CountedOf
      /\ \A k \in Link : Reached(k)' = Reached(k) /\ Counted(k)' = Counted(k)
      /\ \A k \in Link : Complete(k)' = Complete(k)
  BY <1>1, BooksFrame DEF IInv
<1> HIDE DEF l
<1>9. \A store \in Store : Fits(store, log, CountedOf) => Fits(store, log', CountedOf')
  <2>1. \A k \in Link : log[k] <= log'[k]
    BY <1>6
  <2>2. QED
    BY <1>6, <1>8, <2>1, CountedFacts, FitsGrows
<1>10. VersionsInv'
  <2>1. /\ Fits(links, log, CountedOf) /\ links \in Store
        /\ Fits(thread[t].copy, log, CountedOf) /\ thread[t].copy[l].made
        /\ \A k \in Link \ lost : thread[t].copy[k].clicks = links[k].clicks
    BY <1>2 DEF IInv, ShapeInv, VersionsInv, l
  <2>2. thread[t].copy[l].clicks < log'[l]
    <3>1. thread[t].copy[l].clicks <= log[l]
      BY <1>2, <2>1 DEF Fits
    <3>2. QED
      BY <1>2, <1>6, <3>1, StoreRow
  <2>3. /\ minting' # NoMint => Fits(minting'[2], log', CountedOf')
                                /\ ~minting'[2][minting'[1]].made
        /\ command'.at = "save link" =>
              Fits(command'.copy, log', CountedOf')
              /\ command'.copy[LinkOf[command'.commission]].made
    <3>1. minting # NoMint => minting[2] \in Store
      BY DEF IInv, ShapeInv
    <3>2. command.at = "save link" => command.copy \in Store
      BY CommandFacts DEF IInv
    <3>3. QED
      BY <1>1, <1>9, <3>1, <3>2 DEF IInv, VersionsInv
  <2>4. \A u \in Handler : thread'[u] # Waiting => u = t
    BY <1>5
  <2>5. QED
    BY <1>1, <1>2, <1>5, <1>9, <2>1, <2>2, <2>3, <2>4 DEF VersionsInv
<1>11. ExactInv'
  <2>1. \A k \in Link : ~Due(k) /\ (Due(k)' <=> k = l)
    BY <1>1, <1>3, <1>5 DEF Due, Waiting
  <2>2. status' = status
    BY <1>1 DEF books
  <2>3. \A k \in Link : links[k].clicks \in Nat /\ log[k] \in Nat
    BY <1>6, StoreRow DEF IInv, ShapeInv
  <2>4. ASSUME NEW k \in Link \ lost
        PROVE  links'[k].clicks + (IF Due(k)' THEN 1 ELSE 0) = log'[k]
    <3>1. links[k].clicks + (IF Due(k) THEN 1 ELSE 0) = log[k]
      BY DEF IInv, ExactInv
    <3>2. links[k].clicks = log[k]
      BY <2>1, <2>3, <3>1
    <3>3. QED
      BY <1>1, <1>6, <2>1, <3>2
  <2>5. QED
    BY <1>1, <1>8, <2>2, <2>4 DEF IInv, ExactInv
<1>12. QED
  BY <1>7, <1>8, <1>10, <1>11 DEF IInv

LEMMA Uncounted ==
  ASSUME NEW r \in Row, NEW s \in Row, [r EXCEPT !.clicks = 0] = [s EXCEPT !.clicks = 0]
  PROVE  r.made = s.made /\ r.conversions = s.conversions
<1>1. /\ [r EXCEPT !.clicks = 0].made = r.made
      /\ [r EXCEPT !.clicks = 0].conversions = r.conversions
      /\ [s EXCEPT !.clicks = 0].made = s.made
      /\ [s EXCEPT !.clicks = 0].conversions = s.conversions
  BY DEF Row
<1>2. QED
  BY <1>1

LEMMA CountClickStep == ASSUME IInv, NEW t \in Handler, CountClick(t) PROVE IInv'
<1> DEFINE l == thread[t].link
           copy == thread[t].copy
<1>1. /\ thread[t].at = "count"
      /\ links' = [copy EXCEPT ![l].clicks = @ + 1]
      /\ lost' = lost \cup {k \in Link : [links[k] EXCEPT !.clicks = 0] #
                                         [copy[k] EXCEPT !.clicks = 0]}
      /\ lock' = None
      /\ thread' = [thread EXCEPT ![t] = Waiting]
      /\ UNCHANGED <<log, books, command, minting, skipped, cut, crashes>>
  BY DEF CountClick
<1>2. thread[t] # Waiting /\ lock = t /\ l \in Link /\ copy \in Store
  BY <1>1, ThreadFacts
<1>3. \A u \in Handler : u # t => thread[u] = Waiting /\ thread[u].at = "idle"
  BY <1>2, ThreadFacts
<1>4. \A u \in Handler : thread'[u] = Waiting
  BY <1>1, <1>3 DEF IInv, ShapeInv
<1>5. /\ Fits(copy, log, CountedOf) /\ copy[l].made /\ copy[l].clicks < log[l]
      /\ \A k \in Link \ lost : copy[k].clicks = links[k].clicks
  BY <1>1, <1>2 DEF IInv, VersionsInv
<1>6. links \in Store /\ log \in [Link -> Nat]
  BY DEF IInv, ShapeInv
<1> HIDE DEF l, copy
<1>7. /\ links' \in Store
      /\ \A k \in Link : k # l => links'[k] = copy[k]
      /\ links'[l].made = copy[l].made /\ links'[l].clicks = copy[l].clicks + 1
      /\ links'[l].conversions = copy[l].conversions
  BY <1>1, <1>2, PlusClick
<1>8. /\ BooksInv' /\ CountedOf' = CountedOf
      /\ \A k \in Link : Reached(k)' = Reached(k) /\ Counted(k)' = Counted(k)
      /\ \A k \in Link : Complete(k)' = Complete(k)
  BY <1>1, BooksFrame DEF IInv
<1>9. ShapeInv'
  BY <1>1, <1>7 DEF IInv, ShapeInv, books
<1>10. VersionsInv'
  <2>1. Fits(links', log, CountedOf)
    <3>1. copy[l].clicks + 1 <= log[l]
      BY <1>2, <1>5, <1>6, StoreRow
    <3>2. QED
      BY <1>2, <1>5, <1>7, <3>1 DEF Fits
  <2>2. QED
    BY <1>1, <1>4, <1>8, <2>1 DEF IInv, VersionsInv
<1>11. ExactInv'
  <2>1. \A k \in Link : (Due(k) <=> k = l) /\ ~Due(k)'
    BY <1>1, <1>2, <1>3, <1>4 DEF Due, Waiting, l
  <2>2. status' = status
    BY <1>1 DEF books
  <2>3. ASSUME NEW k \in Link \ lost'
        PROVE  /\ links'[k].made = links[k].made
               /\ links'[k].conversions = links[k].conversions
               /\ links'[k].clicks = IF k = l THEN links[k].clicks + 1 ELSE links[k].clicks
    <3>1. k \in Link \ lost /\ [links[k] EXCEPT !.clicks = 0] = [copy[k] EXCEPT !.clicks = 0]
      BY <1>1
    <3>2. links[k] \in Row /\ copy[k] \in Row
      BY <1>2, <1>6, StoreRow
    <3>3. links[k].made = copy[k].made /\ links[k].conversions = copy[k].conversions
      BY <3>1, <3>2, Uncounted
    <3>4. QED
      BY <1>5, <1>7, <3>1, <3>3
  <2>4. ASSUME NEW k \in Link \ lost'
        PROVE  links'[k].clicks + (IF Due(k)' THEN 1 ELSE 0) = log'[k]
    <3>1. links[k].clicks + (IF Due(k) THEN 1 ELSE 0) = log[k] /\ links[k].clicks \in Nat
      BY <1>1, <1>6, StoreRow DEF IInv, ExactInv
    <3>2. QED
      BY <1>1, <2>1, <2>3, <3>1
  <2>5. ASSUME NEW k \in Link \ lost'
        PROVE  Complete(k)' => links'[k].conversions = Cardinality(Counted(k)')
    BY <1>1, <1>8, <2>2, <2>3 DEF IInv, ExactInv
  <2>6. QED
    BY <2>4, <2>5 DEF ExactInv
<1>12. QED
  BY <1>8, <1>9, <1>10, <1>11 DEF IInv

\* The threads die: their copies are gone.
LEMMA ServerDiesStep == ASSUME IInv, ServerDies PROVE IInv'
<1>1. /\ lost' = lost \cup {thread[t].link : t \in {u \in Handler : thread[u].at = "count"}}
      /\ lock' = None /\ thread' = [t \in Handler |-> Waiting]
      /\ UNCHANGED <<links, log, books, command, minting, skipped, cut>>
  BY DEF ServerDies, file
<1>2. /\ BooksInv' /\ CountedOf' = CountedOf
      /\ \A k \in Link : Reached(k)' = Reached(k) /\ Counted(k)' = Counted(k)
      /\ \A k \in Link : Complete(k)' = Complete(k)
  BY <1>1, BooksFrame DEF IInv
<1>3. ShapeInv'
  BY <1>1 DEF IInv, ShapeInv, books
<1>4. VersionsInv'
  BY <1>1, <1>2 DEF IInv, VersionsInv
<1>5. ExactInv'
  <2>1. \A k \in Link \ lost' : k \in Link \ lost /\ ~Due(k) /\ ~Due(k)'
    BY <1>1 DEF Due, Waiting
  <2>2. status' = status
    BY <1>1 DEF books
  <2>3. ASSUME NEW k \in Link \ lost'
        PROVE  links'[k].clicks + (IF Due(k)' THEN 1 ELSE 0) = log'[k]
    BY <1>1, <2>1 DEF IInv, ExactInv
  <2>4. ASSUME NEW k \in Link \ lost'
        PROVE  Complete(k)' => links'[k].conversions = Cardinality(Counted(k)')
    BY <1>1, <1>2, <2>1, <2>2 DEF IInv, ExactInv
  <2>5. QED
    BY <2>3, <2>4 DEF ExactInv
<1>6. QED
  BY <1>2, <1>3, <1>4, <1>5 DEF IInv

-----------------------------------------------------------------------------
(***************************************************************************)
(* The chain mints a link.                                                 *)
(***************************************************************************)
LEMMA LoadForMintStep == ASSUME IInv, NEW l \in Link, LoadForMint(l) PROVE IInv'
<1>1. /\ ~links[l].made /\ minting' = <<l, links>>
      /\ UNCHANGED <<links, log, lock, thread, books, command, lost, skipped, cut>>
  BY DEF LoadForMint, file, server
<1>2. /\ BooksInv' /\ CountedOf' = CountedOf
      /\ \A k \in Link : Reached(k)' = Reached(k) /\ Counted(k)' = Counted(k)
      /\ \A k \in Link : Complete(k)' = Complete(k)
  BY <1>1, BooksFrame DEF IInv
<1>3. ShapeInv'
  BY <1>1 DEF IInv, ShapeInv, books
<1>4. VersionsInv'
  BY <1>1, <1>2 DEF IInv, VersionsInv
<1>5. ExactInv'
  <2>1. \A k \in Link : Due(k)' = Due(k)
    BY <1>1 DEF Due
  <2>2. QED
    BY <1>1, <1>2, <2>1 DEF IInv, ExactInv, books
<1>6. QED
  BY <1>2, <1>3, <1>4, <1>5 DEF IInv

LEMMA SaveMintStep == ASSUME IInv, SaveMint PROVE IInv'
<1> DEFINE l == minting[1]
           copy == minting[2]
<1>1. /\ minting # NoMint
      /\ links' = [copy EXCEPT ![l] = NewRow]
      /\ lost' = lost \cup {k \in Link : links[k] # copy[k]}
      /\ minting' = NoMint
      /\ UNCHANGED <<log, lock, thread, books, command, skipped, cut>>
  BY DEF SaveMint, SetBack, server
<1>2. l \in Link /\ copy \in Store /\ links \in Store /\ log \in [Link -> Nat]
  BY <1>1 DEF IInv, ShapeInv
<1>3. Fits(copy, log, CountedOf) /\ ~copy[l].made
  BY <1>1 DEF IInv, VersionsInv
<1> HIDE DEF l, copy
<1>4. /\ links' \in Store
      /\ \A k \in Link : links'[k] = IF k = l THEN NewRow ELSE copy[k]
  BY <1>1, <1>2, RowFacts DEF Store
<1>5. /\ BooksInv' /\ CountedOf' = CountedOf
      /\ \A k \in Link : Reached(k)' = Reached(k) /\ Counted(k)' = Counted(k)
      /\ \A k \in Link : Complete(k)' = Complete(k)
  BY <1>1, BooksFrame DEF IInv
<1>6. ShapeInv'
  BY <1>1, <1>4 DEF IInv, ShapeInv, books
<1>7. ASSUME NEW k \in Link \ lost'
      PROVE  /\ k \in Link \ lost
             /\ links'[k].clicks = links[k].clicks
             /\ links'[k].conversions = links[k].conversions
             /\ links[k].made => links'[k].made
  <2>1. k \in Link \ lost /\ links[k] = copy[k]
    BY <1>1
  <2>2. CASE k = l
    <3>1. copy[l] = NoRow
      BY <1>2, <1>3 DEF Fits
    <3>2. QED
      BY <1>4, <2>1, <2>2, <3>1, RowFacts
  <2>3. CASE k # l
    BY <1>4, <2>1, <2>3
  <2>4. QED
    BY <2>2, <2>3
<1>8. VersionsInv'
  <2>1. Fits(links', log, CountedOf)
    <3>1. log[l] \in Nat /\ CountedOf[l] \in Nat
      BY <1>2, CountedFacts
    <3>2. NewRow.clicks <= log[l] /\ NewRow.conversions <= CountedOf[l]
      BY <3>1, RowFacts
    <3>3. QED
      BY <1>2, <1>3, <1>4, <3>2, RowFacts DEF Fits
  <2>2. ASSUME NEW t \in Handler, thread'[t] # Waiting
        PROVE  /\ lock' = t
               /\ Fits(thread'[t].copy, log, CountedOf) /\ thread'[t].copy[thread'[t].link].made
               /\ thread'[t].at = "count" =>
                     thread'[t].copy[thread'[t].link].clicks < log[thread'[t].link]
               /\ \A k \in Link \ lost : thread'[t].copy[k].clicks = links[k].clicks
    BY <1>1, <2>2 DEF IInv, VersionsInv
  <2>3. \A t \in Handler : thread'[t] # Waiting =>
           \A k \in Link \ lost' : thread'[t].copy[k].clicks = links'[k].clicks
    BY <1>7, <2>2
  <2>4. command.at = "save link" =>
           /\ Fits(command.copy, log, CountedOf)
           /\ command.copy[LinkOf[command.commission]].made
    BY DEF IInv, VersionsInv
  <2>5. QED
    BY <1>1, <1>5, <2>1, <2>2, <2>3, <2>4 DEF VersionsInv
<1>9. ExactInv'
  <2>1. \A k \in Link : Due(k)' = Due(k)
    BY <1>1 DEF Due
  <2>2. status' = status
    BY <1>1 DEF books
  <2>3. ASSUME NEW k \in Link \ lost'
        PROVE  links'[k].clicks + (IF Due(k)' THEN 1 ELSE 0) = log'[k]
    BY <1>1, <1>7, <2>1 DEF IInv, ExactInv
  <2>4. ASSUME NEW k \in Link \ lost'
        PROVE  Complete(k)' => links'[k].conversions = Cardinality(Counted(k)')
    BY <1>5, <1>7, <2>2 DEF IInv, ExactInv
  <2>5. QED
    BY <2>3, <2>4 DEF ExactInv
<1>10. QED
  BY <1>5, <1>6, <1>8, <1>9 DEF IInv

-----------------------------------------------------------------------------
(***************************************************************************)
(* The commission command.  Steps that leave the link file alone ask for   *)
(* three things: the books, what is counted, and the shape.                *)
(***************************************************************************)
LEMMA FitsMore ==
  ASSUME IInv, log' = log, \A l \in Link : Counted(l) \subseteq Counted(l)'
  PROVE  \A store \in Store : Fits(store, log, CountedOf) => Fits(store, log', CountedOf')
<1>1. \A l \in Link : Counted(l)' \in SUBSET Commission
  BY DEF Counted, Reached, Confirmed
<1>2. /\ CountedOf' \in [Link -> Nat]
      /\ \A l \in Link : CountedOf'[l] = Cardinality(Counted(l)')
  BY <1>1, CommissionsFinite DEF CountedOf
<1>3. \A l \in Link : Cardinality(Counted(l)) <= Cardinality(Counted(l)')
  BY <1>1, CommissionsFinite, FS_Subset
<1>4. \A l \in Link : CountedOf[l] <= CountedOf'[l]
  BY <1>2, <1>3, CountedFacts
<1>5. log \in [Link -> Nat]
  BY DEF IInv, ShapeInv
<1>6. \A l \in Link : log[l] <= log[l]
  BY <1>5, Reflexive
<1>7. QED
  BY <1>2, <1>4, <1>5, <1>6, CountedFacts, FitsGrows

LEMMA VersionsFrame ==
  ASSUME IInv, UNCHANGED <<links, log, lock, thread, minting, lost>>,
         \A l \in Link : Counted(l) \subseteq Counted(l)',
         command'.at = "save link" =>
            command'.copy = links /\ links[LinkOf[command'.commission]].made
  PROVE  VersionsInv'
<1>1. \A store \in Store : Fits(store, log, CountedOf) => Fits(store, log, CountedOf')
  BY FitsMore
<1>2. Fits(links, log, CountedOf')
  BY <1>1 DEF IInv, ShapeInv, VersionsInv
<1>3. ASSUME NEW t \in Handler, thread[t] # Waiting
      PROVE  /\ lock = t
             /\ Fits(thread[t].copy, log, CountedOf') /\ thread[t].copy[thread[t].link].made
             /\ thread[t].at = "count" =>
                   thread[t].copy[thread[t].link].clicks < log[thread[t].link]
             /\ \A k \in Link \ lost : thread[t].copy[k].clicks = links[k].clicks
  <2>1. thread[t].copy \in Store
    BY <1>3, ThreadFacts
  <2>2. QED
    BY <1>1, <1>3, <2>1 DEF IInv, VersionsInv
<1>4. minting # NoMint => Fits(minting[2], log, CountedOf') /\ ~minting[2][minting[1]].made
  <2>1. minting # NoMint => minting[2] \in Store
    BY DEF IInv, ShapeInv
  <2>2. QED
    BY <1>1, <2>1 DEF IInv, VersionsInv
<1>5. QED
  BY <1>2, <1>3, <1>4 DEF VersionsInv

LEMMA ExactFrame ==
  ASSUME IInv, UNCHANGED <<links, log, thread, lost>>,
         \A l \in Link \ lost : Complete(l)' => Complete(l) /\ Counted(l)' = Counted(l)
  PROVE  ExactInv'
<1>1. \A l \in Link : Due(l)' = Due(l)
  BY DEF Due
<1>2. ASSUME NEW l \in Link \ lost
      PROVE  links'[l].clicks + (IF Due(l)' THEN 1 ELSE 0) = log'[l]
  BY <1>1 DEF IInv, ExactInv
<1>3. ASSUME NEW l \in Link \ lost
      PROVE  Complete(l)' => links'[l].conversions = Cardinality(Counted(l)')
  BY DEF IInv, ExactInv
<1>4. QED
  BY <1>2, <1>3 DEF ExactInv

LEMMA RecordPendingStep == ASSUME IInv, NEW c \in Commission, RecordPending(c) PROVE IInv'
<1>1. /\ Idle /\ status[c] = None
      /\ status' = [status EXCEPT ![c] = "PENDING"]
      /\ UNCHANGED <<links, log, lock, thread, refOf, ledger, learnt, told, command, minting,
                     lost, skipped, cut>>
  BY DEF RecordPending, file, server
<1>2. \A d \in Commission : status'[d] = IF d = c THEN "PENDING" ELSE status[d]
  BY <1>1 DEF IInv, ShapeInv
<1>3. ShapeInv'
  BY <1>1 DEF IInv, ShapeInv
<1>4. BooksInv'
  <2>1. ASSUME NEW d \in Commission PROVE BooksOf(d)'
    <3>1. BooksOf(d) /\ RefsOf(d)' = RefsOf(d)
      BY <1>1 DEF IInv, BooksInv, RefsOf
    <3>2. CASE d = c
      <4>1. status[c] = None /\ status'[c] = "PENDING" /\ None \notin Settled \cup {"REVERSED"}
        BY <1>1, <1>2, MoneyAssumption DEF Settled
      <4>2. /\ command.at = "idle" /\ command' = command
            /\ UNCHANGED <<refOf, ledger, learnt, skipped, cut>>
        BY <1>1 DEF Idle
      <4>3. QED
        BY <1>1, <3>1, <3>2, <4>1, <4>2 DEF BooksOf, Doing, DiedAt, Settled
    <3>3. CASE d # c
      BY <1>1, <1>2, <3>1, <3>3 DEF BooksOf, Doing, Idle, DiedAt, Settled
    <3>4. QED
      BY <3>2, <3>3
  <2>2. QED
    BY <2>1 DEF BooksInv
<1>5. \A l \in Link : Counted(l)' = Counted(l) /\ Complete(l)' = Complete(l)
  BY <1>1 DEF Counted, Complete, Reached, Confirmed, Doing, DiedAt
<1>6. VersionsInv'
  BY <1>1, <1>5, VersionsFrame DEF Idle
<1>7. ExactInv'
  BY <1>1, <1>5, ExactFrame
<1>8. QED
  BY <1>3, <1>4, <1>6, <1>7 DEF IInv

LEMMA ConfirmStep ==
  ASSUME IInv, NEW c \in Commission, NEW r \in Ref, Confirm(c, r)
  PROVE  IInv'
<1>1. /\ command.at = "idle" /\ status[c] = "PENDING"
      /\ ledger' = (IF ledger[r] = None THEN [ledger EXCEPT ![r] = c] ELSE ledger)
      /\ command' = [at |-> "settle", commission |-> c, ref |-> r]
      /\ UNCHANGED <<links, log, lock, thread, status, refOf, learnt, told, minting, lost, skipped, cut>>
  BY DEF Confirm, Idle, Confirmable, Book, file, server
<1>2. command'.at = "settle" /\ command'.commission = c /\ command'.ref = r
  BY <1>1
<1>3. ledger \in [Ref -> Commission \cup {None}] /\ refOf \in [Commission -> Ref \cup {None}]
  BY DEF IInv, ShapeInv
<1>4. /\ ledger' \in [Ref -> Commission \cup {None}]
      /\ \A x \in Ref : ledger'[x] = IF x = r /\ ledger[r] = None THEN c ELSE ledger[x]
  BY <1>1, <1>3
<1>5. ShapeInv'
  <2>1. command' \in Settling
    BY <1>1 DEF Settling
  <2>2. QED
    BY <1>1, <1>4, <2>1 DEF IInv, ShapeInv
<1>6. BooksInv'
  <2>1. ASSUME NEW d \in Commission PROVE BooksOf(d)'
    <3>1. BooksOf(d)
      BY DEF IInv, BooksInv
    <3>2. CASE d = c
      <4>1. /\ refOf[c] = None /\ learnt[c].wins = 0 /\ learnt[c].losses = 0
            /\ c \notin told /\ c \notin skipped
            /\ ~DiedAt(c, {"settle"}) => RefsOf(c) = {}
        <5>1. /\ refOf[c] = None /\ c \notin told /\ c \notin skipped
              /\ learnt[c].wins = 0 /\ learnt[c].losses = 0
          BY <1>1, <3>1, <3>2 DEF BooksOf
        <5>2. ~DiedAt(c, {"settle"}) => \A x \in RefsOf(c) : x = None
          BY <1>1, <3>1, <3>2, <5>1 DEF BooksOf, Doing
        <5>3. QED
          BY <5>1, <5>2, MoneyAssumption DEF RefsOf
      <4>2. ledger'[r] # None
        BY <1>4, MoneyAssumption
      <4>3. /\ DiedAt(c, {"settle"})' = DiedAt(c, {"settle"})
            /\ ~DiedAt(c, {"settle"}) => \A x \in RefsOf(c)' : x = r
        BY <1>1, <1>4, <4>1 DEF DiedAt, RefsOf
      <4>4. /\ Doing(c, {"settle"})' /\ ~Doing(c, {"loss"})' /\ ~Doing(c, {"loss", "answer"})'
            /\ ~Doing(c, {"load link", "save link", "win"})'
            /\ ~Doing(c, {"load link", "save link"})'
        BY <1>2 DEF Doing
      <4>5. /\ status'[c] = "PENDING" /\ refOf'[c] = None /\ c \notin told' /\ c \notin skipped'
            /\ learnt'[c].wins = 0 /\ learnt'[c].losses = 0
        BY <1>1, <4>1
      <4>6. learnt'[c].wins <= 1 /\ learnt'[c].losses <= 1
        BY <4>5
      <4>7. BooksOf(c)'
        BY <1>2, <4>2, <4>3, <4>4, <4>5, <4>6 DEF BooksOf, Settled
      <4>8. QED
        BY <3>2, <4>7
    <3>3. CASE d # c
      <4>1. \A x \in Ref : ledger[x] # None => ledger'[x] # None
        BY <1>4
      <4>2. /\ RefsOf(d)' = RefsOf(d) /\ DiedAt(d, {"settle"})' = DiedAt(d, {"settle"})
            /\ DiedAt(d, {"loss", "answer"})' = DiedAt(d, {"loss", "answer"})
        BY <1>1, <1>4, <3>3, MoneyAssumption DEF RefsOf, DiedAt
      <4>3. /\ ~Doing(d, {"settle"})' /\ ~Doing(d, {"loss"})'
            /\ ~Doing(d, {"loss", "answer"})' /\ ~Doing(d, {"loss", "answer"})
            /\ ~Doing(d, {"load link", "save link", "win"})' /\ ~Doing(d, {"settle"})
            /\ ~Doing(d, {"load link", "save link"})'
        BY <1>1, <1>2, <3>3 DEF Doing
      <4>4. refOf[d] # None => refOf[d] \in Ref
        BY <1>3
      <4>5. QED
        BY <1>1, <3>1, <4>1, <4>2, <4>3, <4>4 DEF BooksOf
    <3>4. QED
      BY <3>2, <3>3
  <2>2. QED
    BY <2>1 DEF BooksInv
<1>7. \A l \in Link : Counted(l)' = Counted(l) /\ Complete(l)' = Complete(l)
  <2>1. \A d \in Commission : ~Doing(d, {"load link", "save link"})
                              /\ ~Doing(d, {"load link", "save link"})'
    BY <1>1, <1>2 DEF Doing
  <2>2. \A l \in Link : Reached(l)' = Reached(l) /\ Reached(l) \subseteq Commission
    BY <1>1 DEF Reached, Confirmed
  <2>3. \A l \in Link : Counted(l) = Reached(l) /\ Counted(l)' = Reached(l)'
    BY <2>1, <2>2 DEF Counted
  <2>4. \A l \in Link : Complete(l)' = Complete(l)
    BY <1>1 DEF Complete, Confirmed, DiedAt
  <2>5. QED
    BY <2>2, <2>3, <2>4
<1>8. VersionsInv'
  BY <1>1, <1>2, <1>7, VersionsFrame
<1>9. ExactInv'
  BY <1>1, <1>7, ExactFrame
<1>10. QED
  BY <1>5, <1>6, <1>8, <1>9 DEF IInv

LEMMA SettleStep == ASSUME IInv, Settle PROVE IInv'
<1>0. PICK c \in Commission, r \in Ref : c = command.commission /\ r = command.ref
  BY CommandFacts DEF IInv, Settle, Idle
<1>1. /\ command.at = "settle"
      /\ status' = [status EXCEPT ![c] = "CONFIRMED"]
      /\ refOf' = [refOf EXCEPT ![c] = r]
      /\ command' = [at |-> "load link", commission |-> c]
      /\ UNCHANGED <<links, log, lock, thread, ledger, learnt, told, minting, lost, skipped, cut>>
  BY <1>0 DEF Settle, file, server
<1>2. Doing(c, {"settle"}) /\ \A d \in Commission : d # c => ~Doing(d, {"settle"})
  BY <1>0, <1>1 DEF Doing
<1>3. command'.at = "load link" /\ command'.commission = c
  BY <1>1
<1>4. /\ status[c] = "PENDING" /\ refOf[c] = None /\ ledger[r] # None
      /\ c \notin skipped
      /\ learnt[c].wins = 0 /\ learnt[c].losses = 0
  BY <1>0, <1>2 DEF IInv, BooksInv, BooksOf
<1>5. /\ \A d \in Commission : status'[d] = IF d = c THEN "CONFIRMED" ELSE status[d]
      /\ \A d \in Commission : refOf'[d] = IF d = c THEN r ELSE refOf[d]
  BY <1>1 DEF IInv, ShapeInv
<1>6. ShapeInv'
  <2>1. command' \in Plain
    BY <1>1 DEF Plain
  <2>2. QED
    BY <1>1, <2>1 DEF IInv, ShapeInv
<1>7. BooksInv'
  <2>1. ASSUME NEW d \in Commission PROVE BooksOf(d)'
    <3>1. BooksOf(d)
      BY DEF IInv, BooksInv
    <3>2. /\ RefsOf(d)' = RefsOf(d) /\ DiedAt(d, {"settle"})' = DiedAt(d, {"settle"})
          /\ DiedAt(d, {"loss", "answer"})' = DiedAt(d, {"loss", "answer"})
      BY <1>1 DEF RefsOf, DiedAt
    <3>3. /\ ~Doing(d, {"settle"})' /\ ~Doing(d, {"loss"})' /\ ~Doing(d, {"loss", "answer"})'
          /\ ~Doing(d, {"loss", "answer"})
      BY <1>1, <1>3 DEF Doing
    <3>4. CASE d = c
      <4>1. ~DiedAt(c, {"settle"}) => \A x \in RefsOf(c) : x = r
        BY <1>0, <1>2, <3>1, <3>4 DEF BooksOf
      <4>2. /\ status'[c] = "CONFIRMED" /\ refOf'[c] = r /\ r # None /\ ledger'[r] # None
            /\ learnt'[c].wins = 0 /\ learnt'[c].losses = 0
        BY <1>1, <1>4, <1>5, MoneyAssumption
      <4>3. status'[c] # None
        BY <4>2, MoneyAssumption
      <4>4. learnt'[c].wins <= 1 /\ learnt'[c].losses <= 1
        BY <4>2
      <4>5. c \notin skipped'
        BY <1>1, <1>4
      <4>6. BooksOf(c)'
        BY <3>2, <3>3, <3>4, <4>1, <4>2, <4>3, <4>4, <4>5 DEF BooksOf
      <4>7. QED
        BY <3>4, <4>6
    <3>5. CASE d # c
      <4>1. /\ ~Doing(d, {"load link", "save link", "win"})'
            /\ ~Doing(d, {"load link", "save link"})'
        BY <1>3, <3>5 DEF Doing
      <4>2. status'[d] = status[d] /\ refOf'[d] = refOf[d] /\ ~Doing(d, {"settle"})
        BY <1>2, <1>5, <3>5
      <4>3. QED
        BY <1>1, <3>1, <3>2, <3>3, <4>1, <4>2 DEF BooksOf
    <3>6. QED
      BY <3>4, <3>5
  <2>2. QED
    BY <2>1 DEF BooksInv
<1>8. \A l \in Link : Counted(l)' = Counted(l) /\ (Complete(l)' => Complete(l))
  <2>1. \A d \in Commission : /\ ~Doing(d, {"load link", "save link"})
                              /\ Doing(d, {"load link", "save link"})' <=> d = c
    BY <1>0, <1>1, <1>3 DEF Doing
  <2>0. \A l \in Link : Confirmed(l)' = Confirmed(l) \cup {d \in {c} : LinkOf[d] = l}
    BY <1>5, MoneyAssumption DEF Confirmed
  <2>2. \A l \in Link : Reached(l)' = Reached(l) \cup {d \in {c} \ skipped : LinkOf[d] = l}
    BY <1>1, <2>0 DEF Reached
  <2>3. \A l \in Link : c \notin Reached(l) /\ Reached(l) \subseteq Commission
    BY <1>4 DEF Reached, Confirmed
  <2>4. \A l \in Link : Counted(l)' = Counted(l)
    BY <2>1, <2>2, <2>3 DEF Counted
  <2>5. \A l \in Link : Complete(l)' => Complete(l)
    BY <1>1, <2>0 DEF Complete, DiedAt
  <2>6. QED
    BY <2>4, <2>5
<1>9. VersionsInv'
  BY <1>1, <1>3, <1>8, VersionsFrame
<1>10. ExactInv'
  BY <1>1, <1>8, ExactFrame
<1>11. QED
  BY <1>6, <1>7, <1>9, <1>10 DEF IInv

\* Steps of the command that write no book.
LEMMA BooksKept ==
  ASSUME IInv, UNCHANGED books,
         \A d \in Commission :
            /\ DiedAt(d, {"settle"}) => DiedAt(d, {"settle"})'
            /\ DiedAt(d, {"loss", "answer"}) => DiedAt(d, {"loss", "answer"})'
            /\ ~Doing(d, {"settle"})' /\ (Doing(d, {"settle"}) => DiedAt(d, {"settle"})')
            /\ Doing(d, {"load link", "save link", "win"})' =>
                  Doing(d, {"load link", "save link", "win"})
            /\ d \in skipped' =>
                  d \in skipped \/ Doing(d, {"load link", "save link", "win"})
            /\ Doing(d, {"load link", "save link"})' =>
                  Doing(d, {"load link", "save link"}) /\ skipped' = skipped
            /\ ~Doing(d, {"loss"})' /\ ~Doing(d, {"loss", "answer"})'
            /\ Doing(d, {"loss", "answer"}) => DiedAt(d, {"loss", "answer"})'
  PROVE  BooksInv'
<1>1. UNCHANGED <<status, refOf, ledger, learnt, told>>
  BY DEF books
<1>2. ASSUME NEW d \in Commission PROVE BooksOf(d)'
  <2>1. BooksOf(d) /\ RefsOf(d)' = RefsOf(d)
    BY <1>1 DEF IInv, BooksInv, RefsOf
  <2>2. QED
    BY <1>1, <2>1 DEF BooksOf, Settled
<1>3. QED
  BY <1>2 DEF BooksInv

LEMMA LoadLinkStep == ASSUME IInv, LoadLink PROVE IInv'
<1>1. PICK c \in Commission : c = command.commission
  BY CommandFacts DEF IInv, LoadLink, Idle
<1>2. /\ command.at = "load link"
      /\ command' = IF links[LinkOf[c]].made
                    THEN [at |-> "save link", commission |-> c, copy |-> links]
                    ELSE [at |-> "win", commission |-> c]
      /\ skipped' = IF links[LinkOf[c]].made THEN skipped ELSE skipped \cup {c}
      /\ UNCHANGED <<links, log, lock, thread, books, minting, lost, cut>>
  BY <1>1 DEF LoadLink, file, server
<1>3. /\ command'.commission = c /\ command'.at \in {"save link", "win"}
      /\ command'.at = "save link" => links[LinkOf[c]].made /\ command'.copy = links
      /\ command'.at = "win" => ~links[LinkOf[c]].made
  BY <1>2
<1>4. ShapeInv'
  <2>1. links \in Store
    BY DEF IInv, ShapeInv
  <2>2. command' \in Plain \cup Saving
    BY <1>2, <2>1 DEF Plain, Saving
  <2>3. QED
    BY <1>2, <2>2 DEF IInv, ShapeInv, books
<1>5. UNCHANGED <<status, refOf, cut>>
  BY <1>2 DEF books
<1>6. BooksInv'
  <2>1. command'.at = "save link" => skipped' = skipped
    BY <1>2, <1>3
  <2>2. ASSUME NEW d \in Commission
        PROVE  d \in skipped' => d \in skipped \/ Doing(d, {"load link", "save link", "win"})
    BY <1>1, <1>2 DEF Doing
  <2>3. QED
    BY <1>1, <1>2, <1>3, <1>5, <2>1, <2>2, BooksKept DEF Doing, DiedAt
<1>7. ASSUME NEW l \in Link
      PROVE  /\ Counted(l)' = Counted(l)
             /\ Complete(l)' = Complete(l)
  <2>1. Confirmed(l)' = Confirmed(l) /\ Confirmed(l) \subseteq Commission
    BY <1>5 DEF Confirmed
  <2>2. Complete(l)' = Complete(l)
    BY <1>5, <2>1 DEF Complete, DiedAt
  <2>3. \A d \in Commission : Doing(d, {"load link", "save link"}) <=> d = c
    BY <1>1, <1>2 DEF Doing
  <2>4. CASE links[LinkOf[c]].made
    <3>1. Reached(l)' = Reached(l) /\ Reached(l) \subseteq Commission
      BY <1>2, <2>1, <2>4 DEF Reached
    <3>2. \A d \in Commission : Doing(d, {"load link", "save link"})' <=> d = c
      BY <1>2, <1>3, <2>4 DEF Doing
    <3>3. QED
      BY <2>2, <2>3, <3>1, <3>2 DEF Counted
  <2>5. CASE ~links[LinkOf[c]].made
    <3>1. Reached(l)' = Reached(l) \ {c} /\ Reached(l) \subseteq Commission
      BY <1>2, <2>1, <2>5 DEF Reached
    <3>2. \A d \in Commission : ~Doing(d, {"load link", "save link"})'
      BY <1>2, <2>5 DEF Doing
    <3>3. QED
      BY <2>2, <2>3, <3>1, <3>2 DEF Counted
  <2>6. QED
    BY <2>4, <2>5
<1>8. VersionsInv'
  BY <1>2, <1>3, <1>7, VersionsFrame
<1>9. ExactInv'
  BY <1>2, <1>5, <1>7, ExactFrame
<1>10. QED
  BY <1>4, <1>6, <1>8, <1>9 DEF IInv

\* The command dies: what it had to count, it does not.
LEMMA CommandDiesStep == ASSUME IInv, CommandDies PROVE IInv'
<1>1. PICK c \in Commission : c = command.commission /\ command.at \in CommandStep
  BY CommandFacts DEF IInv, CommandDies
<1>2. /\ cut' = cut \cup {<<c, command.at>>} /\ command' = Nothing
      /\ UNCHANGED <<links, log, lock, thread, books, minting, lost, skipped>>
  BY <1>1 DEF CommandDies, file, server
<1>3. command'.at = "idle"
  BY <1>2 DEF Nothing
<1>4. ShapeInv'
  BY <1>2 DEF IInv, ShapeInv, books
<1>5. UNCHANGED <<status, refOf, skipped>>
  BY <1>2 DEF books
<1>6. \A steps : \A d \in Commission : ~Doing(d, steps)' \/ "idle" \in steps
  BY <1>3 DEF Doing
<1>7. BooksInv'
  <2>1. \A d \in Commission : DiedAt(d, {"settle"}) => DiedAt(d, {"settle"})'
    BY <1>2 DEF DiedAt
  <2>2. \A d \in Commission : DiedAt(d, {"loss", "answer"}) => DiedAt(d, {"loss", "answer"})'
    BY <1>2 DEF DiedAt
  <2>3. \A d \in Commission : Doing(d, {"settle"}) => DiedAt(d, {"settle"})'
    BY <1>1, <1>2 DEF Doing, DiedAt
  <2>4. \A d \in Commission : Doing(d, {"loss", "answer"}) => DiedAt(d, {"loss", "answer"})'
    BY <1>1, <1>2 DEF Doing, DiedAt
  <2>5. \A d \in Commission : /\ ~Doing(d, {"settle"})' /\ ~Doing(d, {"loss"})'
                              /\ ~Doing(d, {"loss", "answer"})'
                              /\ ~Doing(d, {"load link", "save link", "win"})'
                              /\ ~Doing(d, {"load link", "save link"})'
    BY <1>6
  <2>6. QED
    BY <1>2, <2>1, <2>2, <2>3, <2>4, <2>5, BooksKept
<1>8. ASSUME NEW l \in Link
      PROVE  /\ Counted(l) \subseteq Counted(l)'
             /\ Complete(l)' => Complete(l) /\ Counted(l)' = Counted(l)
  <2>1. /\ Confirmed(l)' = Confirmed(l) /\ Reached(l)' = Reached(l)
        /\ Reached(l) \subseteq Confirmed(l) /\ Confirmed(l) \subseteq Commission
    BY <1>5 DEF Reached, Confirmed
  <2>2. Counted(l)' = Reached(l)
    BY <1>6, <2>1 DEF Counted
  <2>3. Complete(l)' => Complete(l)
    BY <1>2, <2>1 DEF Complete, DiedAt
  <2>4. ASSUME NEW d \in Confirmed(l), Doing(d, {"load link", "save link"})
        PROVE  ~Complete(l)'
    <3>1. <<d, command.at>> \in cut' /\ command.at \in {"load link", "save link"}
      BY <1>1, <1>2, <2>4 DEF Doing
    <3>2. QED
      BY <2>1, <3>1 DEF Complete, DiedAt
  <2>5. QED
    BY <2>1, <2>2, <2>3, <2>4 DEF Counted
<1>9. VersionsInv'
  BY <1>2, <1>3, <1>8, VersionsFrame
<1>10. ExactInv'
  BY <1>2, <1>5, <1>8, ExactFrame
<1>11. QED
  BY <1>4, <1>7, <1>9, <1>10 DEF IInv

\* The copy is saved with one more conversion: the one that was left out.
LEMMA SaveLinkStep == ASSUME IInv, SaveLink PROVE IInv'
<1>1. command.at = "save link"
  BY DEF SaveLink
<1>2. PICK c \in Commission, l \in Link, copy \in Store :
         c = command.commission /\ l = LinkOf[c] /\ copy = command.copy
  BY <1>1, CommandFacts, MoneyAssumption DEF IInv, Idle
<1>3. /\ links' = [copy EXCEPT ![l].conversions = @ + 1]
      /\ lost' = lost \cup {k \in Link : links[k] # copy[k]}
      /\ command' = [at |-> "win", commission |-> c]
      /\ UNCHANGED <<log, lock, thread, books, minting, skipped, cut>>
  BY <1>2 DEF SaveLink, SetBack, server
<1>4. command'.at = "win" /\ command'.commission = c
  BY <1>3
<1>5. UNCHANGED <<status, refOf, skipped, cut>>
  BY <1>3 DEF books
<1>6. Fits(copy, log, CountedOf) /\ copy[l].made
  BY <1>1, <1>2 DEF IInv, VersionsInv
<1>7. /\ links' \in Store
      /\ \A k \in Link : k # l => links'[k] = copy[k]
      /\ links'[l].made = copy[l].made /\ links'[l].clicks = copy[l].clicks
      /\ links'[l].conversions = copy[l].conversions + 1
  BY <1>3, PlusConversion
<1>8. ShapeInv'
  <2>1. command' \in Plain
    BY <1>3 DEF Plain
  <2>2. QED
    BY <1>3, <1>7, <2>1 DEF IInv, ShapeInv, books
<1>9. BooksInv'
  BY <1>1, <1>2, <1>3, <1>4, <1>5, BooksKept DEF Doing, DiedAt
<1>10. /\ \A k \in Link : Complete(k)' = Complete(k)
       /\ \A k \in Link : k # l => Counted(k)' = Counted(k)
       /\ Counted(l)' = Counted(l) \cup {c} /\ c \notin Counted(l)
  <2>1. \A k \in Link : /\ Confirmed(k)' = Confirmed(k) /\ Reached(k)' = Reached(k)
                        /\ Reached(k) \subseteq Commission
                        /\ \A d \in Reached(k) : LinkOf[d] = k
    BY <1>5 DEF Reached, Confirmed
  <2>2. c \in Reached(l)
    <3>1. BooksOf(c) /\ Doing(c, {"load link", "save link", "win"})
      BY <1>1, <1>2 DEF IInv, BooksInv, Doing
    <3>2. status[c] \in Settled
      BY <3>1 DEF BooksOf, Settled
    <3>3. refOf[c] # None
      BY <3>1, <3>2 DEF BooksOf
    <3>4. c \notin skipped
      BY <1>1, <1>2, <3>1 DEF BooksOf, Doing
    <3>5. QED
      BY <1>2, <3>3, <3>4 DEF Reached, Confirmed
  <2>3. \A d \in Commission : /\ Doing(d, {"load link", "save link"}) <=> d = c
                              /\ ~Doing(d, {"load link", "save link"})'
    BY <1>1, <1>2, <1>4 DEF Doing
  <2>4. \A k \in Link : Counted(k) = Reached(k) \ {c} /\ Counted(k)' = Reached(k)
    BY <2>1, <2>3 DEF Counted
  <2>5. \A k \in Link : Complete(k)' = Complete(k)
    BY <1>5, <2>1 DEF Complete, DiedAt
  <2>6. QED
    BY <1>2, <2>1, <2>2, <2>4, <2>5
<1>11. /\ \A k \in Link : Counted(k) \subseteq Counted(k)'
       /\ \A k \in Link : k # l => Cardinality(Counted(k)') = Cardinality(Counted(k))
       /\ Cardinality(Counted(l)') = Cardinality(Counted(l)) + 1
       /\ \A k \in Link : CountedOf'[k] = Cardinality(Counted(k)')
  <2>1. IsFiniteSet(Counted(l))
    BY CountedFacts, CommissionsFinite
  <2>2. Cardinality(Counted(l)') = Cardinality(Counted(l)) + 1
    BY <1>10, <2>1, FS_AddElement
  <2>3. QED
    BY <1>10, <2>2 DEF CountedOf
<1>12. \A store \in Store : Fits(store, log, CountedOf) => Fits(store, log', CountedOf')
  BY <1>3, <1>11, FitsMore
<1>13. ASSUME NEW k \in Link \ lost'
       PROVE  /\ k \in Link \ lost /\ links'[k].clicks = links[k].clicks
              /\ links'[k].made = links[k].made
              /\ links'[k].conversions = IF k = l THEN links[k].conversions + 1
                                         ELSE links[k].conversions
  <2>1. k \in Link \ lost /\ links[k] = copy[k]
    BY <1>3
  <2>2. QED
    BY <1>7, <2>1
<1>14. VersionsInv'
  <2>1. Fits(links', log, CountedOf')
    <3>1. Fits(copy, log, CountedOf')
      BY <1>3, <1>6, <1>12
    <3>2. copy[l].conversions + 1 <= CountedOf'[l]
      <4>1. copy[l].conversions <= Cardinality(Counted(l))
        BY <1>6, CountedFacts DEF Fits
      <4>2. copy[l].conversions \in Nat /\ Cardinality(Counted(l)) \in Nat
        BY StoreRow, CountedFacts
      <4>3. QED
        BY <1>11, <4>1, <4>2
    <3>3. QED
      BY <1>6, <1>7, <3>1, <3>2 DEF Fits
  <2>2. ASSUME NEW t \in Handler, thread[t] # Waiting
        PROVE  /\ lock = t
               /\ Fits(thread[t].copy, log, CountedOf') /\ thread[t].copy[thread[t].link].made
               /\ thread[t].at = "count" =>
                     thread[t].copy[thread[t].link].clicks < log[thread[t].link]
               /\ \A k \in Link \ lost' : thread[t].copy[k].clicks = links'[k].clicks
    <3>1. thread[t].copy \in Store
      BY <2>2, ThreadFacts
    <3>2. \A k \in Link \ lost : thread[t].copy[k].clicks = links[k].clicks
      BY <2>2 DEF IInv, VersionsInv
    <3>3. QED
      BY <1>3, <1>12, <1>13, <2>2, <3>1, <3>2 DEF IInv, VersionsInv
  <2>3. minting # NoMint => Fits(minting[2], log, CountedOf') /\ ~minting[2][minting[1]].made
    <3>1. minting # NoMint => minting[2] \in Store
      BY DEF IInv, ShapeInv
    <3>2. QED
      BY <1>3, <1>12, <3>1 DEF IInv, VersionsInv
  <2>4. QED
    BY <1>3, <1>4, <2>1, <2>2, <2>3 DEF VersionsInv
<1>15. ExactInv'
  <2>1. \A k \in Link : Due(k)' = Due(k)
    BY <1>3 DEF Due
  <2>2. ASSUME NEW k \in Link \ lost'
        PROVE  links'[k].clicks + (IF Due(k)' THEN 1 ELSE 0) = log'[k]
    BY <1>3, <1>13, <2>1 DEF IInv, ExactInv
  <2>3. ASSUME NEW k \in Link \ lost'
        PROVE  Complete(k)' => links'[k].conversions = Cardinality(Counted(k)')
    <3>1. Complete(k) => links[k].conversions = Cardinality(Counted(k))
      BY <1>13 DEF IInv, ExactInv
    <3>2. QED
      BY <1>10, <1>11, <1>13, <3>1
  <2>4. QED
    BY <2>2, <2>3 DEF ExactInv
<1>16. QED
  BY <1>8, <1>9, <1>14, <1>15 DEF IInv

\* Steps that neither confirm nor stand before a conversion.
LEMMA CountedKept ==
  ASSUME UNCHANGED <<refOf, skipped, cut>>,
         command.at \notin {"load link", "save link"},
         command'.at \notin {"load link", "save link"}
  PROVE  \A l \in Link : Counted(l)' = Counted(l) /\ Complete(l)' = Complete(l)
<1>1. \A l \in Link : Confirmed(l)' = Confirmed(l) /\ Reached(l)' = Reached(l)
  BY DEF Reached, Confirmed
<1>2. \A l \in Link : Counted(l)' = Reached(l)' /\ Counted(l) = Reached(l)
  BY DEF Counted, Doing
<1>3. \A l \in Link : Complete(l)' = Complete(l)
  BY <1>1 DEF Complete, DiedAt
<1>4. QED
  BY <1>1, <1>2, <1>3

LEMMA LearnStep == ASSUME IInv, Learn PROVE IInv'
<1>1. PICK c \in Commission : c = command.commission /\ command.at \in {"win", "loss"}
  BY CommandFacts DEF IInv, Learn, Idle
<1>2. /\ learnt' = (IF command.at = "win" THEN [learnt EXCEPT ![c].wins = @ + 1]
                    ELSE [learnt EXCEPT ![c].losses = @ + 1])
      /\ command' = (IF command.at = "win" THEN Nothing ELSE [command EXCEPT !.at = "answer"])
      /\ UNCHANGED <<links, log, lock, thread, status, refOf, ledger, told, minting, lost, skipped, cut>>
  BY <1>1 DEF Learn, file, server
<1>3. /\ command.at = "win" => command'.at = "idle" /\ command' = Nothing
      /\ command.at = "loss" => /\ command' \in Reversing /\ command'.at = "answer"
                                /\ command'.commission = c /\ command'.booked = command.booked
  <2>1. command.at = "loss" => command \in Reversing
    BY CommandFacts DEF IInv
  <2>2. ASSUME NEW s \in Reversing
        PROVE  /\ [s EXCEPT !.at = "answer"] \in Reversing
               /\ [s EXCEPT !.at = "answer"].at = "answer"
               /\ [s EXCEPT !.at = "answer"].commission = s.commission
               /\ [s EXCEPT !.at = "answer"].booked = s.booked
    BY DEF Reversing
  <2>3. QED
    BY <1>1, <1>2, <2>1, <2>2 DEF Nothing
<1>4. \A d \in Commission : learnt[d] \in Counts
  BY DEF IInv, ShapeInv
<1>5. ASSUME NEW r \in Counts
      PROVE  /\ [r EXCEPT !.wins = @ + 1] \in Counts
             /\ [r EXCEPT !.wins = @ + 1].wins = r.wins + 1
             /\ [r EXCEPT !.wins = @ + 1].losses = r.losses
             /\ [r EXCEPT !.losses = @ + 1] \in Counts
             /\ [r EXCEPT !.losses = @ + 1].wins = r.wins
             /\ [r EXCEPT !.losses = @ + 1].losses = r.losses + 1
  BY DEF Counts
<1>6. /\ learnt' \in [Commission -> Counts]
      /\ \A d \in Commission : d # c => learnt'[d] = learnt[d]
      /\ command.at = "win" => /\ learnt'[c].wins = learnt[c].wins + 1
                               /\ learnt'[c].losses = learnt[c].losses
      /\ command.at = "loss" => /\ learnt'[c].wins = learnt[c].wins
                                /\ learnt'[c].losses = learnt[c].losses + 1
  <2>1. learnt \in [Commission -> Counts]
    BY DEF IInv, ShapeInv
  <2>2. CASE command.at = "win"
    <3>1. learnt' = [learnt EXCEPT ![c] = [learnt[c] EXCEPT !.wins = @ + 1]]
      BY <1>2, <2>2
    <3>2. QED
      BY <1>4, <1>5, <2>1, <2>2, <3>1
  <2>3. CASE command.at = "loss"
    <3>1. learnt' = [learnt EXCEPT ![c] = [learnt[c] EXCEPT !.losses = @ + 1]]
      BY <1>2, <2>3
    <3>2. QED
      BY <1>4, <1>5, <2>1, <2>3, <3>1
  <2>4. QED
    BY <1>1, <2>2, <2>3
<1>7. ShapeInv'
  <2>1. command' \in {Nothing} \cup Reversing
    BY <1>1, <1>3
  <2>2. QED
    BY <1>2, <1>6, <2>1 DEF IInv, ShapeInv
<1>8. BooksInv'
  <2>1. ASSUME NEW d \in Commission PROVE BooksOf(d)'
    <3>1. /\ BooksOf(d) /\ RefsOf(d)' = RefsOf(d)
          /\ DiedAt(d, {"settle"})' = DiedAt(d, {"settle"})
          /\ DiedAt(d, {"loss", "answer"})' = DiedAt(d, {"loss", "answer"})
      BY <1>2 DEF IInv, BooksInv, RefsOf, DiedAt
    <3>2. /\ ~Doing(d, {"settle"})' /\ ~Doing(d, {"loss"})'
          /\ ~Doing(d, {"load link", "save link", "win"})' /\ ~Doing(d, {"settle"})
          /\ ~Doing(d, {"load link", "save link"})'
          /\ Doing(d, {"loss", "answer"})' =>
                Doing(d, {"loss", "answer"}) /\ command'.booked = command.booked
          /\ Doing(d, {"loss", "answer"}) => Doing(d, {"loss", "answer"})'
      BY <1>1, <1>3 DEF Doing
    <3>3. /\ status[d] \in {None, "PENDING"} => learnt'[d].wins = 0
          /\ status[d] # "REVERSED" => learnt'[d].losses = 0
          /\ learnt'[d].wins <= 1 /\ learnt'[d].losses <= 1
      <4>1. /\ status[d] \in {None, "PENDING"} => learnt[d].wins = 0
            /\ status[d] # "REVERSED" => learnt[d].losses = 0
            /\ learnt[d].wins <= 1 /\ learnt[d].losses <= 1
        BY <3>1 DEF BooksOf
      <4>2. CASE d = c /\ command.at = "win"
        <5>1. status[c] = "CONFIRMED" /\ learnt[c].wins = 0
          BY <1>1, <3>1, <4>2 DEF BooksOf, Doing
        <5>2. status[c] \notin {None, "PENDING"}
          BY <5>1, MoneyAssumption
        <5>3. learnt'[c].wins = 1 /\ learnt'[c].losses = learnt[c].losses
          BY <1>6, <4>2, <5>1
        <5>4. QED
          BY <4>1, <4>2, <5>2, <5>3
      <4>3. CASE d = c /\ command.at = "loss"
        <5>1. status[c] = "REVERSED" /\ learnt[c].losses = 0
          BY <1>1, <3>1, <4>3 DEF BooksOf, Doing
        <5>2. learnt'[c].losses = 1 /\ learnt'[c].wins = learnt[c].wins
          BY <1>6, <4>3, <5>1
        <5>3. QED
          BY <4>1, <4>3, <5>1, <5>2
      <4>4. CASE d # c
        BY <1>6, <4>1, <4>4
      <4>5. QED
        BY <1>1, <4>2, <4>3, <4>4
    <3>4. QED
      BY <1>2, <3>1, <3>2, <3>3 DEF BooksOf
  <2>2. QED
    BY <2>1 DEF BooksInv
<1>9. /\ command'.at \in {"idle", "answer"}
      /\ \A l \in Link : Counted(l)' = Counted(l) /\ Complete(l)' = Complete(l)
  BY <1>1, <1>2, <1>3, CountedKept
<1>10. VersionsInv'
  BY <1>2, <1>9, VersionsFrame
<1>11. ExactInv'
  BY <1>2, <1>9, ExactFrame
<1>12. QED
  BY <1>7, <1>8, <1>10, <1>11 DEF IInv

LEMMA ReverseStep == ASSUME IInv, NEW c \in Commission, Reverse(c) PROVE IInv'
<1>1. /\ command.at = "idle" /\ status[c] \in Settled \cup {"PENDING"}
      /\ status' = [status EXCEPT ![c] = "REVERSED"]
      /\ UNCHANGED <<links, log, lock, thread, refOf, ledger, learnt, told, minting, lost,
                     skipped, cut>>
  BY DEF Reverse, Idle, Reversible, file, server
<1>2. /\ command' \in Reversing /\ command'.at = "loss" /\ command'.commission = c
      /\ command'.booked = TRUE <=> status[c] \in Settled
  <2>1. /\ (status[c] \in Settled) => WasConfirmed(c) = TRUE
        /\ ~(status[c] \in Settled) => WasConfirmed(c) = FALSE
    BY SMT DEF WasConfirmed
  <2>2. command' = [at |-> "loss", commission |-> c, booked |-> WasConfirmed(c)]
    BY DEF Reverse
  <2>3. QED
    BY <2>1, <2>2 DEF Reversing
<1>3. \A d \in Commission : status'[d] = IF d = c THEN "REVERSED" ELSE status[d]
  BY <1>1 DEF IInv, ShapeInv
<1>4. ShapeInv'
  BY <1>1, <1>2 DEF IInv, ShapeInv
<1>5. BooksInv'
  <2>1. ASSUME NEW d \in Commission PROVE BooksOf(d)'
    <3>1. /\ BooksOf(d) /\ RefsOf(d)' = RefsOf(d)
          /\ DiedAt(d, {"settle"})' = DiedAt(d, {"settle"})
          /\ DiedAt(d, {"loss", "answer"})' = DiedAt(d, {"loss", "answer"})
      BY <1>1 DEF IInv, BooksInv, RefsOf, DiedAt
    <3>2. /\ ~Doing(d, {"settle"})' /\ ~Doing(d, {"settle"})
          /\ ~Doing(d, {"load link", "save link", "win"})'
          /\ ~Doing(d, {"load link", "save link"})' /\ ~Doing(d, {"loss", "answer"})
      BY <1>1, <1>2 DEF Doing
    <3>3. CASE d = c
      <4>1. /\ status[c] # "REVERSED" /\ learnt[c].losses = 0
            /\ refOf[c] # None <=> status[c] \in Settled
        BY <1>1, <3>1, <3>3, MoneyAssumption DEF BooksOf, Settled
      <4>2. status'[c] = "REVERSED" /\ Doing(c, {"loss", "answer"})'
        BY <1>2, <1>3 DEF Doing
      <4>3. status'[c] \notin {None, "PENDING"} \cup Settled
        BY <1>3, MoneyAssumption DEF Settled
      <4>4. /\ refOf'[c] # None => command'.booked = TRUE
            /\ command'.booked = TRUE => refOf'[c] # None
        BY <1>1, <1>2, <4>1
      <4>5. BooksOf(c)'
        BY <1>1, <3>1, <3>2, <3>3, <4>1, <4>2, <4>3, <4>4 DEF BooksOf
      <4>6. QED
        BY <3>3, <4>5
    <3>4. CASE d # c
      <4>1. ~Doing(d, {"loss"})' /\ ~Doing(d, {"loss", "answer"})' /\ status'[d] = status[d]
        BY <1>2, <1>3, <3>4 DEF Doing
      <4>2. QED
        BY <1>1, <3>1, <3>2, <4>1 DEF BooksOf
    <3>5. QED
      BY <3>3, <3>4
  <2>2. QED
    BY <2>1 DEF BooksInv
<1>6. \A l \in Link : Counted(l)' = Counted(l) /\ Complete(l)' = Complete(l)
  BY <1>1, <1>2, CountedKept
<1>7. VersionsInv'
  BY <1>1, <1>2, <1>6, VersionsFrame
<1>8. ExactInv'
  BY <1>1, <1>6, ExactFrame
<1>9. QED
  BY <1>4, <1>5, <1>7, <1>8 DEF IInv

LEMMA AnswerStep == ASSUME IInv, Answer PROVE IInv'
<1>1. PICK c \in Commission : c = command.commission /\ command.at = "answer"
  BY CommandFacts DEF IInv, Answer, Idle
<1>2. /\ told' = (IF command.booked THEN told \cup {c} ELSE told)
      /\ command' = Nothing
      /\ UNCHANGED <<links, log, lock, thread, status, refOf, ledger, learnt, minting, lost,
                     skipped, cut>>
  BY <1>1 DEF Answer, file, server
<1>3. command'.at = "idle"
  BY <1>2 DEF Nothing
<1>4. ShapeInv'
  BY <1>2 DEF IInv, ShapeInv
<1>5. /\ command.booked = TRUE => told' = told \cup {c}
      /\ command.booked # TRUE => told' = told
  <2>1. command.booked \in BOOLEAN
    BY <1>1, CommandFacts DEF IInv
  <2>2. CASE command.booked = TRUE
    BY <1>2, <2>2
  <2>3. CASE command.booked = FALSE
    BY <1>2, <2>3
  <2>4. QED
    BY <2>1, <2>2, <2>3
<1>6. BooksInv'
  <2>1. ASSUME NEW d \in Commission PROVE BooksOf(d)'
    <3>1. /\ BooksOf(d) /\ RefsOf(d)' = RefsOf(d)
          /\ DiedAt(d, {"settle"})' = DiedAt(d, {"settle"})
          /\ DiedAt(d, {"loss", "answer"})' = DiedAt(d, {"loss", "answer"})
      BY <1>2 DEF IInv, BooksInv, RefsOf, DiedAt
    <3>2. /\ ~Doing(d, {"settle"})' /\ ~Doing(d, {"settle"}) /\ ~Doing(d, {"loss"})'
          /\ ~Doing(d, {"load link", "save link", "win"})'
          /\ ~Doing(d, {"load link", "save link"})' /\ ~Doing(d, {"loss", "answer"})'
          /\ Doing(d, {"loss", "answer"}) <=> d = c
      BY <1>1, <1>3 DEF Doing
    <3>3. /\ d \in told' => refOf[d] # None
          /\ status[d] = "REVERSED" /\ refOf[d] # None /\ ~DiedAt(d, {"loss", "answer"})
             => d \in told'
      <4>1. CASE d = c
        <5>1. /\ refOf[c] # None => command.booked = TRUE
              /\ command.booked = TRUE => refOf[c] # None
              /\ c \in told => refOf[c] # None
          BY <3>1, <3>2, <4>1 DEF BooksOf
        <5>2. QED
          BY <1>5, <4>1, <5>1
      <4>2. CASE d # c
        <5>1. d \in told' <=> d \in told
          BY <1>5, <4>2
        <5>2. QED
          BY <3>1, <3>2, <4>2, <5>1 DEF BooksOf
      <4>3. QED
        BY <4>1, <4>2
    <3>4. QED
      BY <1>2, <3>1, <3>2, <3>3 DEF BooksOf
  <2>2. QED
    BY <2>1 DEF BooksInv
<1>7. \A l \in Link : Counted(l)' = Counted(l) /\ Complete(l)' = Complete(l)
  BY <1>1, <1>2, <1>3, CountedKept
<1>8. VersionsInv'
  BY <1>2, <1>3, <1>7, VersionsFrame
<1>9. ExactInv'
  BY <1>2, <1>7, ExactFrame
<1>10. QED
  BY <1>4, <1>6, <1>8, <1>9 DEF IInv

LEMMA MarkPaidStep == ASSUME IInv, NEW c \in Commission, MarkPaid(c) PROVE IInv'
<1>1. /\ command.at = "idle" /\ status[c] = "CONFIRMED"
      /\ status' = [status EXCEPT ![c] = "PAID"]
      /\ UNCHANGED <<links, log, lock, thread, refOf, ledger, learnt, told, command, minting,
                     lost, skipped, cut>>
  BY DEF MarkPaid, Idle, file, server
<1>2. \A d \in Commission : status'[d] = IF d = c THEN "PAID" ELSE status[d]
  BY <1>1 DEF IInv, ShapeInv
<1>3. ShapeInv'
  BY <1>1 DEF IInv, ShapeInv
<1>4. BooksInv'
  <2>1. ASSUME NEW d \in Commission PROVE BooksOf(d)'
    <3>1. /\ BooksOf(d) /\ RefsOf(d)' = RefsOf(d)
          /\ DiedAt(d, {"settle"})' = DiedAt(d, {"settle"})
          /\ DiedAt(d, {"loss", "answer"})' = DiedAt(d, {"loss", "answer"})
      BY <1>1 DEF IInv, BooksInv, RefsOf, DiedAt
    <3>2. /\ ~Doing(d, {"settle"})' /\ ~Doing(d, {"loss"})' /\ ~Doing(d, {"settle"})
          /\ ~Doing(d, {"load link", "save link", "win"})'
          /\ ~Doing(d, {"load link", "save link"})'
          /\ ~Doing(d, {"loss", "answer"})' /\ ~Doing(d, {"loss", "answer"})
      BY <1>1 DEF Doing
    <3>3. CASE d = c
      <4>1. status[c] \in Settled /\ status[c] # "REVERSED" /\ status'[c] \in Settled
            /\ status'[c] \notin {None, "PENDING", "REVERSED"}
        BY <1>1, <1>2, MoneyAssumption DEF Settled
      <4>2. BooksOf(c)'
        BY <1>1, <3>1, <3>2, <3>3, <4>1 DEF BooksOf
      <4>3. QED
        BY <3>3, <4>2
    <3>4. CASE d # c
      BY <1>1, <1>2, <3>1, <3>2, <3>4 DEF BooksOf
    <3>5. QED
      BY <3>3, <3>4
  <2>2. QED
    BY <2>1 DEF BooksInv
<1>5. \A l \in Link : Counted(l)' = Counted(l) /\ Complete(l)' = Complete(l)
  BY <1>1, CountedKept
<1>6. VersionsInv'
  BY <1>1, <1>5, VersionsFrame
<1>7. ExactInv'
  BY <1>1, <1>5, ExactFrame
<1>8. QED
  BY <1>3, <1>4, <1>6, <1>7 DEF IInv

LEMMA StayStep == ASSUME IInv, UNCHANGED vars PROVE IInv'
<1>1. UNCHANGED <<links, log, lock, thread, status, refOf, ledger, learnt, told, command,
                  minting, lost, skipped, cut>>
  BY DEF vars, file, server, books
<1>2. /\ BooksInv' /\ CountedOf' = CountedOf
      /\ \A l \in Link : Counted(l)' = Counted(l) /\ Complete(l)' = Complete(l)
  BY <1>1, BooksFrame DEF IInv, books
<1>3. ShapeInv'
  BY <1>1 DEF IInv, ShapeInv
<1>4. VersionsInv'
  BY <1>1, <1>2 DEF IInv, VersionsInv
<1>5. ExactInv'
  BY <1>1, <1>2, ExactFrame
<1>6. QED
  BY <1>2, <1>3, <1>4, <1>5 DEF IInv

LEMMA InitIInv == ASSUME Init PROVE IInv
<1>1. ShapeInv
  <2>1. [wins |-> 0, losses |-> 0] \in Counts
    BY DEF Counts
  <2>2. QED
    BY <2>1, RowFacts DEF Init, ShapeInv, Store
<1>2. command.at = "idle" /\ cut = {} /\ told = {} /\ skipped = {} /\ \A t \in Handler : thread[t].at = "idle"
  BY DEF Init, Nothing, Waiting
<1>3. BooksInv
  <2>1. ASSUME NEW c \in Commission PROVE BooksOf(c)
    <3>1. /\ status[c] = None /\ refOf[c] = None
          /\ learnt[c].wins = 0 /\ learnt[c].losses = 0
      BY DEF Init
    <3>2. status[c] \notin Settled \cup {"REVERSED"}
      BY <3>1, MoneyAssumption DEF Settled
    <3>3. RefsOf(c) = {}
      BY MoneyAssumption DEF Init, RefsOf
    <3>4. \A steps : ~Doing(c, steps) \/ "idle" \in steps
      BY <1>2 DEF Doing
    <3>5. learnt[c].wins <= 1 /\ learnt[c].losses <= 1
      BY <3>1
    <3>6. QED
      BY <1>2, <3>1, <3>2, <3>3, <3>4, <3>5 DEF BooksOf
  <2>2. QED
    BY <2>1 DEF BooksInv
<1>4. /\ \A l \in Link : Counted(l) = {} /\ Cardinality(Counted(l)) = 0 /\ CountedOf[l] = 0
      /\ \A l \in Link : links[l] = NoRow /\ log[l] = 0
  <2>1. \A l \in Link : Counted(l) = {}
    BY DEF Init, Counted, Reached, Confirmed
  <2>2. QED
    BY <2>1, FS_EmptySet DEF Init, CountedOf
<1>5. VersionsInv
  <2>1. Fits(links, log, CountedOf)
    BY <1>4, RowFacts DEF Fits
  <2>2. thread = [t \in Handler |-> Waiting] /\ minting = NoMint
    BY DEF Init
  <2>3. QED
    BY <1>2, <2>1, <2>2 DEF VersionsInv
<1>6. ExactInv
  <2>1. \A l \in Link : ~Due(l)
    BY <1>2 DEF Due
  <2>2. \A l \in Link : links[l].clicks + (IF Due(l) THEN 1 ELSE 0) = log[l]
    BY <1>4, <2>1, RowFacts
  <2>3. QED
    BY <1>4, <2>2, RowFacts DEF ExactInv
<1>7. QED
  BY <1>1, <1>3, <1>5, <1>6 DEF IInv

LEMMA StepIInv == ASSUME IInv, [Next]_vars PROVE IInv'
<1>1. CASE \E t \in Handler : LogClick(t) \/ CountClick(t) \/ \E l \in Link : Click(t, l)
  BY <1>1, LogClickStep, CountClickStep, ClickStep
<1>2. CASE ServerDies
  BY <1>2, ServerDiesStep
<1>3. CASE \E l \in Link : LoadForMint(l)
  BY <1>3, LoadForMintStep
<1>4. CASE SaveMint
  BY <1>4, SaveMintStep
<1>5. CASE \E c \in Commission : \/ RecordPending(c) \/ Reverse(c) \/ MarkPaid(c)
                                 \/ \E r \in Ref : Confirm(c, r)
  BY <1>5, RecordPendingStep, ReverseStep, MarkPaidStep, ConfirmStep
<1>6. CASE Settle \/ LoadLink \/ SaveLink \/ Learn \/ Answer \/ CommandDies
  BY <1>6, SettleStep, LoadLinkStep, SaveLinkStep, LearnStep, AnswerStep, CommandDiesStep
<1>7. CASE UNCHANGED vars
  BY <1>7, StayStep
<1>8. QED
  BY <1>1, <1>2, <1>3, <1>4, <1>5, <1>6, <1>7 DEF Next

-----------------------------------------------------------------------------
(***************************************************************************)
(* The theorems.                                                           *)
(***************************************************************************)
\* The inductive invariant: what the books, the versions of the link file and
\* the rows nobody has set back satisfy at every step of every program.
THEOREM MoneyStaysSound == Spec => []IInv
<1>1. Init => IInv
  BY InitIInv
<1>2. IInv /\ [Next]_vars => IInv'
  BY StepIInv
<1>3. QED
  BY <1>1, <1>2, PTL DEF Spec

\* A link never counts more clicks than are logged, and counts them all unless
\* its row was set back by a stale copy or a death.
THEOREM ClicksAccountedAlways == Spec => []ClicksAccounted
<1>1. ASSUME IInv, NEW l \in Link
      PROVE  /\ links[l].clicks <= log[l]
             /\ lock = None /\ l \notin lost => links[l].clicks = log[l]
  <2>1. links[l].clicks \in Nat
    BY <1>1, StoreRow DEF IInv, ShapeInv
  <2>2. links[l].clicks <= log[l]
    BY <1>1 DEF IInv, VersionsInv, Fits
  <2>3. lock = None => ~Due(l)
    BY <1>1, ThreadFacts, MoneyAssumption DEF Due
  <2>4. l \notin lost => links[l].clicks + (IF Due(l) THEN 1 ELSE 0) = log[l]
    BY <1>1 DEF IInv, ExactInv
  <2>5. QED
    BY <2>1, <2>2, <2>3, <2>4
<1>2. IInv => ClicksAccounted
  BY <1>1 DEF ClicksAccounted
<1>3. QED
  BY <1>2, MoneyStaysSound, PTL

\* A conversion of a link is a commission settled while the link was on file,
\* counted once.
THEOREM ConversionsAccountedAlways == Spec => []ConversionsAccounted
<1>1. ASSUME IInv, NEW l \in Link
      PROVE  /\ links[l].conversions <= Cardinality(Reached(l))
             /\ /\ command.at \notin {"load link", "save link"} /\ l \notin lost
                /\ \A c \in Confirmed(l) : ~DiedAt(c, {"load link", "save link"})
                => links[l].conversions = Cardinality(Reached(l))
  <2>1. Counted(l) \subseteq Reached(l) /\ Reached(l) \in SUBSET Commission
    BY DEF Counted, Reached, Confirmed
  <2>2. /\ Cardinality(Counted(l)) <= Cardinality(Reached(l))
        /\ Cardinality(Reached(l)) \in Nat
    BY <2>1, CommissionsFinite, FS_Subset
  <2>3. links[l].conversions <= Cardinality(Counted(l)) /\ links[l].conversions \in Nat
    <3>1. links \in Store /\ Fits(links, log, CountedOf)
      BY <1>1 DEF IInv, ShapeInv, VersionsInv
    <3>2. links[l].conversions <= CountedOf[l]
      BY <3>1 DEF Fits
    <3>3. QED
      BY <3>1, <3>2, CountedFacts, StoreRow
  <2>4. command.at \notin {"load link", "save link"} => Counted(l) = Reached(l)
    BY DEF Counted, Doing
  <2>5. l \notin lost /\ Complete(l) => links[l].conversions = Cardinality(Counted(l))
    BY <1>1 DEF IInv, ExactInv
  <2>6. links[l].conversions <= Cardinality(Reached(l))
    BY <2>2, <2>3, CountedFacts
  <2>7. QED
    BY <2>4, <2>5, <2>6 DEF Complete
<1>2. IInv => ConversionsAccounted
  BY <1>1 DEF ConversionsAccounted
<1>3. QED
  BY <1>2, MoneyStaysSound, PTL

\* Booking happens exactly once, wherever the command died.
THEOREM CountsOnceAlways == Spec => []CountsOnce
<1>1. ASSUME IInv, NEW c \in Commission
      PROVE  /\ status[c] \in Settled => ledger[refOf[c]] # None
             /\ ~DiedAt(c, {"settle"}) => Cardinality(RefsOf(c)) <= 1
             /\ learnt[c].wins <= 1 /\ learnt[c].losses <= 1
  <2>1. BooksOf(c)
    BY <1>1 DEF IInv, BooksInv
  <2>2. ASSUME ~DiedAt(c, {"settle"}) PROVE Cardinality(RefsOf(c)) <= 1
    <3>1. PICK x : \A r \in RefsOf(c) : r = x
      BY <2>1, <2>2 DEF BooksOf
    <3>2. RefsOf(c) \subseteq {x}
      BY <3>1
    <3>3. IsFiniteSet({x}) /\ Cardinality({x}) = 1
      BY FS_Singleton
    <3>4. Cardinality(RefsOf(c)) <= Cardinality({x})
      BY <3>2, <3>3, FS_Subset
    <3>5. QED
      BY <3>3, <3>4
  <2>3. QED
    BY <2>1, <2>2 DEF BooksOf
<1>2. IInv => CountsOnce
  BY <1>1 DEF CountsOnce
<1>3. QED
  BY <1>2, MoneyStaysSound, PTL

\* What a reversal leaves in the ledger was reported to the human, if the
\* commands about it lived to answer; and what was reported is in the ledger.
THEOREM ReversalReportedAlways == Spec => []ReversalReported
<1>1. ASSUME IInv, NEW c \in Commission, c \in told
      PROVE  ledger[refOf[c]] # None
  BY <1>1 DEF IInv, BooksInv, BooksOf
<1>2. ASSUME IInv, NEW c \in Commission,
             status[c] = "REVERSED", RefsOf(c) # {},
             ~Doing(c, {"loss", "answer"}), ~DiedAt(c, {"settle", "loss", "answer"})
      PROVE  c \in told
  <2>1. BooksOf(c) /\ ~DiedAt(c, {"settle"}) /\ ~DiedAt(c, {"loss", "answer"})
    BY <1>2 DEF IInv, BooksInv, DiedAt
  <2>2. PICK r \in RefsOf(c) : r = IF Doing(c, {"settle"}) THEN command.ref ELSE refOf[c]
    BY <1>2, <2>1 DEF BooksOf
  <2>3. ~Doing(c, {"settle"})
    BY <1>2, <2>1 DEF BooksOf
  <2>4. refOf[c] # None
    BY <2>2, <2>3, MoneyAssumption DEF RefsOf
  <2>5. QED
    BY <1>2, <2>1, <2>4 DEF BooksOf
<1>3. IInv => ReversalReported
  BY <1>1, <1>2 DEF ReversalReported
<1>4. QED
  BY <1>3, MoneyStaysSound, PTL
=============================================================================
