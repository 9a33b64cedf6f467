---------------------------- MODULE AffiliateMoney ----------------------------
(***************************************************************************)
(* Clicks and commissions of the affiliate pipeline (affiliate_links.py,   *)
(* affiliate_tracking_server.py, affiliate_revenue.py).                    *)
(*                                                                         *)
(* Three programs rewrite affiliate_links.json as a whole: the threads of  *)
(* the redirect server, which count clicks under one lock; the command a   *)
(* human gives when a network reports a commission, which books the        *)
(* ledger, then the commission, then the link, then the learning store;    *)
(* and the chain that mints links.  Any of them may die between two files. *)
(*                                                                         *)
(* Abstracted: amounts, URLs and times; only one commission command runs   *)
(* at a time, so the commission file has no stale copies; and the ledger   *)
(* has no other writer here (what its other writers do to each other is    *)
(* the subject of SaleToDelivery).                                         *)
(***************************************************************************)
EXTENDS Integers, FiniteSets, FiniteSetsExt

CONSTANTS
    Link,           \* link ids
    Commission,     \* commission ids
    LinkOf,         \* the link a commission came through
    Ref,            \* references of the networks
    Handler,        \* threads of the redirect server
    None,
    MaxClicks,      \* bound: clicks on all links
    MaxCrashes      \* bound: deaths of a program

ASSUME MoneyAssumption ==
    /\ IsFiniteSet(Link) /\ IsFiniteSet(Commission)
    /\ LinkOf \in [Commission -> Link]
    /\ None \notin Link \cup Commission \cup Ref \cup Handler
    /\ None \notin {"PENDING", "CONFIRMED", "PAID", "REVERSED"}
    /\ MaxClicks \in Nat /\ MaxCrashes \in Nat

VARIABLES
    links,          \* affiliate_links.json
    log,            \* affiliate_clicks.json: rows of a link
    lock,           \* _click_lock
    thread,         \* where each thread of the server stands, with its copy
    status,         \* affiliate_commissions.json: status
    refOf,          \* and reference
    ledger,         \* revenue.json: what a reference was booked for
    learnt,         \* outcomes.json: settled wins and losses of a commission
    command,        \* the commission command under way
    minting,        \* the chain: the link it mints, with its copy
    told,           \* commissions reversed with the note to reconcile the ledger
    lost,           \* history: links with a row that a stale copy, or a death, set back
    skipped,        \* history: commissions settled when their link was not on file
    cut,            \* history: commissions whose command died, and where
    crashes

file == <<links, log>>
server == <<lock, thread>>
books == <<status, refOf, ledger, learnt, told>>
vars == <<file, server, books, command, minting, lost, skipped, cut, crashes>>

-----------------------------------------------------------------------------
Row == [made : BOOLEAN, clicks : Nat, conversions : Nat]
NoRow == [made |-> FALSE, clicks |-> 0, conversions |-> 0]
NewRow == [NoRow EXCEPT !.made = TRUE]

Waiting == [at |-> "idle"]
Nothing == [at |-> "idle"]
NoMint == <<>>

Made(store) == {l \in Link : store[l].made}
Settled == {"CONFIRMED", "PAID"}

\* Rows that saving a copy sets back: they were saved by others after it was
\* loaded.
SetBack(copy) == {l \in Link : links[l] # copy[l]}

Init ==
    /\ links = [l \in Link |-> NoRow]
    /\ log = [l \in Link |-> 0]
    /\ lock = None /\ thread = [t \in Handler |-> Waiting]
    /\ status = [c \in Commission |-> None]
    /\ refOf = [c \in Commission |-> None]
    /\ ledger = [r \in Ref |-> None]
    /\ learnt = [c \in Commission |-> [wins |-> 0, losses |-> 0]]
    /\ command = Nothing /\ minting = NoMint
    /\ told = {} /\ lost = {} /\ skipped = {} /\ cut = {}
    /\ crashes = 0

-----------------------------------------------------------------------------
(* The redirect server: record_click *)

\* Wrong: does not wait for the lock.
FreeFor(t) == TRUE

\* _click_lock is free.
Free(t) == lock = None

\* A visitor follows the link: the link file is loaded.  An unknown id changes
\* nothing.
Click(t, l) ==
    /\ thread[t].at = "idle" /\ Free(t)
    /\ MapThenSumSet(LAMBDA k : log[k], Link) < MaxClicks
    /\ links[l].made
    /\ lock' = t
    /\ thread' = [thread EXCEPT ![t] = [at |-> "log", link |-> l, copy |-> links]]
    /\ UNCHANGED <<file, books, command, minting, lost, skipped, cut, crashes>>

\* The click is on file before it is counted.
LogClick(t) ==
    /\ thread[t].at = "log"
    /\ log' = [log EXCEPT ![thread[t].link] = @ + 1]
    /\ thread' = [thread EXCEPT ![t].at = "count"]
    /\ UNCHANGED <<links, lock, books, command, minting, lost, skipped, cut, crashes>>

\* The copy is saved with one more click, and the lock is released.  No other
\* thread has counted meanwhile: rows it sets back are those of other programs.
CountClick(t) ==
    LET copy == thread[t].copy
        uncounted(row) == [row EXCEPT !.clicks = 0]
    IN /\ thread[t].at = "count"
       /\ links' = [copy EXCEPT ![thread[t].link].clicks = @ + 1]
       /\ lost' = lost \cup {l \in Link : uncounted(links[l]) # uncounted(copy[l])}
       /\ lock' = None
       /\ thread' = [thread EXCEPT ![t] = Waiting]
       /\ UNCHANGED <<log, books, command, minting, skipped, cut, crashes>>

\* The redirect server dies: the lock is gone with it.
ServerDies ==
    /\ crashes < MaxCrashes /\ lock # None
    /\ crashes' = crashes + 1
    /\ lost' = lost \cup {thread[t].link : t \in {u \in Handler : thread[u].at = "count"}}
    /\ lock' = None /\ thread' = [t \in Handler |-> Waiting]
    /\ UNCHANGED <<file, books, command, minting, skipped, cut>>

-----------------------------------------------------------------------------
(* create_link *)

LoadForMint(l) ==
    /\ minting = NoMint /\ ~links[l].made
    /\ minting' = <<l, links>>
    /\ UNCHANGED <<file, server, books, command, lost, skipped, cut, crashes>>

SaveMint ==
    /\ minting # NoMint
    /\ links' = [minting[2] EXCEPT ![minting[1]] = NewRow]
    /\ lost' = lost \cup SetBack(minting[2])
    /\ minting' = NoMint
    /\ UNCHANGED <<log, server, books, command, skipped, cut, crashes>>

-----------------------------------------------------------------------------
(* The commission command *)

Idle == command.at = "idle"

\* record_pending_commission: nobody looks whether the link is on file.
RecordPending(c) ==
    /\ Idle /\ status[c] = None
    /\ status' = [status EXCEPT ![c] = "PENDING"]
    /\ UNCHANGED <<file, server, refOf, ledger, learnt, told, command, minting,
                   lost, skipped, cut, crashes>>

\* Wrong: confirms whatever was not reversed.
ConfirmableOften(c) == status[c] \in Settled \cup {"PENDING"}

\* Only from PENDING.
Confirmable(c) == status[c] = "PENDING"

\* has_ref: what is booked is not booked again.
Book(r, c) == IF ledger[r] = None THEN [ledger EXCEPT ![r] = c] ELSE ledger

\* Wrong: the commission is settled although the ledger is not written yet.
SettleFirst(c, r) ==
    /\ Idle /\ Confirmable(c)
    /\ command' = [at |-> "settle", commission |-> c, ref |-> r]
    /\ status' = [status EXCEPT ![c] = "CONFIRMED"]
    /\ refOf' = [refOf EXCEPT ![c] = r]
    /\ UNCHANGED <<file, server, ledger, learnt, told, minting, lost, skipped, cut,
                   crashes>>

\* confirm_commission: first the ledger.
Confirm(c, r) ==
    /\ Idle /\ Confirmable(c)
    /\ ledger' = Book(r, c)
    /\ command' = [at |-> "settle", commission |-> c, ref |-> r]
    /\ UNCHANGED <<file, server, status, refOf, learnt, told, minting, lost, skipped, cut,
                   crashes>>

\* Then the commission,
Settle ==
    /\ command.at = "settle"
    /\ status' = [status EXCEPT ![command.commission] = "CONFIRMED"]
    /\ refOf' = [refOf EXCEPT ![command.commission] = command.ref]
    /\ command' = [at |-> "load link", commission |-> command.commission]
    /\ UNCHANGED <<file, server, ledger, learnt, told, minting, lost, skipped, cut,
                   crashes>>

\* then its link, from a copy of the file and without the lock; a link that is
\* not on file (never minted, mistyped, set back) is skipped in silence,
LoadLink ==
    /\ command.at = "load link"
    /\ LET c == command.commission
       IN \/ /\ links[LinkOf[c]].made
             /\ command' = [at |-> "save link", commission |-> c, copy |-> links]
             /\ UNCHANGED skipped
          \/ /\ ~links[LinkOf[c]].made
             /\ command' = [at |-> "win", commission |-> c]
             /\ skipped' = skipped \cup {c}
    /\ UNCHANGED <<file, server, books, minting, lost, cut, crashes>>

SaveLink ==
    /\ command.at = "save link"
    /\ links' = [command.copy EXCEPT ![LinkOf[command.commission]].conversions = @ + 1]
    /\ lost' = lost \cup SetBack(command.copy)
    /\ command' = [at |-> "win", commission |-> command.commission]
    /\ UNCHANGED <<log, server, books, minting, skipped, cut, crashes>>

\* then the learning store, as after a reversal, which has yet to answer.
Learn ==
    /\ command.at \in {"win", "loss"}
    /\ LET c == command.commission
       IN \/ /\ command.at = "win"
             /\ learnt' = [learnt EXCEPT ![c].wins = @ + 1]
             /\ command' = Nothing
          \/ /\ command.at = "loss"
             /\ learnt' = [learnt EXCEPT ![c].losses = @ + 1]
             /\ command' = [command EXCEPT !.at = "answer"]
    /\ UNCHANGED <<file, server, status, refOf, ledger, told, minting, lost, skipped,
                   cut, crashes>>

\* Wrong: forgets that a commission paid out was confirmed before.
WasConfirmedOnly(c) == status[c] = "CONFIRMED"

WasConfirmed(c) == status[c] \in Settled

\* What is reversed already is left as it is.
Reversible(c) == status[c] \in Settled \cup {"PENDING"}

\* reverse_commission: the status is saved, and nothing is clawed back.  What
\* is reversed already is answered without a word on the ledger.
Reverse(c) ==
    /\ Idle /\ Reversible(c)
    /\ status' = [status EXCEPT ![c] = "REVERSED"]
    /\ command' = [at |-> "loss", commission |-> c, booked |-> WasConfirmed(c)]
    /\ UNCHANGED <<file, server, refOf, ledger, learnt, told, minting, lost, skipped,
                   cut, crashes>>

\* Only the answer of the command tells the human to reconcile the ledger.
Answer ==
    /\ command.at = "answer"
    /\ told' = IF command.booked THEN told \cup {command.commission} ELSE told
    /\ command' = Nothing
    /\ UNCHANGED <<file, server, status, refOf, ledger, learnt, minting, lost, skipped,
                   cut, crashes>>

MarkPaid(c) ==
    /\ Idle /\ status[c] = "CONFIRMED"
    /\ status' = [status EXCEPT ![c] = "PAID"]
    /\ UNCHANGED <<file, server, refOf, ledger, learnt, told, command, minting,
                   lost, skipped, cut, crashes>>

\* The command dies between two files.
CommandDies ==
    /\ ~Idle /\ crashes < MaxCrashes
    /\ crashes' = crashes + 1
    /\ cut' = cut \cup {<<command.commission, command.at>>}
    /\ command' = Nothing
    /\ UNCHANGED <<file, server, books, minting, lost, skipped>>

-----------------------------------------------------------------------------
Next ==
    \/ \E t \in Handler : LogClick(t) \/ CountClick(t) \/ \E l \in Link : Click(t, l)
    \/ ServerDies
    \/ \E l \in Link : LoadForMint(l)
    \/ SaveMint
    \/ \E c \in Commission : \/ RecordPending(c) \/ Reverse(c) \/ MarkPaid(c)
                             \/ \E r \in Ref : Confirm(c, r)
    \/ Settle \/ LoadLink \/ SaveLink \/ Learn \/ Answer \/ CommandDies

Spec == Init /\ [][Next]_vars

-----------------------------------------------------------------------------
(* Properties *)

RefsOf(c) == {r \in Ref : ledger[r] = c}
Confirmed(l) == {c \in Commission : LinkOf[c] = l /\ refOf[c] # None}
Reached(l) == Confirmed(l) \ skipped
Doing(c, steps) == command.at \in steps /\ command.commission = c
DiedAt(c, steps) == \E at \in steps : <<c, at>> \in cut

CommandStep == {"settle", "load link", "save link", "win", "loss", "answer"}

\* The files hold what the code can have written.
TypeOK ==
    /\ links \in [Link -> [made : BOOLEAN, clicks : 0..MaxClicks,
                           conversions : 0..Cardinality(Commission)]]
    /\ log \in [Link -> 0..MaxClicks]
    /\ lock \in Handler \cup {None}
    /\ \A t \in Handler : thread[t].at \in {"idle", "log", "count"}
    /\ status \in [Commission -> {None, "PENDING", "CONFIRMED", "PAID", "REVERSED"}]
    /\ refOf \in [Commission -> Ref \cup {None}]
    /\ ledger \in [Ref -> Commission \cup {None}]
    /\ learnt \in [Commission -> [wins : 0..1, losses : 0..1]]
    /\ command = Nothing \/ command.at \in CommandStep
    /\ minting = NoMint \/ minting[1] \in Link
    /\ told \cup skipped \subseteq Commission /\ lost \subseteq Link
    /\ cut \subseteq Commission \X CommandStep /\ crashes \in 0..MaxCrashes

\* affiliate_links.py, _click_lock: a click is on file before it is counted, so
\* no link counts more than its rows; and when no click is under way it counts
\* them all, unless another program or a death has set its row back.
ClicksAccounted ==
    \A l \in Link :
       /\ links[l].clicks <= log[l]
       /\ lock = None /\ l \notin lost => links[l].clicks = log[l]

\* confirm_commission: a conversion of a link is a commission that was
\* confirmed once while the link was on file, and each such commission is
\* counted, unless the row was set back or the command died before it saved it.
\* What was settled while the link was not on file is never counted.
ConversionsAccounted ==
    \A l \in Link :
       /\ links[l].conversions <= Cardinality(Reached(l))
       /\ /\ command.at \notin {"load link", "save link"} /\ l \notin lost
          /\ \A c \in Confirmed(l) : ~DiedAt(c, {"load link", "save link"})
          => links[l].conversions = Cardinality(Reached(l))

\* affiliate_revenue.py:3, "Booking happens exactly once": what is settled is in
\* the ledger, wherever the command died; and a commission counts once there,
\* unless the command died after it had booked and a human repeated it with
\* another reference, and at most once among the outcomes to learn from.
CountsOnce ==
    \A c \in Commission :
       /\ status[c] \in Settled => ledger[refOf[c]] # None
       /\ ~DiedAt(c, {"settle"}) => Cardinality(RefsOf(c)) <= 1
       /\ learnt[c].wins <= 1 /\ learnt[c].losses <= 1

\* reverse_commission, "a human must reconcile": what the human is told to
\* reconcile is in the ledger; and a reversed commission that stands in the
\* ledger was reported, unless the confirmation had died after it booked or the
\* reversal died before it answered: repeating it says "already_reversed" only.
ReversalReported ==
    \A c \in Commission :
       /\ c \in told => ledger[refOf[c]] # None
       /\ /\ status[c] = "REVERSED" /\ RefsOf(c) # {}
          /\ ~Doing(c, {"loss", "answer"})
          /\ ~DiedAt(c, {"settle", "loss", "answer"})
          => c \in told

=============================================================================
