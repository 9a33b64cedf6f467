----------------------------- MODULE PlanOrders -----------------------------
(***************************************************************************)
(* From a booked payment to the product in the buyer's mail: the intake    *)
(* (intake.py), the plan a model drafts (workflow.draft_launch_plan), the  *)
(* human's review and approval, and the delivery (delivery.py) that stages *)
(* a PDF and sends it.  Composed with CandidateBoard through the ledger.   *)
(*                                                                         *)
(* What the buyer wrote is the number of the submission it came with, a    *)
(* plan is the number of the draft.                                        *)
(***************************************************************************)
EXTENDS CandidateBoard

CONSTANTS
    Order,        \* order ids
    CaptureOf,    \* CaptureOf[o]: the payment the submissions for o name
    MaxImports,   \* bound of the model: submissions
    MaxDrafts     \* bound of the model: drafts

ASSUME OrderConstants ==
    /\ CaptureOf \in [Order -> Pay]
    /\ MaxImports \in Nat
    /\ MaxDrafts \in Nat

VARIABLES
    intake,       \* intake.json
    imports,      \* how many submissions were stored
    drafter,      \* the process that drafts a plan
    drawn,        \* history: drawn[n], the submission draft n was written from
    pdf,          \* the draft in the PDF of each order, 0 where there is none
    deliveries,   \* deliveries.json
    desk,         \* desk[d]: a process that stages or sends
    mails,        \* history: [order, draft, to] of the mails that went out
    count,        \* history: how many mails went out for each order
    unrecorded,   \* history: how often a sender died after the mail
    reviewed,     \* history: submissions a human reviewed
    approved      \* history: drafts a human approved

orderVars == <<intake, imports, drafter, drawn, pdf, deliveries, desk, mails,
               count, unrecorded, reviewed, approved>>
vars == <<boardVars, orderVars>>

\* The revenue loop stages, the human stages and sends.
Desk == {"loop", "human"}

NoEntry == [status |-> "none", fields |-> 0, plan |-> 0, approved |-> FALSE]
NoRecord == [status |-> "none", draft |-> 0, to |-> 0]
AtRest == [pc |-> "idle", order |-> "none", record |-> NoRecord,
           copy |-> [o \in Order |-> NoRecord], sends |-> FALSE]
NoDraft == [pc |-> "idle", order |-> "none", copy |-> [o \in Order |-> NoEntry]]

Init ==
    /\ BoardInit
    /\ intake = [o \in Order |-> NoEntry]
    /\ imports = 0
    /\ drafter = NoDraft
    /\ drawn = <<>>
    /\ pdf = [o \in Order |-> 0]
    /\ deliveries = [o \in Order |-> NoRecord]
    /\ desk = [d \in Desk |-> AtRest]
    /\ mails = {}
    /\ count = [o \in Order |-> 0]
    /\ unrecorded = [o \in Order |-> 0]
    /\ reviewed = {}
    /\ approved = {}
-----------------------------------------------------------------------------
(* Intake and plan.                                                        *)

\* The real-revenue rule.
IsBooked(o) == CaptureOf[o] \in ledger

\* A submission replaces what an earlier one for the order has come to.
Import(o) ==
    /\ IsBooked(o)
    /\ imports < MaxImports
    /\ imports' = imports + 1
    /\ intake' = [intake EXCEPT ![o] = [NoEntry EXCEPT !.status = "new", !.fields = imports']]
    /\ UNCHANGED <<drafter, drawn, pdf, deliveries, desk, mails, count, unrecorded,
                   reviewed, approved>>

Review(o) ==
    /\ intake[o].status # "none"
    /\ intake' = [intake EXCEPT ![o].status = "reviewed"]
    /\ reviewed' = reviewed \cup {intake[o].fields}
    /\ UNCHANGED <<imports, drafter, drawn, pdf, deliveries, desk, mails, count,
                   unrecorded, approved>>

Draftable(entry) == entry.plan = 0 /\ entry.status = "reviewed"

\* The intake and the ledger are read, then the model is asked.
StartDraft(o) ==
    /\ drafter.pc = "idle"
    /\ Len(drawn) < MaxDrafts
    /\ Draftable(intake[o]) /\ IsBooked(o)
    /\ drafter' = [pc |-> "asking", order |-> o, copy |-> intake]
    /\ UNCHANGED <<intake, imports, drawn, pdf, deliveries, desk, mails, count,
                   unrecorded, reviewed, approved>>

\* The plan is attached to the copy, and the copy saved whole.
SaveDraft ==
    /\ drafter.pc = "asking"
    /\ drawn' = Append(drawn, drafter.copy[drafter.order].fields)
    /\ intake' = [drafter.copy EXCEPT ![drafter.order].plan = Len(drawn'),
                                      ![drafter.order].approved = FALSE]
    /\ drafter' = NoDraft
    /\ UNCHANGED <<imports, pdf, deliveries, desk, mails, count, unrecorded,
                   reviewed, approved>>

DraftFails ==
    /\ drafter.pc = "asking"
    /\ drafter' = NoDraft
    /\ UNCHANGED <<intake, imports, drawn, pdf, deliveries, desk, mails, count,
                   unrecorded, reviewed, approved>>

ApprovePlan(o) ==
    /\ intake[o].plan # 0
    /\ intake' = [intake EXCEPT ![o].approved = TRUE]
    /\ approved' = approved \cup {intake[o].plan}
    /\ UNCHANGED <<imports, drafter, drawn, pdf, deliveries, desk, mails, count,
                   unrecorded, reviewed>>
-----------------------------------------------------------------------------
(* Delivery.                                                               *)

Gated(o) ==
    /\ intake[o].status = "reviewed"
    /\ intake[o].plan # 0 /\ intake[o].approved
    /\ IsBooked(o)

\* Wrong: a PDF staged again makes an order deliverable again.
StatusAnew(o) == "staged"

\* What staging leaves of an earlier record.
StatusKept(o) == IF deliveries[o].status = "sent" THEN "sent" ELSE "staged"

\* The first half of stage_delivery: the gates, and the PDF.
Render(d, o, sends) ==
    /\ Gated(o)
    /\ pdf' = [pdf EXCEPT ![o] = intake[o].plan]
    /\ desk' = [desk EXCEPT ![d] = [AtRest EXCEPT
                   !.pc = "rendered", !.order = o, !.sends = sends,
                   !.record = [status |-> "staged", draft |-> intake[o].plan,
                               to |-> intake[o].fields]]]
    /\ UNCHANGED <<intake, imports, drafter, drawn, deliveries, mails, count,
                   unrecorded, reviewed, approved>>

\* The loop stages what is neither staged nor sent.
LoopStages(o) ==
    /\ desk["loop"].pc = "idle"
    /\ deliveries[o].status = "none"
    /\ Render("loop", o, FALSE)

HumanStages(o) == desk["human"].pc = "idle" /\ Render("human", o, FALSE)

\* Staged already: the record as it is; otherwise stage first.
HumanSends(o) ==
    /\ desk["human"].pc = "idle"
    /\ IF deliveries[o].status = "none" \/ pdf[o] = 0
       THEN Render("human", o, TRUE)
       ELSE /\ deliveries[o].status # "sent"
            /\ desk' = [desk EXCEPT !["human"] = [AtRest EXCEPT
                           !.pc = "sending", !.order = o, !.record = deliveries[o],
                           !.copy = deliveries]]
            /\ UNCHANGED <<intake, imports, drafter, drawn, pdf, deliveries, mails,
                           count, unrecorded, reviewed, approved>>

\* The second half: the record is saved, and re-loaded by a send; one that is
\* sent already goes no further.
SaveStaged(d) ==
    LET o == desk[d].order
        record == [desk[d].record EXCEPT !.status = StatusKept(o)]
    IN  /\ desk[d].pc = "rendered"
        /\ deliveries' = [deliveries EXCEPT ![o] = record]
        /\ desk' = [desk EXCEPT ![d] = IF desk[d].sends /\ record.status # "sent"
                       THEN [@ EXCEPT !.pc = "sending", !.record = record,
                                      !.copy = deliveries']
                       ELSE AtRest]
        /\ UNCHANGED <<intake, imports, drafter, drawn, pdf, mails, count, unrecorded,
                       reviewed, approved>>

\* The PDF is read from the disk, the address from the record.
Mail ==
    LET h == desk["human"]
    IN  /\ h.pc = "sending"
        /\ mails' = mails \cup {[order |-> h.order, draft |-> pdf[h.order],
                                 to |-> h.record.to]}
        /\ count' = [count EXCEPT ![h.order] = @ + 1]
        /\ desk' = [desk EXCEPT !["human"].pc = "mailed"]
        /\ UNCHANGED <<intake, imports, drafter, drawn, pdf, deliveries, unrecorded,
                       reviewed, approved>>

MailFails ==
    /\ desk["human"].pc = "sending"
    /\ desk' = [desk EXCEPT !["human"] = AtRest]
    /\ UNCHANGED <<intake, imports, drafter, drawn, pdf, deliveries, mails, count,
                   unrecorded, reviewed, approved>>

\* The record and with it the whole store as it was before the mail.
SaveSent ==
    LET h == desk["human"]
    IN  /\ h.pc = "mailed"
        /\ deliveries' = [h.copy EXCEPT ![h.order] = [h.record EXCEPT !.status = "sent"]]
        /\ desk' = [desk EXCEPT !["human"] = AtRest]
        /\ UNCHANGED <<intake, imports, drafter, drawn, pdf, mails, count, unrecorded,
                       reviewed, approved>>

OrderDeath ==
    /\ deaths < MaxDeaths
    /\ deaths' = deaths + 1
    /\ \/ /\ drafter.pc # "idle"
          /\ drafter' = NoDraft
          /\ UNCHANGED <<desk, unrecorded>>
       \/ \E d \in Desk :
             /\ desk[d].pc # "idle"
             /\ desk' = [desk EXCEPT ![d] = AtRest]
             /\ unrecorded' = IF desk[d].pc = "mailed"
                              THEN [unrecorded EXCEPT ![desk[d].order] = @ + 1]
                              ELSE unrecorded
             /\ UNCHANGED drafter
    /\ UNCHANGED <<board, ledger, agent, runs, booker, passed, booked>>
    /\ UNCHANGED <<intake, imports, drawn, pdf, deliveries, mails, count, reviewed,
                   approved>>

OrderNext ==
    \/ \E o \in Order :
          \/ Import(o) \/ Review(o) \/ StartDraft(o) \/ ApprovePlan(o)
          \/ LoopStages(o) \/ HumanStages(o) \/ HumanSends(o)
    \/ SaveDraft \/ DraftFails
    \/ (\E d \in Desk : SaveStaged(d))
    \/ Mail \/ MailFails \/ SaveSent

Next ==
    \/ BoardNext /\ UNCHANGED orderVars
    \/ OrderNext /\ UNCHANGED boardVars
    \/ OrderDeath

Spec == Init /\ [][Next]_vars
-----------------------------------------------------------------------------
(* Properties.                                                             *)

\* Every mail carries a plan a human approved, drafted from a submission a human
\* had reviewed before it was drafted, for a payment that was booked; and an
\* order gets a second mail only after a sender died between the mail and its
\* record (delivery.py: "Refuses to send twice for the same order"), whatever
\* is imported, drafted or staged again meanwhile.
MailsAreDue ==
    /\ \A m \in mails :
          /\ m.draft \in approved
          /\ drawn[m.draft] \in reviewed
          /\ CaptureOf[m.order] \in booked
    /\ \A o \in Order : count[o] <= 1 + unrecorded[o]
=============================================================================
