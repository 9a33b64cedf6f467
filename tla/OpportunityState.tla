-------------------------- MODULE OpportunityState --------------------------
(***************************************************************************)
(* The vocabulary of opportunity_state.py: the lifecycle of an opportunity,*)
(* the moves that are legal without a human override, and the bridge from  *)
(* the seven legacy statuses.  Pure operators; the records are kept by the *)
(* modules that model opportunities.json.                                  *)
(***************************************************************************)

\* _FORWARD: forward and branch moves.
Forward ==
    [DISCOVERED        |-> {"RESEARCHING", "SCORED"},
     RESEARCHING       |-> {"SCORED", "FAILED"},
     SCORED            |-> {"SELECTED"},
     SELECTED          |-> {"PLANNING"},
     PLANNING          |-> {"BUILDING", "FAILED"},
     BUILDING          |-> {"VALIDATING", "FAILED"},
     VALIDATING        |-> {"READY_TO_DEPLOY", "BUILDING", "FAILED", "FIRST_SALE"},
     READY_TO_DEPLOY   |-> {"DEPLOYING"},
     DEPLOYING         |-> {"LIVE", "READY_TO_DEPLOY", "FAILED"},
     LIVE              |-> {"ACQUIRING_TRAFFIC", "MEASURING", "FIRST_SALE"},
     ACQUIRING_TRAFFIC |-> {"MEASURING", "LIVE"},
     MEASURING         |-> {"FIRST_VISITOR", "FIRST_LEAD", "FIRST_SALE",
                            "NO_TRACTION", "OPTIMIZING", "ACQUIRING_TRAFFIC"},
     FIRST_VISITOR     |-> {"FIRST_LEAD", "FIRST_SALE", "MEASURING",
                            "NO_TRACTION", "OPTIMIZING"},
     FIRST_LEAD        |-> {"FIRST_SALE", "MEASURING", "NO_TRACTION", "OPTIMIZING"},
     FIRST_SALE        |-> {"DELIVERING", "ACTIVE", "MEASURING"},
     DELIVERING        |-> {"ACTIVE", "FIRST_SALE", "FAILED"},
     ACTIVE            |-> {"OPTIMIZING", "MEASURING", "PROFITABLE",
                            "NO_TRACTION", "DELIVERING"},
     OPTIMIZING        |-> {"MEASURING", "ACTIVE", "BUILDING", "ACQUIRING_TRAFFIC",
                            "PROFITABLE", "NO_TRACTION"},
     PROFITABLE        |-> {"SCALING", "ACTIVE", "OPTIMIZING", "NO_TRACTION"},
     SCALING           |-> {"PROFITABLE", "ACTIVE", "OPTIMIZING"},
     NO_TRACTION       |-> {"OPTIMIZING", "ACQUIRING_TRAFFIC"}]

Recoverable == {"BLOCKED", "FAILED"}
OppState == DOMAIN Forward \cup Recoverable \cup {"ABANDONED"}

CanTransition(from, to) ==
    /\ from # to
    /\ from # "ABANDONED"
    /\ \/ to \in {"ABANDONED", "BLOCKED"}
       \/ from \in Recoverable
       \/ from \in DOMAIN Forward /\ to \in Forward[from]

\* Wrong: sets the target whatever the state is.
MoveAlways(from, to) == to

\* What the worker does with a target: move if legal, never force.
MoveIfLegal(from, to) == IF CanTransition(from, to) THEN to ELSE from

\* LEGACY_STATUS_TO_STATE
StateOfStatus ==
    [discovered |-> "DISCOVERED", evaluating |-> "SCORED", building |-> "BUILDING",
     testing |-> "READY_TO_DEPLOY", active |-> "ACTIVE", successful |-> "ACTIVE",
     abandoned |-> "ABANDONED"]
=============================================================================
