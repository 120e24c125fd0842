--------------------------- MODULE DockingStages ---------------------------
(***************************************************************************)
(* The protected docking state machine of rust/access_core: the states,    *)
(* the events that move it, the authorization each event demands, and how  *)
(* a requested state number selects an event.                              *)
(***************************************************************************)
EXTENDS Naturals

\* The DockingState enum, in the order of its numbering.
DockingState ==
  {"Hold", "Approach", "FinalApproach", "SoftCapture", "HardDock", "Aborted"}

\* The number under which a state travels in requests and outcomes.
StateNumber(s) ==
  IF s = "Hold" THEN 0
  ELSE IF s = "Approach" THEN 1
  ELSE IF s = "FinalApproach" THEN 2
  ELSE IF s = "SoftCapture" THEN 3
  ELSE IF s = "HardDock" THEN 4
  ELSE 5

\* The stages a grant can authorize (AuthorizedStage), named by the state
\* number they lead to.
Stages == 1..4

\* The requested_state byte of a request: one value past each end of Stages
\* stands for the bytes no transition accepts.
RequestedStates == 0..5

\* transition_for: a request is answered only for the next stage.
TransitionFor(s, requested) ==
  requested \in Stages /\ StateNumber(s) + 1 = requested

\* The event that transition_for selects for an accepted request.
DockingEvent(stage) ==
  IF stage = 1 THEN "BeginApproach"
  ELSE IF stage = 2 THEN "EnterFinalApproach"
  ELSE IF stage = 3 THEN "EngageSoftCapture"
  ELSE "EngageHardDock"

\* What reduce returns instead of a state when it refuses the event.
Rejected == "Rejected"

\* reduce: the state that an event leads to under an AuthorizationContext.
Reduce(s, event, authorization) ==
  IF event = "Abort" THEN "Aborted"
  ELSE IF s = "Hold" /\ event = "BeginApproach" THEN "Approach"
  ELSE IF s = "Approach" /\ event = "EnterFinalApproach"
          /\ authorization.identity_verified THEN "FinalApproach"
  ELSE IF s = "FinalApproach" /\ event = "EngageSoftCapture"
          /\ authorization.session_authorized THEN "SoftCapture"
  ELSE IF s = "SoftCapture" /\ event = "EngageHardDock"
          /\ authorization.docking_authorized THEN "HardDock"
  ELSE Rejected
=============================================================================
