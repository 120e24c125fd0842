---------------------------- MODULE DockingNodes ----------------------------
(***************************************************************************)
(* The ROS nodes around the engine: the dashboard that starts a run, the   *)
(* controller that moves the chaser and asks for each stage, the chaser's  *)
(* and the station's ACCESS adapters, and the processes they talk to. The  *)
(* engine is the gate that it implements, with its grants (GrantGate).     *)
(*                                                                         *)
(* Every callback of a node is one step: a node runs one callback at a     *)
(* time and publishes at its end. Messages of one topic reach a subscriber *)
(* in order; nothing orders one topic against another. How long a call, a  *)
(* callback or a message takes is left open, so every timeout may expire   *)
(* at any time. Readiness evidence is abstracted to its presence and the   *)
(* policy's answer to a choice. /docking/reset acts on each node as        *)
(* /docking/run does.                                                      *)
(***************************************************************************)
EXTENDS GrantGate, FiniteSets

CONSTANTS
  Faults,       \* what may go wrong: a subset of FaultKinds
  Slow,         \* the nodes that may be behind when the restart delay ends
  MaxStarts     \* bound on the runs and preparations the browser asks for

\* Denials by policy, errors and timeouts of the authority and the verifier,
\* failing pose calls, and the controller's decision timeout.
FaultKinds == {"denial", "error", "timeout", "pose", "decision_timeout"}

ASSUME NodesAssumption ==
  /\ Faults \subseteq FaultKinds
  /\ LastStage \in Nat \ {0} /\ MaxStarts \in Nat

VARIABLES
  asked,          \* how often the browser has asked for a run or a preparation
  rerun_requested, prepare_requested,           \* the dashboard's events
  run_topic, prepare_topic,  \* per node: messages of the topic not yet handled
  ctrl_state, ctrl_pending, ctrl_halted,        \* BaselineController
  ctrl_reset, ctrl_start, ctrl_resume,          \*   _reset_requested, ...
  ctrl_pose,      \* the outstanding pose call, reset pose or move
  ctrl_at_goal,   \* the chaser is where the state's goal is
  request_topic,  \* /docking/transition_request: the requested states
  chaser_session, presented_grants,             \* ChaserAccess
  verifier,       \* the chaser's verifier process, "up" or "dead"
  to_station, to_chaser,  \* the two ACCESS protocol topics
  session_ready, session_denied, station_session, readiness,  \* StationAccess
  authority,      \* the station's authority process, "up" or "dead"
  decision_topic, \* /docking/transition_decision
  ctrl_run, chaser_run,  \* history: runs the controller, the chaser has taken
  session_run,    \* history: for each session the run it was asked for in
  entered,        \* history: the releases the controller has acted on
  verified        \* history: the grants the chaser's verifier accepted

dashboard == <<asked, rerun_requested, prepare_requested>>
controller == <<ctrl_state, ctrl_pending, ctrl_halted, ctrl_reset, ctrl_start,
                ctrl_resume, ctrl_pose, ctrl_at_goal, ctrl_run, entered>>
chaser == <<chaser_session, presented_grants, verifier, chaser_run, verified>>
station == <<session_ready, session_denied, station_session, readiness>>
engine == <<grantVars, authority, session_run>>
starts == <<run_topic, prepare_topic>>
nodesVars == <<dashboard, starts, controller, request_topic, chaser, to_station,
               to_chaser, station, engine, decision_topic>>

Node == {"controller", "chaser", "station"}
NoSession == 0
NoGrant == 0

-----------------------------------------------------------------------------
(* Dashboard *)

\* request_rerun
RequestRerun ==
  /\ asked < MaxStarts
  /\ asked' = asked + 1
  /\ rerun_requested' = TRUE
  /\ UNCHANGED <<prepare_requested, starts, controller, request_topic, chaser,
                 to_station, to_chaser, station, engine, decision_topic>>

\* request_prepare
RequestPrepare ==
  /\ asked < MaxStarts
  /\ asked' = asked + 1
  /\ prepare_requested' = TRUE
  /\ UNCHANGED <<rerun_requested, starts, controller, request_topic, chaser,
                 to_station, to_chaser, station, engine, decision_topic>>

Published(topic) == [n \in Node |-> topic[n] + 1]

\* _publish_requested_reset: a preparation and a run asked for since the last
\* timer are published in this order, whatever order they were asked for in.
PublishRequestedReset ==
  /\ rerun_requested \/ prepare_requested
  /\ prepare_topic' = IF prepare_requested THEN Published(prepare_topic) ELSE prepare_topic
  /\ run_topic' = IF rerun_requested THEN Published(run_topic) ELSE run_topic
  /\ rerun_requested' = FALSE /\ prepare_requested' = FALSE
  /\ UNCHANGED <<asked, controller, request_topic, chaser, to_station, to_chaser,
                 station, engine, decision_topic>>

Take(topic, n) == topic[n] > 0 /\ topic' = [topic EXCEPT ![n] = @ - 1]

-----------------------------------------------------------------------------
(* Baseline controller *)

\* _request_reset
RequestReset(start_after_reset) ==
  /\ ctrl_reset' = TRUE
  /\ ctrl_start' = start_after_reset
  /\ ctrl_halted' = ~start_after_reset
  /\ ctrl_pending' = FALSE
  /\ ctrl_resume' = FALSE
  /\ UNCHANGED <<ctrl_state, ctrl_pose, ctrl_at_goal, entered>>

ControllerOnRun ==
  /\ Take(run_topic, "controller")
  /\ RequestReset(TRUE)
  /\ ctrl_run' = ctrl_run + 1
  /\ UNCHANGED <<prepare_topic, dashboard, request_topic, chaser, to_station, to_chaser,
                 station, engine, decision_topic>>

ControllerOnPrepare ==
  /\ Take(prepare_topic, "controller")
  /\ RequestReset(FALSE)
  /\ UNCHANGED <<ctrl_run, run_topic, dashboard, request_topic, chaser, to_station,
                 to_chaser, station, engine, decision_topic>>

\* (Mutation) The last state has a next one.
AlwaysNext(s) == TRUE

\* NEXT_STATE knows the state.
HasNextState(s) == s < LastStage

\* NEXT_STATE.get(s) == k
IsNextState(s, k) == s < LastStage /\ k = s + 1

\* The decision that _on_decision acts on moves the controller to its stage.
EnterStage ==
  /\ decision_topic # << >> /\ ctrl_pending
  /\ LET d == Head(decision_topic) IN
       /\ d.approved /\ IsNextState(ctrl_state, d.resulting_state)
       /\ ctrl_state' = d.resulting_state
       /\ entered' = entered \cup {d.release}
  /\ ctrl_at_goal' = FALSE
  /\ ctrl_pending' = FALSE
  /\ decision_topic' = Tail(decision_topic)
  /\ UNCHANGED <<ctrl_halted, ctrl_reset, ctrl_start, ctrl_resume, ctrl_pose, ctrl_run,
                 dashboard, starts, request_topic, chaser, to_station, to_chaser, station,
                 engine>>

\* It was not the awaited approval: the controller halts. A decision that is
\* not awaited is ignored.
RefuseDecision ==
  /\ decision_topic # << >>
  /\ LET d == Head(decision_topic) IN
       /\ ctrl_pending => ~(d.approved /\ IsNextState(ctrl_state, d.resulting_state))
       /\ ctrl_halted' = (ctrl_halted \/ ctrl_pending)
  /\ ctrl_pending' = FALSE
  /\ decision_topic' = Tail(decision_topic)
  /\ UNCHANGED <<ctrl_state, ctrl_at_goal, ctrl_reset, ctrl_start, ctrl_resume, ctrl_pose,
                 ctrl_run, entered, dashboard, starts, request_topic, chaser, to_station,
                 to_chaser, station, engine>>

\* What _advance_pose finds: the service or the call is not ready, there was no
\* call, or the call ended in one of three ways.
PoseResults ==
  IF ctrl_pose = "none" THEN {"busy", "none"}
  ELSE {"busy", "success"} \cup (IF "pose" \in Faults THEN {"rejected", "raised"} ELSE {})

\* (Mutation) The controller waits for the decision for ever.
NoTimeout(timed_out) == ~timed_out /\ UNCHANGED ctrl_halted

\* The decision timeout at the beginning of _update.
DecisionTimeout(timed_out) ==
  /\ timed_out => ctrl_pending /\ "decision_timeout" \in Faults
  /\ ctrl_halted' = (ctrl_halted \/ timed_out)

\* (Mutation) The timeout halts the controller and leaves the request pending.
StillPending(timed_out) == ctrl_pending

\* Whether the request is still pending after the timeout was looked at.
PendingAfter(timed_out) == ctrl_pending /\ ~timed_out

\* A reset pose is to be sent: one was asked for, or the last was rejected. A
\* reset pose whose call raised an exception is not sent again.
ResetWanted(result) == ctrl_reset \/ (ctrl_pose = "reset" /\ result = "rejected")

\* The reset pose was confirmed.
Homed(result) == ctrl_pose = "reset" /\ result = "success"

\* The node has handled everything sent to it; the station has its readiness.
CaughtUp(n) ==
  /\ run_topic[n] = 0 /\ prepare_topic[n] = 0
  /\ n = "controller" => decision_topic = << >>
  /\ n = "chaser" => request_topic = << >> /\ to_chaser = << >>
  /\ n = "station" => to_station = << >> /\ readiness

\* The restart delay is long enough for every node that is not slow.
Delivered == \A n \in Node \ Slow : CaughtUp(n)

\* _update, the whole timer callback: decision timeout, pose, and, unless a
\* reset is on its way or the restart delay is running, the next request. The
\* move to the goal takes any number of calls. In the callback that sees the
\* reset pose confirmed, the goal compared is still the old one.
Update(timed_out, result, arrived, delay_over) ==
  LET sent    == result # "busy"
      home    == Homed(result)
      state   == IF home THEN 0 ELSE ctrl_state
      at_goal == \/ home
                 \/ ctrl_at_goal
                 \/ ctrl_pose = "move" /\ result = "success" /\ arrived
      resume  == IF home THEN ctrl_start ELSE ctrl_resume
      moving  == IF sent THEN ~ResetWanted(result)
                 ELSE ~ctrl_reset /\ ctrl_pose # "reset"
      waiting == resume /\ ~delay_over
      asks    == /\ moving /\ ~waiting /\ at_goal
                 /\ home => ctrl_state = 0
                 /\ ~PendingAfter(timed_out) /\ ~ctrl_halted'
                 /\ HasNextState(state)
  IN  /\ DecisionTimeout(timed_out)
      /\ delay_over => resume /\ moving /\ Delivered
      /\ ctrl_state' = state
      /\ ctrl_at_goal' = at_goal
      /\ ctrl_pose' = IF ~sent THEN ctrl_pose ELSE IF moving THEN "move" ELSE "reset"
      /\ ctrl_reset' = (ctrl_reset /\ ~sent)
      /\ ctrl_resume' = (resume /\ ~delay_over)
      /\ ctrl_pending' = (PendingAfter(timed_out) \/ asks)
      /\ request_topic' = IF asks THEN Append(request_topic, state + 1) ELSE request_topic
      /\ UNCHANGED <<ctrl_start, ctrl_run, entered, dashboard, starts, chaser, to_station,
                     to_chaser, station, engine, decision_topic>>

ControllerUpdate ==
  \E timed_out, arrived, delay_over \in BOOLEAN, result \in PoseResults :
    Update(timed_out, result, arrived, delay_over)

-----------------------------------------------------------------------------
(* Chaser adapter *)

AccessRequest(run) == [kind |-> "access_request", run |-> run]
TransitionRequest(k) == [kind |-> "transition_request", requested_state |-> k]
Presentation(g) == [kind |-> "entitlement_presentation", grant |-> g]

\* _start_identity_exchange
ChaserOnRun ==
  /\ Take(run_topic, "chaser")
  /\ chaser_session' = NoSession /\ presented_grants' = {}
  /\ chaser_run' = chaser_run + 1
  /\ to_station' = Append(to_station, AccessRequest(chaser_run'))
  /\ UNCHANGED <<verifier, verified, prepare_topic, dashboard, controller, request_topic,
                 to_chaser, station, engine, decision_topic>>

ChaserOnPrepare ==
  /\ Take(prepare_topic, "chaser")
  /\ chaser_session' = NoSession /\ presented_grants' = {}
  /\ UNCHANGED <<verifier, verified, chaser_run, run_topic, dashboard, controller,
                 request_topic, to_station, to_chaser, station, engine, decision_topic>>

\* _on_transition_request: forwarded whatever run and session it belongs to.
ForwardRequest ==
  /\ request_topic # << >>
  /\ to_station' = Append(to_station, TransitionRequest(Head(request_topic)))
  /\ request_topic' = Tail(request_topic)
  /\ UNCHANGED <<dashboard, starts, controller, chaser, to_chaser, station, engine,
                 decision_topic>>

\* session_authorized and session_denied
ChaserOnSession ==
  /\ to_chaser # << >>
  /\ Head(to_chaser).kind \in {"session_authorized", "session_denied"}
  /\ chaser_session' = Head(to_chaser).session
  /\ to_chaser' = Tail(to_chaser)
  /\ UNCHANGED <<presented_grants, verifier, verified, chaser_run, dashboard, starts,
                 controller, request_topic, to_station, station, engine, decision_topic>>

\* The verifier's answers to an entitlement: ok only for this session; it may
\* refuse, be dead, or be killed because its answer takes too long.
VerifierAnswers(g) ==
  (IF verifier = "up" /\ grants[g].session = chaser_session THEN {"ok"} ELSE {"refused"})
    \cup (IF "error" \in Faults THEN {"refused"} ELSE {})
    \cup (IF "timeout" \in Faults /\ verifier = "up" THEN {"killed"} ELSE {})

\* (Mutation) The chaser presents whatever the station sends.
PresentsAnything(answer) == TRUE

\* The chaser presents what its verifier accepted.
Presents(answer) == answer = "ok"

\* authorization_grant: what is not presented is dropped, and nobody is told.
ChaserOnGrant(answer) ==
  /\ to_chaser # << >> /\ Head(to_chaser).kind = "authorization_grant"
  /\ LET g == Head(to_chaser).grant IN
       /\ answer \in VerifierAnswers(g)
       /\ verifier' = IF answer = "killed" THEN "dead" ELSE verifier
       /\ verified' = IF answer = "ok" THEN verified \cup {g} ELSE verified
       /\ IF Presents(answer)
          THEN /\ presented_grants' = presented_grants \cup {g}
               /\ to_station' = Append(to_station, Presentation(g))
          ELSE UNCHANGED <<presented_grants, to_station>>
  /\ to_chaser' = Tail(to_chaser)
  /\ UNCHANGED <<chaser_session, chaser_run, dashboard, starts, controller,
                 request_topic, station, engine, decision_topic>>

\* transition_decision: the grant is forgotten; an unknown one is only logged.
ChaserOnDecision ==
  /\ to_chaser # << >> /\ Head(to_chaser).kind = "transition_decision"
  /\ presented_grants' = presented_grants \ {Head(to_chaser).grant}
  /\ to_chaser' = Tail(to_chaser)
  /\ UNCHANGED <<chaser_session, verifier, verified, chaser_run, dashboard, starts,
                 controller, request_topic, to_station, station, engine, decision_topic>>

-----------------------------------------------------------------------------
(* Station adapter *)

SessionAuthorized(s) == [kind |-> "session_authorized", session |-> s]
SessionDenied == [kind |-> "session_denied", session |-> NoSession]
AuthorizationGrant(g) == [kind |-> "authorization_grant", grant |-> g]
TransitionOutcome(g) == [kind |-> "transition_decision", grant |-> g]

\* _clear_runtime_state. The engine keeps its session.
ClearRuntimeState ==
  /\ session_ready' = FALSE
  /\ session_denied' = FALSE
  /\ station_session' = NoSession
  /\ readiness' = FALSE

StationOnRun ==
  /\ Take(run_topic, "station")
  /\ ClearRuntimeState
  /\ UNCHANGED <<prepare_topic, dashboard, controller, request_topic, chaser, to_station,
                 to_chaser, engine, decision_topic>>

StationOnPrepare ==
  /\ Take(prepare_topic, "station")
  /\ ClearRuntimeState
  /\ UNCHANGED <<run_topic, dashboard, controller, request_topic, chaser, to_station,
                 to_chaser, engine, decision_topic>>

\* The readiness monitor answers every status with evidence; _on_readiness.
StationOnReadiness ==
  /\ ~readiness
  /\ readiness' = TRUE
  /\ UNCHANGED <<session_ready, session_denied, station_session, dashboard, starts,
                 controller, request_topic, chaser, to_station, to_chaser, engine,
                 decision_topic>>

Receive(kind) ==
  /\ to_station # << >> /\ Head(to_station).kind = kind
  /\ to_station' = Tail(to_station)

\* The client kills an authority that does not answer in time; nothing starts
\* another, and what the dead one held in memory is lost.
AuthorityKilled ==
  /\ authority = "up" /\ "timeout" \in Faults
  /\ authority' = "dead"
  /\ LoseSession
  /\ UNCHANGED session_run

\* AuthorityClient.request finds the process exited.
AuthorityGone == authority = "dead" /\ UNCHANGED engine

\* _handle_access_request, and the authority establishes a session.
EstablishSession ==
  /\ Receive("access_request")
  /\ authority = "up"
  /\ Establish
  /\ session_run' = Append(session_run, Head(to_station).run)
  /\ station_session' = session' /\ session_ready' = TRUE /\ session_denied' = FALSE
  /\ to_chaser' = Append(to_chaser, SessionAuthorized(session'))
  /\ UNCHANGED <<authority, readiness, dashboard, starts, controller, request_topic,
                 chaser, decision_topic>>

\* (Mutation) A refused establishment leaves session_ready as it was.
ReadyAsBefore == session_ready

\* session_ready after an establishment that failed.
ReadyAfterFailure == FALSE

\* _handle_access_request, and the authority refuses, gives no answer in time
\* or is gone. A refusal comes after the engine has reset itself.
FailSession ==
  /\ Receive("access_request")
  /\ \/ /\ authority = "up" /\ Faults \cap {"denial", "error"} # {}
        /\ LoseSession
        /\ UNCHANGED <<authority, session_run>>
     \/ AuthorityKilled
     \/ AuthorityGone
  /\ session_ready' = ReadyAfterFailure /\ session_denied' = TRUE
  /\ to_chaser' = Append(to_chaser, SessionDenied)
  /\ UNCHANGED <<station_session, readiness, dashboard, starts, controller, request_topic,
                 chaser, decision_topic>>

\* The station's two decision messages, to the controller and to the chaser.
Publish(decision, g) ==
  /\ decision_topic' = Append(decision_topic, decision)
  /\ to_chaser' = Append(to_chaser, TransitionOutcome(g))

NoRelease == <<0, 0>>
Approval(release) ==
  [approved |-> TRUE, resulting_state |-> release[2], release |-> release]
Denial == [approved |-> FALSE, resulting_state |-> 0, release |-> NoRelease]

\* What _handle_transition_request tests before it asks the authority.
MayAsk == session_ready /\ readiness

\* _handle_transition_request, and the authority grants the stage.
GrantTransition ==
  /\ Receive("transition_request")
  /\ MayAsk /\ authority = "up"
  /\ Issue(Head(to_station).requested_state)
  /\ to_chaser' = Append(to_chaser, AuthorizationGrant(Len(grants')))
  /\ UNCHANGED <<authority, session_run, station, dashboard, starts, controller,
                 request_topic, chaser, decision_topic>>

\* The policy denies the stage: an answer, and the session goes on.
DenyTransition ==
  /\ Receive("transition_request")
  /\ MayAsk /\ authority = "up" /\ InOrder(Head(to_station).requested_state)
  /\ "denial" \in Faults
  /\ Publish(Denial, NoGrant)
  /\ UNCHANGED <<engine, station, dashboard, starts, controller, request_topic, chaser>>

\* There is no session or no readiness, or the authority answers with an error,
\* not in time or not at all: the station gives the session up.
FailTransition ==
  /\ Receive("transition_request")
  /\ \/ ~MayAsk /\ UNCHANGED engine
     \/ /\ MayAsk /\ authority = "up"
        /\ ~InOrder(Head(to_station).requested_state) \/ "error" \in Faults
        /\ UNCHANGED engine
     \/ MayAsk /\ AuthorityKilled
     \/ MayAsk /\ AuthorityGone
  /\ session_ready' = (session_ready /\ session_denied)
  /\ session_denied' = TRUE
  /\ Publish(Denial, NoGrant)
  /\ UNCHANGED <<station_session, readiness, dashboard, starts, controller, request_topic,
                 chaser>>

\* _handle_entitlement_presentation, and the authority releases the stage: the
\* entitlement is presented for its own stage.
RedeemEntitlement ==
  /\ Receive("entitlement_presentation")
  /\ readiness /\ authority = "up"
  /\ LET g == Head(to_station).grant IN
       /\ Redeem(g)
       /\ Publish(Approval(<<session, stage'>>), g)
  /\ UNCHANGED <<authority, session_run, station, dashboard, starts, controller,
                 request_topic, chaser>>

\* (Mutation) The station reports the stage it asked for as entered.
FailOpen(g) == Approval(<<grants[g].session, grants[g].stage>>)

\* The decision published when a redemption failed.
RedemptionFailed(g) == Denial

\* There is no readiness, the entitlement is refused (if it got as far as its
\* nonce, it is spent), or the authority does not answer.
RefuseEntitlement ==
  /\ Receive("entitlement_presentation")
  /\ LET g == Head(to_station).grant IN
       /\ \/ ~readiness /\ UNCHANGED engine
          \/ /\ readiness /\ authority = "up"
             /\ ~Redeemable(g) \/ Faults \cap {"denial", "error"} # {}
             /\ \/ UNCHANGED grantVars
                \/ InOrder(grants[g].stage) /\ Spend(g)
             /\ UNCHANGED <<authority, session_run>>
          \/ readiness /\ AuthorityKilled
          \/ readiness /\ AuthorityGone
       /\ Publish(RedemptionFailed(g), g)
  /\ UNCHANGED <<station, dashboard, starts, controller, request_topic, chaser>>

-----------------------------------------------------------------------------
NodesInit ==
  /\ GrantInit
  /\ asked = 0
  /\ rerun_requested = FALSE /\ prepare_requested = FALSE
  /\ run_topic = [n \in Node |-> 0] /\ prepare_topic = [n \in Node |-> 0]
  /\ ctrl_state = 0 /\ ctrl_pending = FALSE /\ ctrl_halted = TRUE
  /\ ctrl_reset = FALSE /\ ctrl_start = FALSE /\ ctrl_resume = FALSE
  /\ ctrl_pose = "none" /\ ctrl_at_goal = TRUE
  /\ chaser_session = NoSession /\ presented_grants = {}
  /\ verifier = "up" /\ authority = "up"
  /\ request_topic = << >> /\ decision_topic = << >>
  /\ to_station = << >> /\ to_chaser = << >>
  /\ session_ready = FALSE /\ session_denied = FALSE
  /\ station_session = NoSession /\ readiness = FALSE
  /\ ctrl_run = 0 /\ chaser_run = 0 /\ session_run = << >>
  /\ entered = {} /\ verified = {}

ControllerNext ==
  \/ ControllerOnRun \/ ControllerOnPrepare
  \/ EnterStage \/ RefuseDecision
  \/ ControllerUpdate

ChaserNext ==
  \/ ChaserOnRun \/ ChaserOnPrepare
  \/ ForwardRequest
  \/ ChaserOnSession \/ ChaserOnDecision
  \/ \E answer \in {"ok", "refused", "killed"} : ChaserOnGrant(answer)

StationNext ==
  \/ StationOnRun \/ StationOnPrepare \/ StationOnReadiness
  \/ EstablishSession \/ FailSession
  \/ GrantTransition \/ DenyTransition \/ FailTransition
  \/ RedeemEntitlement \/ RefuseEntitlement

NodesNext ==
  \/ RequestRerun \/ RequestPrepare \/ PublishRequestedReset
  \/ ControllerNext \/ ChaserNext \/ StationNext

NodesSpec == NodesInit /\ [][NodesNext]_nodesVars

\* Every node handles what is queued for it and the pose service answers: with
\* success in the end, and each move arrives. A timer callback that changes
\* nothing is no step, so a pending request's timeout and the end of the
\* restart delay come about as well.
ControllerProgress ==
  \E timed_out, delay_over \in BOOLEAN, result \in {"none", "success"} :
    result \in PoseResults /\ Update(timed_out, result, TRUE, delay_over)

NodesFairness ==
  /\ WF_nodesVars(PublishRequestedReset)
  /\ WF_nodesVars(ControllerOnRun) /\ WF_nodesVars(ControllerOnPrepare)
  /\ WF_nodesVars(EnterStage \/ RefuseDecision)
  /\ WF_nodesVars(ControllerProgress)
  /\ WF_nodesVars(ChaserOnRun) /\ WF_nodesVars(ChaserOnPrepare)
  /\ WF_nodesVars(ForwardRequest)
  /\ WF_nodesVars(\/ ChaserOnSession \/ ChaserOnDecision
                  \/ \E answer \in {"ok", "refused", "killed"} : ChaserOnGrant(answer))
  /\ WF_nodesVars(StationOnRun) /\ WF_nodesVars(StationOnPrepare)
  /\ WF_nodesVars(StationOnReadiness)
  /\ WF_nodesVars(\/ EstablishSession \/ FailSession
                  \/ GrantTransition \/ DenyTransition \/ FailTransition
                  \/ RedeemEntitlement \/ RefuseEntitlement)

FairNodesSpec == NodesSpec /\ NodesFairness

-----------------------------------------------------------------------------
(* Properties *)

ReleaseId == (Nat \ {0}) \X (1..LastStage)
Grant == [session : Nat \ {0}, stage : 1..LastStage]
Decision ==
  [approved : {TRUE}, resulting_state : 1..LastStage, release : ReleaseId] \cup {Denial}
ToStation ==
  [kind : {"access_request"}, run : Nat]
    \cup [kind : {"transition_request"}, requested_state : 1..LastStage]
    \cup [kind : {"entitlement_presentation"}, grant : 1..Len(grants)]
ToChaser ==
  [kind : {"session_authorized"}, session : 1..opened]
    \cup {SessionDenied}
    \cup [kind : {"authorization_grant"}, grant : 1..Len(grants)]
    \cup [kind : {"transition_decision"}, grant : 0..Len(grants)]

DashboardTypeOK ==
  /\ asked \in 0..MaxStarts
  /\ rerun_requested \in BOOLEAN /\ prepare_requested \in BOOLEAN
  /\ run_topic \in [Node -> Nat] /\ prepare_topic \in [Node -> Nat]

ControllerTypeOK ==
  /\ ctrl_state \in 0..LastStage /\ ctrl_pending \in BOOLEAN /\ ctrl_halted \in BOOLEAN
  /\ ctrl_reset \in BOOLEAN /\ ctrl_start \in BOOLEAN /\ ctrl_resume \in BOOLEAN
  /\ ctrl_pose \in {"none", "reset", "move"} /\ ctrl_at_goal \in BOOLEAN
  /\ request_topic \in Seq(1..LastStage)
  /\ ctrl_run \in Nat /\ entered \in SUBSET ReleaseId

ChaserTypeOK ==
  /\ chaser_session \in 0..opened /\ presented_grants \in SUBSET (1..Len(grants))
  /\ verifier \in {"up", "dead"} /\ to_station \in Seq(ToStation)
  /\ chaser_run \in Nat /\ verified \in SUBSET (1..Len(grants))

StationTypeOK ==
  /\ session_ready \in BOOLEAN /\ session_denied \in BOOLEAN
  /\ station_session \in 0..opened /\ readiness \in BOOLEAN
  /\ to_chaser \in Seq(ToChaser) /\ decision_topic \in Seq(Decision)

EngineTypeOK ==
  /\ stage \in 0..LastStage /\ opened \in Nat /\ session \in 0..opened
  /\ log \in SUBSET ReleaseId
  /\ authority \in {"up", "dead"}
  /\ grants \in Seq(Grant) /\ pending_grants \in SUBSET (1..Len(grants))
  /\ session_run \in Seq(Nat) /\ Len(session_run) = opened

\* Types of the nodes' fields, of the messages on their way and of the
\* histories: the grant a message names has been issued, the session it names
\* has been opened.
NodesTypeOK ==
  /\ DashboardTypeOK /\ ControllerTypeOK /\ ChaserTypeOK /\ StationTypeOK /\ EngineTypeOK

\* The controller trusts an approval because of the stage it names and nothing
\* else. Each stage it enters has still been released by the engine, and each
\* release moves it at most once, whatever is late, refused or timed out.
EntriesBacked ==
  [][EnterStage => Head(decision_topic).release \in log \ entered]_nodesVars

\* Once halted, by a denial or by its decision timeout, the controller enters
\* no stage before it is told to start again: an approval that comes after the
\* timeout is ignored.
HaltHolds == [][ctrl_state' > ctrl_state => ~ctrl_halted]_nodesVars

\* Engine, adapters and controller together, seen as the chaser behind its gate.
Promise == INSTANCE DockingPromise WITH
  position <- ctrl_state, halted <- ctrl_halted, runs <- ctrl_run, spent <- entered

\* The nodes keep the promise: through lost sessions, dead processes, late and
\* unawaited decisions, resets and timeouts, every step of theirs moves chaser
\* and gate as the promise allows, or neither.
ImplementsPromise == Promise!PromiseSpec

\* While the station holds its session to be authorized, it is the session of
\* the engine (or the engine is gone): a session that was cleared, denied or
\* failed leaves no station that goes on asking for stages.
StationInStep ==
  session_ready => authority = "dead" \/ (session # NoSession /\ station_session = session)

\* docs/access-protocol-flows.md, mandatory invariant 6: the client verifies the
\* signed entitlement of every transition. Every stage released was granted
\* to the chaser, and its verifier accepted the grant before the redemption.
ReleasesVerified ==
  \A release \in log :
    \E g \in verified : grants[g] = [session |-> release[1], stage |-> release[2]]

\* The chaser drops what it cannot verify and a dead authority is not replaced,
\* so the answer the controller waits for may never come. All the same every
\* run ends, docked or halted, because of the controller's own timeout.
RunSettles == <>[](ctrl_halted \/ ctrl_state = LastStage)

\* docs/access-protocol-flows.md, mandatory invariant 2: "Bind every
\* authorization decision to audience, session, requester, and time." Read as:
\* no decision from the session of an earlier run moves the controller in the
\* run it is in.
DecisionOfThisRun ==
  [][EnterStage => session_run[Head(decision_topic).release[1]] >= ctrl_run]_nodesVars

\* README.md: "Select **Start simulation** in the dashboard to reset the chaser
\* and authority session and begin the selected scenario." Read as: with
\* nothing failing and nothing slow, the one run asked for leaves Hold.
RunBegins == rerun_requested ~> ctrl_state > 0
=============================================================================
