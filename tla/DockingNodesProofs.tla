------------------------- MODULE DockingNodesProofs -------------------------
(***************************************************************************)
(* What holds of the nodes whatever is late, refused, killed or lost, for  *)
(* every number of stages, starts, sessions, grants and queued messages.   *)
(***************************************************************************)
EXTENDS DockingNodes, TLAPS

-----------------------------------------------------------------------------
(* Queues *)

\* Taking the head of a queue keeps its type and shifts its positions.
LEMMA TailOfQueue ==
  ASSUME NEW S, NEW q \in Seq(S), q # << >>
  PROVE  /\ Head(q) \in S /\ Head(q) = q[1]
         /\ Tail(q) \in Seq(S) /\ Len(Tail(q)) = Len(q) - 1
         /\ \A i \in 1..Len(Tail(q)) : i + 1 \in 1..Len(q) /\ Tail(q)[i] = q[i + 1]
  OBVIOUS

\* Appending to a queue keeps its type and its positions.
LEMMA AppendToQueue ==
  ASSUME NEW S, NEW q \in Seq(S), NEW e \in S
  PROVE  /\ Append(q, e) \in Seq(S) /\ Len(Append(q, e)) = Len(q) + 1
         /\ \A i \in 1..Len(q) : Append(q, e)[i] = q[i]
         /\ Append(q, e)[Len(q) + 1] = e
  OBVIOUS

\* A queue of messages is also a queue of more messages.
LEMMA WiderQueue ==
  ASSUME NEW S, NEW T, S \subseteq T, NEW q \in Seq(S)
  PROVE  q \in Seq(T)
  OBVIOUS

-----------------------------------------------------------------------------
(* What each node leaves alone *)

DashboardNext == RequestRerun \/ RequestPrepare \/ PublishRequestedReset

LEMMA DashboardFrame ==
  ASSUME DashboardNext
  PROVE  UNCHANGED <<controller, request_topic, chaser, to_station, to_chaser, station,
                     engine, decision_topic>>
  BY DEF DashboardNext, RequestRerun, RequestPrepare, PublishRequestedReset

LEMMA UpdateFrame ==
  ASSUME ControllerUpdate
  PROVE  UNCHANGED <<dashboard, starts, chaser, to_station, to_chaser, station, engine>>
  <1>1. PICK timed_out \in BOOLEAN, arrived \in BOOLEAN, delay_over \in BOOLEAN,
             result \in PoseResults : Update(timed_out, result, arrived, delay_over)
    BY Zenon DEF ControllerUpdate
  <1> QED
    BY <1>1, Zenon DEF Update

LEMMA ControllerFrame ==
  ASSUME ControllerNext
  PROVE  UNCHANGED <<dashboard, chaser, to_station, to_chaser, station, engine>>
  BY UpdateFrame DEF ControllerNext, ControllerOnRun, ControllerOnPrepare, EnterStage,
                     RefuseDecision

LEMMA ChaserFrame ==
  ASSUME ChaserNext
  PROVE  UNCHANGED <<dashboard, controller, station, engine, decision_topic>>
  BY DEF ChaserNext, ChaserOnRun, ChaserOnPrepare, ForwardRequest, ChaserOnSession,
         ChaserOnGrant, ChaserOnDecision

LEMMA StationFrame ==
  ASSUME StationNext
  PROVE  UNCHANGED <<dashboard, controller, request_topic, chaser>>
  BY DEF StationNext, StationOnRun, StationOnPrepare, StationOnReadiness, EstablishSession,
         FailSession, GrantTransition, DenyTransition, FailTransition, RedeemEntitlement,
         RefuseEntitlement

-----------------------------------------------------------------------------
(* Types *)

\* A start message taken from its queue leaves a queue.
LEMMA TakeTyped ==
  ASSUME NEW topic \in [Node -> Nat], NEW topicNext, NEW n \in Node, topic[n] > 0,
         topicNext = [topic EXCEPT ![n] = @ - 1]
  PROVE  topicNext \in [Node -> Nat]
  OBVIOUS

LEMMA StartsTyped ==
  ASSUME DashboardTypeOK, DashboardNext \/ ControllerNext \/ ChaserNext \/ StationNext
  PROVE  DashboardTypeOK'
<1> USE DEF DashboardTypeOK
<1> SUFFICES ASSUME ~DashboardNext
             PROVE  DashboardTypeOK'
  <2>1. CASE RequestRerun
    BY <2>1, NodesAssumption DEF RequestRerun, starts
  <2>2. CASE RequestPrepare
    BY <2>2, NodesAssumption DEF RequestPrepare, starts
  <2>3. CASE PublishRequestedReset
    <3>1. Published(run_topic) \in [Node -> Nat] /\ Published(prepare_topic) \in [Node -> Nat]
      BY DEF Published
    <3>2. run_topic' \in [Node -> Nat] /\ prepare_topic' \in [Node -> Nat]
      BY <2>3, <3>1 DEF PublishRequestedReset
    <3>3. asked' = asked /\ rerun_requested' = FALSE /\ prepare_requested' = FALSE
      BY <2>3 DEF PublishRequestedReset
    <3> QED
      BY <3>2, <3>3
  <2> QED
    BY <2>1, <2>2, <2>3 DEF DashboardNext
<1>1. UNCHANGED dashboard
  BY ControllerFrame, ChaserFrame, StationFrame
<1>2. /\ run_topic' = run_topic \/ \E n \in Node : Take(run_topic, n)
      /\ prepare_topic' = prepare_topic \/ \E n \in Node : Take(prepare_topic, n)
  <2>1. CASE ControllerNext
    <3>1. CASE ControllerOnRun \/ ControllerOnPrepare
      BY <3>1 DEF ControllerOnRun, ControllerOnPrepare, Node
    <3>2. CASE EnterStage \/ RefuseDecision \/ ControllerUpdate
      <4>1. UNCHANGED starts
        BY <3>2, UpdateFrame DEF EnterStage, RefuseDecision
      <4> QED
        BY <4>1 DEF starts
    <3> QED
      BY <2>1, <3>1, <3>2 DEF ControllerNext
  <2>2. CASE ChaserNext
    BY <2>2 DEF ChaserNext, ChaserOnRun, ChaserOnPrepare, ForwardRequest, ChaserOnSession,
                ChaserOnGrant, ChaserOnDecision, starts, Node
  <2>3. CASE StationNext
    BY <2>3 DEF StationNext, StationOnRun, StationOnPrepare, StationOnReadiness,
                EstablishSession, FailSession, GrantTransition, DenyTransition,
                FailTransition, RedeemEntitlement, RefuseEntitlement, starts, Node
  <2> QED
    BY <2>1, <2>2, <2>3
<1>3. run_topic' \in [Node -> Nat]
  BY <1>2, TakeTyped DEF Take
<1>4. prepare_topic' \in [Node -> Nat]
  BY <1>2, TakeTyped DEF Take
<1> QED
  BY <1>1, <1>3, <1>4 DEF dashboard

\* The state after any but the last is a stage.
LEMMA NextInRange ==
  ASSUME NEW n \in 0..LastStage, n < LastStage
  PROVE  n + 1 \in 1..LastStage
  BY NodesAssumption

\* Only a denial carries no release.
LEMMA ApprovalTyped ==
  ASSUME NEW d \in Decision, d.approved
  PROVE  d.release \in ReleaseId
<1>1. CASE d \in [approved : {TRUE}, resulting_state : 1..LastStage, release : ReleaseId]
  BY <1>1
<1>2. CASE d = Denial
  BY <1>2 DEF Denial
<1> QED
  BY <1>1, <1>2 DEF Decision

\* The controller's steps keep its types.
LEMMA ControllerTyped ==
  ASSUME NodesTypeOK, ControllerNext
  PROVE  ControllerTypeOK' /\ decision_topic' \in Seq(Decision)
<1> USE NodesAssumption DEF NodesTypeOK, ControllerTypeOK, StationTypeOK
<1>1. ASSUME NEW start \in BOOLEAN, RequestReset(start),
             ctrl_run' \in {ctrl_run, ctrl_run + 1}, UNCHANGED <<request_topic, decision_topic>>
      PROVE  ControllerTypeOK' /\ decision_topic' \in Seq(Decision)
  <2>1. /\ ctrl_reset' = TRUE /\ ctrl_start' = start /\ ctrl_halted' = ~start
        /\ ctrl_pending' = FALSE /\ ctrl_resume' = FALSE
        /\ UNCHANGED <<ctrl_state, ctrl_pose, ctrl_at_goal, entered>>
    BY <1>1 DEF RequestReset
  <2>2. ctrl_halted' \in BOOLEAN /\ ctrl_start' \in BOOLEAN
    BY <2>1
  <2>3. ctrl_run' \in Nat
    BY <1>1
  <2> QED
    BY <1>1, <2>1, <2>2, <2>3
<1>2. CASE EnterStage
  <2> DEFINE d == Head(decision_topic)
  <2>1. d \in Decision /\ Tail(decision_topic) \in Seq(Decision)
    BY <1>2, TailOfQueue DEF EnterStage
  <2>2. /\ d.approved /\ IsNextState(ctrl_state, d.resulting_state)
        /\ ctrl_state' = d.resulting_state /\ entered' = entered \cup {d.release}
        /\ decision_topic' = Tail(decision_topic)
        /\ ctrl_at_goal' = FALSE /\ ctrl_pending' = FALSE
        /\ UNCHANGED <<ctrl_halted, ctrl_reset, ctrl_start, ctrl_resume, ctrl_pose, ctrl_run,
                       request_topic>>
    BY <1>2 DEF EnterStage
  <2>3. d.release \in ReleaseId
    BY <2>1, <2>2, ApprovalTyped
  <2>4. ctrl_state' \in 0..LastStage
    BY <2>2 DEF IsNextState
  <2>5. entered' \in SUBSET ReleaseId
    BY <2>2, <2>3
  <2> QED
    BY <2>1, <2>2, <2>4, <2>5
<1>3. CASE RefuseDecision
  <2>1. Tail(decision_topic) \in Seq(Decision)
    BY <1>3, TailOfQueue DEF RefuseDecision
  <2> QED
    BY <1>3, <2>1 DEF RefuseDecision
<1>4. CASE ControllerUpdate
  <2> PICK timed_out \in BOOLEAN, arrived \in BOOLEAN, delay_over \in BOOLEAN,
           result \in PoseResults : Update(timed_out, result, arrived, delay_over)
    BY <1>4 DEF ControllerUpdate
  <2>1. ctrl_state' \in 0..LastStage
    BY DEF Update
  <2>2. request_topic' \in Seq(1..LastStage)
    <3>1. CASE UNCHANGED request_topic
      BY <3>1
    <3>2. CASE ctrl_state' < LastStage /\ request_topic' = Append(request_topic, ctrl_state' + 1)
      <4>1. ctrl_state' + 1 \in 1..LastStage
        BY <2>1, <3>2, NextInRange
      <4> HIDE DEF NodesTypeOK, StationTypeOK
      <4>2. request_topic \in Seq(1..LastStage)
        BY DEF NodesTypeOK
      <4> QED
        BY <3>2, <4>1, <4>2, AppendToQueue
    <3> QED
      BY <3>1, <3>2 DEF Update, HasNextState
  <2>3. ctrl_halted' \in BOOLEAN /\ ctrl_pending' \in BOOLEAN /\ ctrl_at_goal' \in BOOLEAN
    BY DEF Update, DecisionTimeout
  <2>4. /\ ctrl_reset' \in BOOLEAN /\ ctrl_resume' \in BOOLEAN /\ ctrl_start' \in BOOLEAN
        /\ ctrl_pose' \in {"none", "reset", "move"}
    BY DEF Update
  <2> QED
    BY <2>1, <2>2, <2>3, <2>4 DEF Update
<1>5. CASE ControllerOnRun
  <2>1. RequestReset(TRUE) /\ ctrl_run' = ctrl_run + 1 /\ UNCHANGED <<request_topic, decision_topic>>
    BY <1>5 DEF ControllerOnRun
  <2> QED
    BY <1>1, <2>1
<1>6. CASE ControllerOnPrepare
  <2>1. RequestReset(FALSE) /\ ctrl_run' = ctrl_run /\ UNCHANGED <<request_topic, decision_topic>>
    BY <1>6 DEF ControllerOnPrepare
  <2> QED
    BY <1>1, <2>1
<1> QED
  BY <1>2, <1>3, <1>4, <1>5, <1>6 DEF ControllerNext

\* What the messages to the station and to the chaser carry.
LEMMA StationMessage ==
  /\ \A n \in Nat : AccessRequest(n) \in ToStation
  /\ \A k \in 1..LastStage : TransitionRequest(k) \in ToStation
  /\ \A g \in 1..Len(grants) : Presentation(g) \in ToStation
  BY DEF ToStation, AccessRequest, TransitionRequest, Presentation

LEMMA FromChaser ==
  ASSUME NEW m \in ToStation
  PROVE  /\ m.kind = "access_request" => m.run \in Nat
         /\ m.kind = "transition_request" => m.requested_state \in 1..LastStage
         /\ m.kind = "entitlement_presentation" => m.grant \in 1..Len(grants)
  BY DEF ToStation

LEMMA FromStation ==
  ASSUME NEW m \in ToChaser, opened \in Nat
  PROVE  /\ m.kind \in {"session_authorized", "session_denied"} => m.session \in 0..opened
         /\ m.kind = "authorization_grant" => m.grant \in 1..Len(grants)
  BY DEF ToChaser, SessionDenied, NoSession

\* The chaser's steps keep its types.
LEMMA ChaserTyped ==
  ASSUME NodesTypeOK, ChaserNext
  PROVE  /\ ChaserTypeOK'
         /\ request_topic' \in Seq(1..LastStage)
         /\ (to_chaser \in Seq(ToChaser))'
<1> DEFINE G == 1..Len(grants)
<1>0. UNCHANGED <<opened, grants>>
  BY ChaserFrame DEF engine, grantVars, gateVars
<1>1. UNCHANGED <<ToStation, ToChaser>>
  BY <1>0 DEF ToStation, ToChaser
<1>2. /\ opened \in Nat
      /\ chaser_session \in 0..opened /\ presented_grants \in SUBSET G
      /\ verifier \in {"up", "dead"} /\ to_station \in Seq(ToStation)
      /\ chaser_run \in Nat /\ verified \in SUBSET G
      /\ request_topic \in Seq(1..LastStage) /\ to_chaser \in Seq(ToChaser)
  BY DEF NodesTypeOK, ChaserTypeOK, ControllerTypeOK, StationTypeOK, EngineTypeOK
<1>3. SUFFICES /\ chaser_session' \in 0..opened /\ presented_grants' \in SUBSET G
               /\ verifier' \in {"up", "dead"} /\ to_station' \in Seq(ToStation)
               /\ chaser_run' \in Nat /\ verified' \in SUBSET G
               /\ request_topic' \in Seq(1..LastStage) /\ to_chaser' \in Seq(ToChaser)
  BY <1>0, <1>1 DEF ChaserTypeOK
<1>4. to_chaser # << >> =>
        /\ Tail(to_chaser) \in Seq(ToChaser)
        /\ Head(to_chaser).kind \in {"session_authorized", "session_denied"} =>
             Head(to_chaser).session \in 0..opened
        /\ Head(to_chaser).kind = "authorization_grant" => Head(to_chaser).grant \in G
  BY <1>2, TailOfQueue, FromStation
<1> HIDE DEF G
<1>5. CASE ChaserOnRun
  <2>1. chaser_run' \in Nat /\ to_station' = Append(to_station, AccessRequest(chaser_run'))
    BY <1>2, <1>5 DEF ChaserOnRun
  <2>2. to_station' \in Seq(ToStation)
    BY <1>2, <2>1, AppendToQueue, StationMessage
  <2> QED
    BY <1>2, <1>5, <2>1, <2>2 DEF ChaserOnRun, NoSession
<1>6. CASE ChaserOnPrepare
  BY <1>2, <1>6 DEF ChaserOnPrepare, NoSession
<1>7. CASE ForwardRequest
  <2>1. Head(request_topic) \in 1..LastStage /\ Tail(request_topic) \in Seq(1..LastStage)
    BY <1>2, <1>7, TailOfQueue DEF ForwardRequest
  <2>2. Append(to_station, TransitionRequest(Head(request_topic))) \in Seq(ToStation)
    BY <1>2, <2>1, AppendToQueue, StationMessage
  <2> QED
    BY <1>2, <1>7, <2>1, <2>2 DEF ForwardRequest, chaser
<1>8. CASE ChaserOnSession
  BY <1>2, <1>4, <1>8 DEF ChaserOnSession
<1>9. CASE ChaserOnDecision
  BY <1>2, <1>4, <1>9 DEF ChaserOnDecision
<1>10. ASSUME NEW answer, ChaserOnGrant(answer)
       PROVE  /\ chaser_session' \in 0..opened /\ presented_grants' \in SUBSET G
              /\ verifier' \in {"up", "dead"} /\ to_station' \in Seq(ToStation)
              /\ chaser_run' \in Nat /\ verified' \in SUBSET G
              /\ request_topic' \in Seq(1..LastStage) /\ to_chaser' \in Seq(ToChaser)
  <2> DEFINE g == Head(to_chaser).grant
  <2>1. g \in G /\ to_chaser' \in Seq(ToChaser)
    BY <1>4, <1>10 DEF ChaserOnGrant
  <2>2. Append(to_station, Presentation(g)) \in Seq(ToStation)
    BY <1>2, <2>1, AppendToQueue, StationMessage DEF G
  <2> QED
    BY <1>2, <1>10, <2>1, <2>2 DEF ChaserOnGrant
<1> QED
  BY <1>5, <1>6, <1>7, <1>8, <1>9, <1>10 DEF ChaserNext

\* The engine issues and opens more; it forgets no grant and no release.
EngineGrows ==
  /\ opened <= opened' /\ Len(grants) <= Len(grants')
  /\ \A g \in 1..Len(grants) : grants'[g] = grants[g]
  /\ log \subseteq log'

\* Ways in which the engine takes part in a step of the station.
LEMMA EngineRests ==
  ASSUME EngineTypeOK, UNCHANGED engine
  PROVE  EngineTypeOK' /\ EngineGrows
  BY DEF EngineTypeOK, EngineGrows, engine, grantVars, gateVars

LEMMA EngineLosesSession ==
  ASSUME EngineTypeOK, CloseSession, authority' \in {"up", "dead"}, pending_grants' = {},
         UNCHANGED <<grants, session_run>>
  PROVE  EngineTypeOK' /\ EngineGrows
  BY NodesAssumption DEF EngineTypeOK, EngineGrows, CloseSession

LEMMA EngineDropsGrant ==
  ASSUME EngineTypeOK, pending_grants' \subseteq pending_grants,
         UNCHANGED <<gateVars, authority, grants, session_run>>
  PROVE  EngineTypeOK' /\ EngineGrows
  BY DEF EngineTypeOK, EngineGrows, gateVars

\* A new number extends the numbers in use.
LEMMA OneMore ==
  ASSUME NEW n \in Nat, NEW P \in SUBSET (1..n)
  PROVE  P \cup {n + 1} \in SUBSET (1..(n + 1))
<1>1. ASSUME NEW i \in P
      PROVE  i \in 1..(n + 1)
  <2>1. i \in 1..n
    OBVIOUS
  <2> QED
    BY <2>1
<1>2. n + 1 \in 1..(n + 1)
  OBVIOUS
<1> QED
  BY <1>1, <1>2

\* The engine's types, and that it only grows, whatever the station does.
LEMMA EngineTyped ==
  ASSUME EngineTypeOK, NodesTypeOK, StationNext
  PROVE  EngineTypeOK' /\ EngineGrows
<1>1. CASE UNCHANGED engine
  BY <1>1, EngineRests
<1>2. CASE AuthorityKilled
  BY <1>2, EngineLosesSession DEF AuthorityKilled, LoseSession
<1>3. CASE EstablishSession
  <2>1. /\ opened' = opened + 1 /\ session' = opened' /\ stage' = 0
        /\ pending_grants' = {} /\ UNCHANGED <<log, authority, grants>>
        /\ session_run' = Append(session_run, Head(to_station).run)
    BY <1>3 DEF EstablishSession, Establish, OpenSession
  <2>2. Head(to_station).run \in Nat
    BY <1>3, TailOfQueue, FromChaser DEF EstablishSession, Receive, NodesTypeOK, ChaserTypeOK
  <2>3. session_run' \in Seq(Nat) /\ Len(session_run') = opened'
    BY <2>1, <2>2, AppendToQueue DEF EngineTypeOK
  <2> QED
    BY <2>1, <2>3, NodesAssumption DEF EngineTypeOK, EngineGrows
<1>4. CASE GrantTransition
  <2>1. /\ grants' = Append(grants, [session |-> session, stage |-> stage + 1])
        /\ pending_grants' = pending_grants \cup {Len(grants) + 1}
        /\ UNCHANGED <<stage, session, opened, log, authority, session_run>>
        /\ session # 0 /\ stage < LastStage
    BY <1>4 DEF GrantTransition, Issue, InOrder, NoSession, gateVars
  <2>2. [session |-> session, stage |-> stage + 1] \in Grant
    BY <2>1, NodesAssumption DEF EngineTypeOK, Grant
  <2>3. /\ grants' \in Seq(Grant) /\ Len(grants') = Len(grants) + 1 /\ Len(grants) \in Nat
        /\ \A g \in 1..Len(grants) : grants'[g] = grants[g]
    BY <2>1, <2>2, AppendToQueue DEF EngineTypeOK
  <2>4. pending_grants' \in SUBSET (1..Len(grants'))
    <3>1. pending_grants \in SUBSET (1..Len(grants))
      BY DEF EngineTypeOK
    <3>2. pending_grants' = pending_grants \cup {Len(grants) + 1}
      BY <2>1
    <3>3. pending_grants' \in SUBSET (1..(Len(grants) + 1))
      BY <2>3, <3>1, <3>2, OneMore
    <3> QED
      BY <2>3, <3>3
  <2> QED
    BY <2>1, <2>3, <2>4 DEF EngineTypeOK, EngineGrows
<1>5. CASE RedeemEntitlement
  <2>1. /\ session # 0 /\ stage < LastStage /\ stage' = stage + 1
        /\ log' = log \cup {<<session, stage + 1>>}
        /\ pending_grants' \subseteq pending_grants
        /\ UNCHANGED <<session, opened, authority, grants, session_run>>
    <3>1. Release /\ UNCHANGED <<authority, grants, session_run>>
      BY <1>5 DEF RedeemEntitlement, Redeem
    <3>2. pending_grants' \subseteq pending_grants
      BY <1>5 DEF RedeemEntitlement, Redeem
    <3> QED
      BY <3>1, <3>2 DEF Release
  <2>2. stage + 1 \in 1..LastStage /\ session \in Nat \ {0}
    BY <2>1, NodesAssumption DEF EngineTypeOK
  <2>3. <<session, stage + 1>> \in ReleaseId
    BY <2>2 DEF ReleaseId
  <2>4. log' \in SUBSET ReleaseId
    BY <2>1, <2>3 DEF EngineTypeOK
  <2>5. stage' \in 0..LastStage /\ Len(grants) \in Nat /\ opened \in Nat
    BY <2>1, <2>2, NodesAssumption DEF EngineTypeOK
  <2> QED
    BY <2>1, <2>4, <2>5 DEF EngineTypeOK, EngineGrows
<1>6. CASE FailSession /\ ~AuthorityKilled /\ ~UNCHANGED engine
  <2>1. /\ CloseSession /\ pending_grants' = {}
        /\ UNCHANGED <<authority, grants, session_run>>
    BY <1>6 DEF FailSession, AuthorityGone, LoseSession
  <2> QED
    BY <2>1, EngineLosesSession DEF EngineTypeOK
<1>7. CASE RefuseEntitlement /\ ~AuthorityKilled /\ ~UNCHANGED engine
  <2>1. /\ pending_grants' \subseteq pending_grants
        /\ UNCHANGED <<gateVars, authority, grants, session_run>>
    BY <1>7 DEF RefuseEntitlement, AuthorityGone, Spend, engine, grantVars
  <2> QED
    BY <2>1, EngineDropsGrant
<1>8. CASE StationOnRun \/ StationOnPrepare \/ StationOnReadiness \/ DenyTransition
  BY <1>1, <1>8 DEF StationOnRun, StationOnPrepare, StationOnReadiness, DenyTransition
<1>9. CASE FailTransition
  BY <1>1, <1>2, <1>9 DEF FailTransition, AuthorityGone
<1> QED
  BY <1>1, <1>2, <1>3, <1>4, <1>5, <1>6, <1>7, <1>8, <1>9 DEF StationNext

\* A decision goes to the controller and the outcome to the chaser.
LEMMA PublishTyped ==
  ASSUME StationTypeOK, EngineTypeOK, EngineTypeOK', EngineGrows,
         NEW decision \in Decision, NEW g \in 0..Len(grants), Publish(decision, g)
  PROVE  decision_topic' \in Seq(Decision) /\ (to_chaser \in Seq(ToChaser))'
<1>1. decision_topic' \in Seq(Decision)
  BY AppendToQueue DEF Publish, StationTypeOK
<1>2. TransitionOutcome(g) \in ToChaser /\ to_chaser \in Seq(ToChaser)
  BY DEF TransitionOutcome, ToChaser, StationTypeOK
<1>3. to_chaser' \in Seq(ToChaser)
  BY <1>2, AppendToQueue DEF Publish
<1>4. ToChaser \subseteq ToChaser'
  BY DEF ToChaser, EngineTypeOK, EngineGrows
<1> QED
  BY <1>1, <1>3, <1>4, WiderQueue

\* The station's steps keep its types and those of what it reads.
LEMMA StationTyped ==
  ASSUME NodesTypeOK, StationNext
  PROVE  StationTypeOK' /\ (to_station \in Seq(ToStation))'
<1>1. EngineTypeOK /\ EngineTypeOK' /\ EngineGrows
  BY EngineTyped DEF NodesTypeOK
<1>2. ToStation \subseteq ToStation' /\ ToChaser \subseteq ToChaser'
  BY <1>1 DEF ToStation, ToChaser, EngineTypeOK, EngineGrows
<1>3. to_station' = to_station \/ (to_station # << >> /\ to_station' = Tail(to_station))
  BY DEF StationNext, StationOnRun, StationOnPrepare, StationOnReadiness, EstablishSession,
         FailSession, GrantTransition, DenyTransition, FailTransition, RedeemEntitlement,
         RefuseEntitlement, Receive
<1>4. to_station \in Seq(ToStation)
  BY DEF NodesTypeOK, ChaserTypeOK
<1>5. (to_station \in Seq(ToStation))'
  <2>1. to_station' \in Seq(ToStation)
    BY <1>3, <1>4, TailOfQueue
  <2> QED
    BY <1>2, <2>1, WiderQueue
<1>6. /\ session_ready \in BOOLEAN /\ session_denied \in BOOLEAN /\ readiness \in BOOLEAN
      /\ station_session \in 0..opened /\ opened \in Nat
      /\ to_chaser \in Seq(ToChaser) /\ decision_topic \in Seq(Decision)
  BY DEF NodesTypeOK, StationTypeOK, EngineTypeOK
<1>7. station_session \in 0..opened' /\ (to_chaser \in Seq(ToChaser')) /\ opened' \in Nat
  BY <1>1, <1>2, <1>6, WiderQueue DEF EngineTypeOK, EngineGrows
<1> DEFINE Typed == /\ session_ready' \in BOOLEAN /\ session_denied' \in BOOLEAN
                    /\ station_session' \in 0..opened' /\ readiness' \in BOOLEAN
                    /\ to_chaser' \in Seq(ToChaser') /\ decision_topic' \in Seq(Decision)
<1>0. SUFFICES Typed
  BY <1>5 DEF StationTypeOK
<1>8. CASE StationOnRun \/ StationOnPrepare
  <2>1. ClearRuntimeState /\ UNCHANGED <<to_chaser, decision_topic>>
    BY <1>8 DEF StationOnRun, StationOnPrepare
  <2>2. /\ session_ready' = FALSE /\ session_denied' = FALSE
        /\ station_session' = 0 /\ readiness' = FALSE
    BY <2>1 DEF ClearRuntimeState, NoSession
  <2>3. station_session' \in 0..opened'
    BY <1>7, <2>2
  <2> QED
    BY <1>6, <1>7, <2>1, <2>2, <2>3
<1>9. CASE StationOnReadiness
  BY <1>6, <1>7, <1>9 DEF StationOnReadiness
<1>10. CASE EstablishSession
  <2>1. /\ station_session' = opened' /\ opened' = opened + 1
        /\ session_ready' = TRUE /\ session_denied' = FALSE
        /\ UNCHANGED <<readiness, decision_topic>>
        /\ to_chaser' = Append(to_chaser, SessionAuthorized(opened'))
    BY <1>10 DEF EstablishSession, Establish, OpenSession
  <2>2. SessionAuthorized(opened') \in ToChaser'
    BY <1>6, <2>1 DEF SessionAuthorized, ToChaser
  <2>3. to_chaser' \in Seq(ToChaser')
    BY <1>7, <2>1, <2>2, AppendToQueue
  <2>4. station_session' \in 0..opened'
    BY <1>7, <2>1
  <2> QED
    BY <1>6, <2>1, <2>3, <2>4
<1>11. CASE FailSession
  <2>1. /\ session_ready' = FALSE /\ session_denied' = TRUE
        /\ UNCHANGED <<station_session, readiness, decision_topic>>
        /\ to_chaser' = Append(to_chaser, SessionDenied)
    BY <1>11 DEF FailSession, ReadyAfterFailure
  <2>2. SessionDenied \in ToChaser'
    BY DEF SessionDenied, ToChaser
  <2>3. to_chaser' \in Seq(ToChaser')
    BY <1>7, <2>1, <2>2, AppendToQueue
  <2> QED
    BY <1>6, <1>7, <2>1, <2>3
<1>12. CASE GrantTransition
  <2>1. /\ grants' = Append(grants, [session |-> session, stage |-> stage + 1])
        /\ to_chaser' = Append(to_chaser, AuthorizationGrant(Len(grants')))
        /\ UNCHANGED <<station, decision_topic>>
    BY <1>12 DEF GrantTransition, Issue, InOrder
  <2>2. Len(grants') \in 1..Len(grants')
    BY <1>1, <2>1 DEF EngineTypeOK
  <2>3. AuthorizationGrant(Len(grants')) \in ToChaser'
    BY <2>2 DEF AuthorizationGrant, ToChaser
  <2>4. to_chaser' \in Seq(ToChaser')
    BY <1>7, <2>1, <2>3, AppendToQueue
  <2> QED
    BY <1>6, <1>7, <2>1, <2>4 DEF station
<1>13. Denial \in Decision /\ NoGrant \in 0..Len(grants)
  BY <1>1 DEF Decision, NoGrant, EngineTypeOK
<1>14. CASE DenyTransition
  <2>1. Publish(Denial, NoGrant) /\ UNCHANGED station
    BY <1>14 DEF DenyTransition
  <2>2. decision_topic' \in Seq(Decision) /\ to_chaser' \in Seq(ToChaser')
    BY <1>1, <1>13, <2>1, PublishTyped DEF NodesTypeOK
  <2> QED
    BY <1>6, <1>7, <2>1, <2>2 DEF station
<1>15. CASE FailTransition
  <2>1. /\ Publish(Denial, NoGrant) /\ session_ready' = (session_ready /\ session_denied)
        /\ session_denied' = TRUE /\ UNCHANGED <<station_session, readiness>>
    BY <1>15 DEF FailTransition
  <2>2. decision_topic' \in Seq(Decision) /\ to_chaser' \in Seq(ToChaser')
    BY <1>1, <1>13, <2>1, PublishTyped DEF NodesTypeOK
  <2>3. session_ready' \in BOOLEAN
    BY <2>1
  <2> QED
    BY <1>6, <1>7, <2>1, <2>2, <2>3
<1>16. CASE RedeemEntitlement \/ RefuseEntitlement
  <2> DEFINE g == Head(to_station).grant
  <2>1. g \in 1..Len(grants)
    BY <1>4, <1>16, TailOfQueue, FromChaser DEF RedeemEntitlement, RefuseEntitlement, Receive
  <2>2. g \in 0..Len(grants)
    BY <2>1
  <2>3. PICK decision \in Decision : Publish(decision, g)
    <3>1. CASE RedeemEntitlement
      <4>1. /\ Publish(Approval(<<session, stage'>>), g)
            /\ stage' = stage + 1 /\ session # 0 /\ stage < LastStage
        BY <3>1 DEF RedeemEntitlement, Redeem, Release
      <4>2. stage' \in 1..LastStage /\ session \in Nat \ {0}
        BY <1>1, <4>1, NodesAssumption DEF EngineTypeOK
      <4>3. Approval(<<session, stage'>>) \in Decision
        BY <4>2 DEF Approval, Decision, ReleaseId
      <4> QED
        BY <4>1, <4>3
    <3>2. CASE RefuseEntitlement
      BY <1>13, <3>2 DEF RefuseEntitlement, RedemptionFailed
    <3> QED
      BY <1>16, <3>1, <3>2
  <2>4. decision_topic' \in Seq(Decision) /\ to_chaser' \in Seq(ToChaser')
    BY <1>1, <2>2, <2>3, PublishTyped DEF NodesTypeOK
  <2>5. UNCHANGED station
    BY <1>16 DEF RedeemEntitlement, RefuseEntitlement
  <2> QED
    BY <1>6, <1>7, <2>4, <2>5 DEF station
<1> QED
  BY <1>5, <1>8, <1>9, <1>10, <1>11, <1>12, <1>14, <1>15, <1>16 DEF StationNext

\* What a node leaves alone keeps its types.
LEMMA RestTyped ==
  ASSUME NodesTypeOK
  PROVE  /\ UNCHANGED <<controller, request_topic>> => ControllerTypeOK'
         /\ UNCHANGED controller /\ request_topic' \in Seq(1..LastStage) => ControllerTypeOK'
         /\ UNCHANGED <<chaser, to_station, engine>> => ChaserTypeOK'
         /\ UNCHANGED chaser /\ (to_station \in Seq(ToStation))' /\ EngineGrows /\ EngineTypeOK'
              => ChaserTypeOK'
         /\ UNCHANGED <<station, to_chaser, engine>> /\ decision_topic' \in Seq(Decision)
              => StationTypeOK'
         /\ UNCHANGED <<station, engine, decision_topic>> /\ (to_chaser \in Seq(ToChaser))'
              => StationTypeOK'
         /\ UNCHANGED engine => EngineTypeOK'
<1> USE DEF NodesTypeOK
<1>1. UNCHANGED engine => UNCHANGED <<opened, grants, ToStation, ToChaser>>
  BY DEF engine, grantVars, gateVars, ToStation, ToChaser
<1>2. UNCHANGED controller /\ request_topic' \in Seq(1..LastStage) => ControllerTypeOK'
  BY DEF ControllerTypeOK, controller
<1>3. request_topic \in Seq(1..LastStage)
  BY DEF ControllerTypeOK
<1>4. UNCHANGED <<chaser, to_station, engine>> => ChaserTypeOK'
  BY <1>1 DEF ChaserTypeOK, chaser
<1>5. UNCHANGED chaser /\ (to_station \in Seq(ToStation))' /\ EngineGrows /\ EngineTypeOK'
        => ChaserTypeOK'
  <2> HAVE UNCHANGED chaser /\ (to_station \in Seq(ToStation))' /\ EngineGrows /\ EngineTypeOK'
  <2>1. 0..opened \subseteq 0..opened' /\ 1..Len(grants) \subseteq 1..Len(grants')
    BY DEF EngineGrows, EngineTypeOK
  <2>2. UNCHANGED <<chaser_session, presented_grants, verifier, chaser_run, verified>>
    BY DEF chaser
  <2>3. chaser_session' \in 0..opened'
    BY <2>1, <2>2 DEF ChaserTypeOK
  <2>4. presented_grants' \in SUBSET (1..Len(grants')) /\ verified' \in SUBSET (1..Len(grants'))
    BY <2>1, <2>2 DEF ChaserTypeOK
  <2> QED
    BY <2>2, <2>3, <2>4 DEF ChaserTypeOK
<1>6. /\ UNCHANGED <<station, to_chaser, engine>> /\ decision_topic' \in Seq(Decision)
           => StationTypeOK'
      /\ UNCHANGED <<station, engine, decision_topic>> /\ (to_chaser \in Seq(ToChaser))'
           => StationTypeOK'
  BY <1>1 DEF StationTypeOK, station
<1>7. UNCHANGED engine => EngineTypeOK'
  BY EngineRests
<1> QED
  BY <1>2, <1>3, <1>4, <1>5, <1>6, <1>7

\* Every step keeps the types.
LEMMA TypeStep ==
  ASSUME NodesTypeOK, [NodesNext]_nodesVars
  PROVE  NodesTypeOK'
<1> USE DEF NodesTypeOK
<1>1. CASE DashboardNext
  <2>1. DashboardTypeOK'
    BY <1>1, StartsTyped
  <2>2. UNCHANGED <<controller, request_topic, chaser, to_station, to_chaser, station,
                    engine, decision_topic>>
    BY <1>1, DashboardFrame
  <2>3. ControllerTypeOK' /\ ChaserTypeOK' /\ EngineTypeOK'
    BY <2>2, RestTyped
  <2>4. StationTypeOK'
    BY <2>2, RestTyped DEF StationTypeOK
  <2> QED
    BY <2>1, <2>3, <2>4
<1>2. CASE ControllerNext
  <2>1. DashboardTypeOK' /\ ControllerTypeOK' /\ decision_topic' \in Seq(Decision)
    BY <1>2, StartsTyped, ControllerTyped
  <2>2. UNCHANGED <<chaser, to_station, to_chaser, station, engine>>
    BY <1>2, ControllerFrame
  <2> QED
    BY <2>1, <2>2, RestTyped
<1>3. CASE ChaserNext
  <2>1. /\ DashboardTypeOK' /\ ChaserTypeOK' /\ request_topic' \in Seq(1..LastStage)
        /\ (to_chaser \in Seq(ToChaser))'
    BY <1>3, StartsTyped, ChaserTyped
  <2>2. UNCHANGED <<controller, station, engine, decision_topic>>
    BY <1>3, ChaserFrame
  <2> QED
    BY <2>1, <2>2, RestTyped
<1>4. CASE StationNext
  <2>1. /\ DashboardTypeOK' /\ StationTypeOK' /\ EngineTypeOK' /\ EngineGrows
        /\ (to_station \in Seq(ToStation))'
    BY <1>4, StartsTyped, StationTyped, EngineTyped
  <2>2. UNCHANGED <<controller, request_topic, chaser>>
    BY <1>4, StationFrame
  <2> QED
    BY <2>1, <2>2, RestTyped
<1>5. CASE UNCHANGED nodesVars
  <2>1. /\ UNCHANGED <<dashboard, starts, controller, request_topic, chaser, to_station>>
        /\ UNCHANGED <<to_chaser, station, engine, decision_topic>>
    BY <1>5 DEF nodesVars
  <2>2. DashboardTypeOK'
    BY <2>1 DEF DashboardTypeOK, dashboard, starts
  <2>3. ControllerTypeOK' /\ ChaserTypeOK' /\ EngineTypeOK'
    BY <2>1, RestTyped
  <2>4. StationTypeOK'
    BY <2>1, RestTyped DEF StationTypeOK
  <2> QED
    BY <2>2, <2>3, <2>4
<1> QED
  BY <1>1, <1>2, <1>3, <1>4, <1>5 DEF NodesNext, DashboardNext

-----------------------------------------------------------------------------
(* The inductive invariant *)

\* A halted controller waits for no decision: both ways to halt, and the start
\* of a run, clear the pending request.
HaltedRests == ctrl_halted => ~ctrl_pending

\* The approvals on their way to the controller stand for different releases,
\* none of which has moved it yet.
ApprovalsFresh ==
  /\ entered \subseteq log
  /\ \A i \in 1..Len(decision_topic) :
       decision_topic[i].approved => decision_topic[i].release \in log \ entered
  /\ \A i, j \in 1..Len(decision_topic) :
       /\ i # j /\ decision_topic[i].approved /\ decision_topic[j].approved
       => decision_topic[i].release # decision_topic[j].release

\* An approval names the stage of the release it stands for.
ApprovalsName ==
  \A i \in 1..Len(decision_topic) :
    decision_topic[i].approved =>
      decision_topic[i].resulting_state = decision_topic[i].release[2]

\* What is presented to the station was verified by the chaser.
PresentedVerified ==
  \A i \in 1..Len(to_station) :
    to_station[i].kind = "entitlement_presentation" => to_station[i].grant \in verified

NodesInv ==
  /\ NodesTypeOK /\ HaltedRests /\ ApprovalsFresh /\ ApprovalsName /\ PresentedVerified
  /\ ReleasesVerified /\ StationInStep

LEMMA NodesInitially ==
  ASSUME NodesInit
  PROVE  NodesInv
<1>1. NodesTypeOK
  <2> USE NodesAssumption DEF NodesInit, GrantInit, GateInit
  <2>1. DashboardTypeOK
    <3>1. rerun_requested = FALSE /\ prepare_requested = FALSE
      OBVIOUS
    <3>2. /\ asked \in 0..MaxStarts
          /\ run_topic \in [Node -> Nat] /\ prepare_topic \in [Node -> Nat]
      OBVIOUS
    <3> QED
      BY <3>1, <3>2, Zenon DEF DashboardTypeOK
  <2>2. ControllerTypeOK
    <3>1. /\ ctrl_pending = FALSE /\ ctrl_halted = TRUE /\ ctrl_reset = FALSE
          /\ ctrl_start = FALSE /\ ctrl_resume = FALSE /\ ctrl_at_goal = TRUE
      OBVIOUS
    <3>2. /\ ctrl_state \in 0..LastStage /\ ctrl_pose \in {"none", "reset", "move"}
          /\ request_topic \in Seq(1..LastStage) /\ ctrl_run \in Nat
          /\ entered \in SUBSET ReleaseId
      OBVIOUS
    <3> QED
      BY <3>1, <3>2, Zenon DEF ControllerTypeOK
  <2>3. ChaserTypeOK
    BY DEF ChaserTypeOK, NoSession
  <2>4. StationTypeOK
    <3>1. session_ready = FALSE /\ session_denied = FALSE /\ readiness = FALSE
      OBVIOUS
    <3>2. /\ station_session \in 0..opened /\ to_chaser \in Seq(ToChaser)
          /\ decision_topic \in Seq(Decision)
      BY DEF NoSession
    <3> QED
      BY <3>1, <3>2, Zenon DEF StationTypeOK
  <2>5. EngineTypeOK
    BY DEF EngineTypeOK
  <2> QED
    BY <2>1, <2>2, <2>3, <2>4, <2>5 DEF NodesTypeOK
<1> QED
  BY <1>1 DEF NodesInit, GrantInit, GateInit, NodesInv, HaltedRests, ApprovalsFresh, ApprovalsName,
              PresentedVerified, ReleasesVerified, StationInStep

LEMMA HaltedRestsStep ==
  ASSUME NodesTypeOK, HaltedRests, [NodesNext]_nodesVars
  PROVE  HaltedRests'
<1> USE DEF HaltedRests
<1>1. CASE ControllerOnRun \/ ControllerOnPrepare
  BY <1>1 DEF ControllerOnRun, ControllerOnPrepare, RequestReset
<1>2. CASE EnterStage \/ RefuseDecision
  BY <1>2 DEF EnterStage, RefuseDecision
<1>3. CASE ControllerUpdate
  <2> PICK timed_out \in BOOLEAN, arrived \in BOOLEAN, delay_over \in BOOLEAN,
           result \in PoseResults : Update(timed_out, result, arrived, delay_over)
    BY <1>3 DEF ControllerUpdate
  <2> QED
    BY DEF Update, DecisionTimeout, PendingAfter
<1>4. CASE UNCHANGED controller
  BY <1>4 DEF controller
<1> QED
  BY <1>1, <1>2, <1>3, <1>4, DashboardFrame, ChaserFrame, StationFrame
     DEF NodesNext, ControllerNext, DashboardNext, nodesVars

LEMMA StationInStepStep ==
  ASSUME NodesTypeOK, StationInStep, [NodesNext]_nodesVars
  PROVE  StationInStep'
<1> USE DEF StationInStep, NoSession
<1>1. CASE UNCHANGED <<station, engine>>
  BY <1>1 DEF station, engine, grantVars, gateVars
<1>2. CASE StationOnRun \/ StationOnPrepare
  BY <1>2 DEF StationOnRun, StationOnPrepare, ClearRuntimeState
<1>3. CASE StationOnReadiness
  BY <1>3 DEF StationOnReadiness, engine, grantVars, gateVars
<1>4. CASE EstablishSession
  <2>1. opened \in Nat
    BY DEF NodesTypeOK, EngineTypeOK
  <2> QED
    BY <1>4, <2>1 DEF EstablishSession, Establish, OpenSession
<1>5. CASE FailSession
  BY <1>5 DEF FailSession, ReadyAfterFailure
<1>6. CASE AuthorityKilled
  BY <1>6 DEF AuthorityKilled
<1>7. CASE GrantTransition
  BY <1>7 DEF GrantTransition, Issue, station, gateVars
<1>8. CASE DenyTransition
  BY <1>1, <1>8 DEF DenyTransition
<1>9. CASE FailTransition /\ UNCHANGED engine
  BY <1>9 DEF FailTransition, engine, grantVars, gateVars
<1>10. CASE RedeemEntitlement
  BY <1>10 DEF RedeemEntitlement, Redeem, Release, station
<1>11. CASE RefuseEntitlement /\ UNCHANGED <<gateVars, authority>>
  BY <1>11 DEF RefuseEntitlement, station, gateVars
<1>12. FailTransition => UNCHANGED engine \/ AuthorityKilled
  BY DEF FailTransition, AuthorityGone
<1>13. RefuseEntitlement => UNCHANGED <<gateVars, authority>> \/ AuthorityKilled
  BY DEF RefuseEntitlement, AuthorityGone, Spend, engine, grantVars
<1> QED
  BY <1>1, <1>2, <1>3, <1>4, <1>5, <1>6, <1>7, <1>8, <1>9, <1>10, <1>11, <1>12, <1>13,
     DashboardFrame, ControllerFrame, ChaserFrame
     DEF NodesNext, StationNext, DashboardNext, nodesVars

\* The engine's log changes only when the station redeems an entitlement.
LEMMA LogStep ==
  ASSUME [NodesNext]_nodesVars
  PROVE  RedeemEntitlement \/ UNCHANGED log
<1>1. CASE StationNext
  <2>1. UNCHANGED engine \/ CloseSession \/ OpenSession \/ UNCHANGED gateVars => UNCHANGED log
    BY DEF engine, grantVars, gateVars, CloseSession, OpenSession
  <2>2. AuthorityKilled \/ AuthorityGone => UNCHANGED log
    BY <2>1 DEF AuthorityKilled, AuthorityGone, LoseSession
  <2> QED
    BY <1>1, <2>1, <2>2
       DEF StationNext, StationOnRun, StationOnPrepare, StationOnReadiness,
           EstablishSession, FailSession, GrantTransition, DenyTransition, FailTransition,
           RefuseEntitlement, LoseSession, Establish, Issue, Spend, grantVars
<1>2. CASE UNCHANGED engine
  BY <1>2 DEF engine, grantVars, gateVars
<1> QED
  BY <1>1, <1>2, DashboardFrame, ControllerFrame, ChaserFrame
     DEF NodesNext, DashboardNext, nodesVars

\* Where the queue of decisions may go in one step.
LEMMA DecisionsStep ==
  ASSUME [NodesNext]_nodesVars
  PROVE  \/ UNCHANGED <<decision_topic, entered, log>>
         \/ EnterStage \/ RefuseDecision
         \/ RedeemEntitlement
         \/ decision_topic' = Append(decision_topic, Denial) /\ UNCHANGED <<entered, log>>
<1>1. CASE ControllerNext
  <2>1. UNCHANGED log
    BY <1>1, ControllerFrame DEF engine, grantVars, gateVars
  <2>2. CASE ControllerOnRun \/ ControllerOnPrepare
    BY <2>1, <2>2 DEF ControllerOnRun, ControllerOnPrepare, RequestReset
  <2>3. CASE ControllerUpdate
    BY <2>1, <2>3 DEF ControllerUpdate, Update
  <2> QED
    BY <1>1, <2>2, <2>3 DEF ControllerNext
<1>2. CASE StationNext
  <2>1. UNCHANGED entered
    BY <1>2, StationFrame DEF controller
  <2>2. UNCHANGED log \/ RedeemEntitlement
    BY LogStep
  <2>3. \/ decision_topic' = decision_topic
        \/ RedeemEntitlement
        \/ decision_topic' = Append(decision_topic, Denial)
    BY <1>2
       DEF StationNext, StationOnRun, StationOnPrepare, StationOnReadiness,
           EstablishSession, FailSession, GrantTransition, DenyTransition, FailTransition,
           RefuseEntitlement, Publish, RedemptionFailed
  <2> QED
    BY <2>1, <2>2, <2>3
<1>3. CASE UNCHANGED <<controller, engine, decision_topic>>
  BY <1>3 DEF controller, engine, grantVars, gateVars
<1> QED
  BY <1>1, <1>2, <1>3, DashboardFrame, ChaserFrame DEF NodesNext, DashboardNext, nodesVars

LEMMA ApprovalsFreshStep ==
  ASSUME NodesTypeOK, ApprovalsFresh, [NodesNext]_nodesVars
  PROVE  ApprovalsFresh'
<1> DEFINE q == decision_topic
<1>0. q \in Seq(Decision)
  BY DEF NodesTypeOK, StationTypeOK
<1>1. CASE UNCHANGED <<decision_topic, entered, log>>
  BY <1>1 DEF ApprovalsFresh
<1>2. CASE EnterStage \/ RefuseDecision
  <2>1. /\ q # << >> /\ q' = Tail(q)
        /\ \/ q[1].approved /\ entered' = entered \cup {q[1].release}
           \/ entered' = entered
    BY <1>0, <1>2, TailOfQueue DEF EnterStage, RefuseDecision
  <2>2. UNCHANGED log
    BY <1>2, LogStep, ControllerFrame DEF ControllerNext, engine, grantVars, gateVars
  <2>3. 1 \in 1..Len(q)
    BY <1>0, <2>1
  <2>4. \A i \in 1..Len(q') : i + 1 \in 1..Len(q) /\ q'[i] = q[i + 1] /\ i + 1 # 1
    BY <1>0, <2>1, TailOfQueue
  <2>5. \A i, j \in 1..Len(q') : i # j => i + 1 # j + 1
    BY <1>0, <2>1, TailOfQueue
  <2> QED
    BY <2>1, <2>2, <2>3, <2>4, <2>5 DEF ApprovalsFresh
<1>3. CASE RedeemEntitlement
  <2> DEFINE r == <<session, stage + 1>>
             d == Approval(r)
  <2>1. /\ q' = Append(q, d) /\ r \notin log /\ log' = log \cup {r}
    BY <1>3 DEF RedeemEntitlement, Redeem, Release, Publish
  <2>2. d.approved /\ d.release = r
    BY DEF Approval
  <2>3. UNCHANGED entered
    BY <1>3, StationFrame DEF StationNext, controller
  <2>4. /\ Len(q') = Len(q) + 1 /\ Len(q) \in Nat /\ q'[Len(q) + 1] = d
        /\ \A i \in 1..Len(q) : q'[i] = q[i]
    BY <1>0, <2>1
  <2>5. \A i \in 1..Len(q') : i \in 1..Len(q) \/ i = Len(q) + 1
    BY <2>4
  <2> HIDE DEF d, r
  <2>6. entered' \subseteq log' /\ r \notin entered
    BY <2>1, <2>3 DEF ApprovalsFresh
  <2>7. \A i \in 1..Len(q') : q'[i].approved => q'[i].release \in log' \ entered'
    BY <2>1, <2>2, <2>3, <2>4, <2>5, <2>6 DEF ApprovalsFresh
  <2>8. \A i \in 1..Len(q) : q'[i].approved => q'[i].release # r
    BY <2>1, <2>4 DEF ApprovalsFresh
  <2>9. \A i, j \in 1..Len(q') :
          i # j /\ q'[i].approved /\ q'[j].approved => q'[i].release # q'[j].release
    BY <2>2, <2>4, <2>5, <2>8 DEF ApprovalsFresh
  <2> QED
    BY <2>6, <2>7, <2>9 DEF ApprovalsFresh
<1>4. CASE q' = Append(q, Denial) /\ UNCHANGED <<entered, log>>
  <2>1. /\ Len(q') = Len(q) + 1 /\ Len(q) \in Nat /\ q'[Len(q) + 1] = Denial
        /\ \A i \in 1..Len(q) : q'[i] = q[i]
    BY <1>0, <1>4
  <2>2. \A i \in 1..Len(q') : i \in 1..Len(q) \/ i = Len(q) + 1
    BY <2>1
  <2>3. ~Denial.approved
    BY DEF Denial
  <2> QED
    BY <1>4, <2>1, <2>2, <2>3 DEF ApprovalsFresh
<1> QED
  BY <1>1, <1>2, <1>3, <1>4, DecisionsStep

LEMMA ApprovalsNameStep ==
  ASSUME NodesTypeOK, ApprovalsName, [NodesNext]_nodesVars
  PROVE  ApprovalsName'
<1> DEFINE q == decision_topic
<1>0. q \in Seq(Decision)
  BY DEF NodesTypeOK, StationTypeOK
<1>1. CASE UNCHANGED decision_topic
  BY <1>1 DEF ApprovalsName
<1>2. CASE EnterStage \/ RefuseDecision
  <2>1. q # << >> /\ q' = Tail(q)
    BY <1>2 DEF EnterStage, RefuseDecision
  <2> QED
    BY <1>0, <2>1, TailOfQueue DEF ApprovalsName
<1>3. ASSUME NEW d, q' = Append(q, d), d.approved => d.resulting_state = d.release[2]
      PROVE  ApprovalsName'
  <2>1. /\ Len(q') = Len(q) + 1 /\ Len(q) \in Nat /\ q'[Len(q) + 1] = d
        /\ \A i \in 1..Len(q) : q'[i] = q[i]
    BY <1>0, <1>3
  <2>2. \A i \in 1..Len(q') : i \in 1..Len(q) \/ i = Len(q) + 1
    BY <2>1
  <2> QED
    BY <1>3, <2>1, <2>2 DEF ApprovalsName
<1>4. CASE RedeemEntitlement
  <2>1. q' = Append(q, Approval(<<session, stage'>>))
    BY <1>4 DEF RedeemEntitlement, Publish
  <2> QED
    BY <1>3, <2>1 DEF Approval
<1>5. CASE q' = Append(q, Denial)
  BY <1>3, <1>5 DEF Denial
<1> QED
  BY <1>1, <1>2, <1>4, <1>5, DecisionsStep

\* Where the queue to the station may go in one step: a presentation is added
\* only when the chaser's verifier has accepted its grant.
LEMMA PresentedVerifiedStep ==
  ASSUME NodesTypeOK, PresentedVerified, [NodesNext]_nodesVars
  PROVE  PresentedVerified' /\ verified \subseteq verified'
<1> DEFINE q == to_station
<1>0. q \in Seq(ToStation)
  BY DEF NodesTypeOK, ChaserTypeOK
<1>1. CASE UNCHANGED <<to_station, verified>>
  BY <1>1 DEF PresentedVerified
<1>2. ASSUME q # << >>, q' = Tail(q), UNCHANGED verified
      PROVE  PresentedVerified' /\ verified \subseteq verified'
  BY <1>0, <1>2, TailOfQueue DEF PresentedVerified
<1>3. ASSUME NEW m, q' = Append(q, m), verified \subseteq verified',
             m.kind = "entitlement_presentation" => m.grant \in verified'
      PROVE  PresentedVerified' /\ verified \subseteq verified'
  <2>1. /\ Len(q') = Len(q) + 1 /\ Len(q) \in Nat /\ q'[Len(q) + 1] = m
        /\ \A i \in 1..Len(q) : q'[i] = q[i]
    BY <1>0, <1>3
  <2>2. \A i \in 1..Len(q') : i \in 1..Len(q) \/ i = Len(q) + 1
    BY <2>1
  <2> QED
    BY <1>3, <2>1, <2>2 DEF PresentedVerified
<1>4. CASE ChaserOnRun
  <2>1. q' = Append(q, AccessRequest(chaser_run')) /\ UNCHANGED verified
    BY <1>4 DEF ChaserOnRun
  <2>2. AccessRequest(chaser_run').kind = "access_request"
    BY DEF AccessRequest
  <2> QED
    BY <1>3, <2>1, <2>2
<1>5. CASE ForwardRequest
  <2>1. q' = Append(q, TransitionRequest(Head(request_topic))) /\ UNCHANGED verified
    BY <1>5 DEF ForwardRequest, chaser
  <2>2. TransitionRequest(Head(request_topic)).kind = "transition_request"
    BY DEF TransitionRequest
  <2> QED
    BY <1>3, <2>1, <2>2
<1>6. ASSUME NEW answer, ChaserOnGrant(answer)
      PROVE  PresentedVerified' /\ verified \subseteq verified'
  <2> DEFINE g == Head(to_chaser).grant
  <2>1. CASE answer = "ok"
    <3>1. q' = Append(q, Presentation(g)) /\ verified' = verified \cup {g}
      BY <1>6, <2>1 DEF ChaserOnGrant, Presents
    <3>2. Presentation(g).grant = g
      BY DEF Presentation
    <3> QED
      BY <1>3, <3>1, <3>2
  <2>2. CASE answer # "ok"
    BY <1>1, <1>6, <2>2 DEF ChaserOnGrant, Presents
  <2> QED
    BY <2>1, <2>2
<1>7. CASE ChaserOnPrepare \/ ChaserOnSession \/ ChaserOnDecision
  BY <1>1, <1>7 DEF ChaserOnPrepare, ChaserOnSession, ChaserOnDecision
<1>8. CASE StationNext
  <2>1. UNCHANGED verified
    BY <1>8, StationFrame DEF chaser
  <2>2. to_station' = to_station \/ (to_station # << >> /\ to_station' = Tail(to_station))
    BY <1>8
       DEF StationNext, StationOnRun, StationOnPrepare, StationOnReadiness, EstablishSession,
           FailSession, GrantTransition, DenyTransition, FailTransition, RedeemEntitlement,
           RefuseEntitlement, Receive
  <2> QED
    BY <1>1, <1>2, <2>1, <2>2
<1>9. CASE UNCHANGED <<chaser, to_station>>
  BY <1>1, <1>9 DEF chaser
<1> QED
  BY <1>4, <1>5, <1>6, <1>7, <1>8, <1>9, DashboardFrame, ControllerFrame
     DEF NodesNext, ChaserNext, DashboardNext, nodesVars

\* A redemption releases the stage of a grant that the chaser presented.
LEMMA ReleasesVerifiedStep ==
  ASSUME NodesTypeOK, PresentedVerified, ReleasesVerified, [NodesNext]_nodesVars
  PROVE  ReleasesVerified'
<1>1. verified \subseteq verified'
  BY PresentedVerifiedStep
<1>2. \A g \in verified : grants'[g] = grants[g]
  <2>1. verified \subseteq 1..Len(grants)
    BY DEF NodesTypeOK, ChaserTypeOK
  <2>2. CASE StationNext
    BY <2>1, <2>2, EngineTyped DEF NodesTypeOK, EngineGrows
  <2>3. CASE UNCHANGED engine
    BY <2>3 DEF engine, grantVars
  <2> QED
    BY <2>2, <2>3, DashboardFrame, ControllerFrame, ChaserFrame
       DEF NodesNext, DashboardNext, nodesVars
<1>3. CASE UNCHANGED log
  BY <1>1, <1>2, <1>3 DEF ReleasesVerified
<1>4. CASE RedeemEntitlement
  <2> DEFINE g == Head(to_station).grant
             r == <<session, stage + 1>>
  <2>1. /\ to_station # << >> /\ Head(to_station).kind = "entitlement_presentation"
        /\ grants[g].session = session /\ grants[g].stage = stage + 1
        /\ g \in pending_grants /\ log' = log \cup {r}
    BY <1>4 DEF RedeemEntitlement, Redeem, Receive, Redeemable, InOrder, Release
  <2>2. to_station \in Seq(ToStation) /\ grants \in Seq(Grant) /\ g \in 1..Len(grants)
    BY <2>1 DEF NodesTypeOK, ChaserTypeOK, EngineTypeOK
  <2>3. g \in verified
    <3>1. Head(to_station) = to_station[1] /\ 1 \in 1..Len(to_station)
      BY <2>1, <2>2
    <3> QED
      BY <2>1, <3>1 DEF PresentedVerified
  <2>4. grants[g] \in Grant
    BY <2>2
  <2>5. grants[g] = [session |-> session, stage |-> stage + 1]
    BY <2>1, <2>4 DEF Grant
  <2>6. g \in verified' /\ grants'[g] = [session |-> r[1], stage |-> r[2]]
    BY <1>1, <1>2, <2>3, <2>5
  <2>7. ASSUME NEW release \in log
        PROVE  \E h \in verified' : grants'[h] = [session |-> release[1], stage |-> release[2]]
    BY <1>1, <1>2 DEF ReleasesVerified
  <2> QED
    BY <2>1, <2>6, <2>7 DEF ReleasesVerified
<1> QED
  BY <1>3, <1>4, LogStep

-----------------------------------------------------------------------------
(* Theorems *)

\* The invariant holds of every behaviour of the nodes.
THEOREM NodesInvariance == NodesSpec => []NodesInv
<1>1. NodesInit => NodesInv
  BY NodesInitially
<1>2. NodesInv /\ [NodesNext]_nodesVars => NodesInv'
  BY TypeStep, HaltedRestsStep, ApprovalsFreshStep, ApprovalsNameStep,
     PresentedVerifiedStep, ReleasesVerifiedStep, StationInStepStep DEF NodesInv
<1> QED
  BY <1>1, <1>2, PTL DEF NodesSpec

\* Fields, queues and histories keep their types: every message on its way
\* names a grant that was issued and a session that was opened.
THEOREM NodesTypeCorrect == NodesSpec => []NodesTypeOK
<1>1. NodesInv => NodesTypeOK
  BY DEF NodesInv
<1> QED
  BY <1>1, NodesInvariance, PTL

\* The station that holds its session to be authorized holds the engine's.
THEOREM StationKeepsStep == NodesSpec => []StationInStep
<1>1. NodesInv => StationInStep
  BY DEF NodesInv
<1> QED
  BY <1>1, NodesInvariance, PTL

\* Every released stage was verified by the chaser first.
THEOREM EveryReleaseVerified == NodesSpec => []ReleasesVerified
<1>1. NodesInv => ReleasesVerified
  BY DEF NodesInv
<1> QED
  BY <1>1, NodesInvariance, PTL

\* The controller enters a stage only for a release that has not moved it yet.
THEOREM EveryEntryBacked == NodesSpec => EntriesBacked
<1>1. NodesInv /\ [NodesNext]_nodesVars =>
        [EnterStage => Head(decision_topic).release \in log \ entered]_nodesVars
  <2> SUFFICES ASSUME NodesInv, EnterStage
               PROVE  Head(decision_topic).release \in log \ entered
    OBVIOUS
  <2>1. decision_topic \in Seq(Decision) /\ decision_topic # << >> /\ Head(decision_topic).approved
    BY DEF NodesInv, NodesTypeOK, StationTypeOK, EnterStage
  <2>2. Head(decision_topic) = decision_topic[1] /\ 1 \in 1..Len(decision_topic)
    BY <2>1
  <2> QED
    BY <2>1, <2>2 DEF NodesInv, ApprovalsFresh
<1> QED
  BY <1>1, NodesInvariance, PTL DEF NodesSpec, EntriesBacked

\* A halted controller stays where it is until it is told to start again.
THEOREM HaltIsFinal == NodesSpec => HaltHolds
<1>1. NodesInv /\ [NodesNext]_nodesVars =>
        [ctrl_state' > ctrl_state => ~ctrl_halted]_nodesVars
  <2> SUFFICES ASSUME NodesInv, NodesNext, ctrl_halted, ctrl_state' > ctrl_state
               PROVE  FALSE
    OBVIOUS
  <2>1. ctrl_state \in 0..LastStage /\ ~ctrl_pending
    BY DEF NodesInv, NodesTypeOK, ControllerTypeOK, HaltedRests
  <2>2. CASE UNCHANGED controller
    BY <2>1, <2>2, NodesAssumption DEF controller
  <2>3. CASE ControllerOnRun \/ ControllerOnPrepare
    BY <2>1, <2>3, NodesAssumption DEF ControllerOnRun, ControllerOnPrepare, RequestReset
  <2>4. CASE EnterStage \/ RefuseDecision
    <3>1. CASE EnterStage
      BY <2>1, <3>1 DEF EnterStage
    <3>2. CASE RefuseDecision
      <4>1. ctrl_state' = ctrl_state
        BY <3>2 DEF RefuseDecision
      <4> QED
        BY <2>1, <4>1, NodesAssumption
    <3> QED
      BY <2>4, <3>1, <3>2
  <2>5. CASE ControllerUpdate
    <3>1. ctrl_state' \in {0, ctrl_state}
      BY <2>5 DEF ControllerUpdate, Update
    <3> QED
      BY <2>1, <3>1, NodesAssumption
  <2> QED
    BY <2>2, <2>3, <2>4, <2>5, DashboardFrame, ChaserFrame, StationFrame
       DEF NodesNext, DashboardNext, ControllerNext
<1> QED
  BY <1>1, NodesInvariance, PTL DEF NodesSpec, HaltHolds

-----------------------------------------------------------------------------
(* The promise *)

\* The station moves the engine as GrantGate allows, or leaves it alone.
LEMMA StationMovesEngine ==
  ASSUME NodesTypeOK, StationNext
  PROVE  GrantNext \/ UNCHANGED grantVars
<1>1. CASE UNCHANGED engine
  BY <1>1 DEF engine
<1>2. CASE StationOnRun \/ StationOnPrepare \/ StationOnReadiness \/ DenyTransition
  BY <1>1, <1>2 DEF StationOnRun, StationOnPrepare, StationOnReadiness, DenyTransition
<1>3. CASE GrantTransition
  <2>1. Head(to_station).requested_state \in 1..LastStage
    BY <1>3, TailOfQueue, FromChaser DEF GrantTransition, Receive, NodesTypeOK, ChaserTypeOK
  <2> QED
    BY <1>3, <2>1 DEF GrantTransition, GrantNext
<1>4. CASE AuthorityKilled \/ AuthorityGone
  BY <1>1, <1>4 DEF AuthorityKilled, AuthorityGone, GrantNext
<1>5. CASE EstablishSession
  BY <1>5 DEF EstablishSession, GrantNext
<1>6. CASE FailSession
  BY <1>4, <1>6 DEF FailSession, GrantNext
<1>7. CASE FailTransition
  BY <1>1, <1>4, <1>7 DEF FailTransition
<1>8. CASE RedeemEntitlement \/ RefuseEntitlement
  <2>1. Head(to_station).grant \in 1..Len(grants)
    BY <1>8, TailOfQueue, FromChaser
       DEF RedeemEntitlement, RefuseEntitlement, Receive, NodesTypeOK, ChaserTypeOK
  <2> QED
    BY <1>1, <1>4, <1>8, <2>1 DEF RedeemEntitlement, RefuseEntitlement, GrantNext
<1> QED
  BY <1>2, <1>3, <1>5, <1>6, <1>7, <1>8 DEF StationNext

\* What moves the engine moves the gate or leaves it alone.
LEMMA GrantMovesGate ==
  ASSUME GrantNext \/ UNCHANGED grantVars
  PROVE  GateNext \/ UNCHANGED gateVars
BY DEF GrantNext, grantVars, Establish, LoseSession, Issue, Redeem, Spend, GateNext

\* The nodes and the engine meet in GrantGate: AccessEngine is proved to be one,
\* and the station, the only node that talks to the engine, never has it do what
\* a GrantGate does not, with whatever the chaser sends it.
THEOREM NodesUseGrants == NodesSpec => GrantSpec
<1>1. NodesInit => GrantInit
  BY DEF NodesInit
<1>2. NodesTypeOK /\ [NodesNext]_nodesVars => [GrantNext]_grantVars
  <2> SUFFICES ASSUME NodesTypeOK, [NodesNext]_nodesVars
               PROVE  GrantNext \/ UNCHANGED grantVars
    OBVIOUS
  <2>1. CASE StationNext
    BY <2>1, StationMovesEngine
  <2>2. CASE UNCHANGED engine
    BY <2>2 DEF engine
  <2> QED
    BY <2>1, <2>2, DashboardFrame, ControllerFrame, ChaserFrame
       DEF NodesNext, DashboardNext, nodesVars
<1> QED
  BY <1>1, <1>2, NodesTypeCorrect, PTL DEF NodesSpec, GrantSpec

\* A stage is entered on the release that the decision stands for.
LEMMA EntryIsAdvance ==
  ASSUME NodesInv, EnterStage
  PROVE  Promise!Advance
<1> DEFINE d == Head(decision_topic)
<1>1. decision_topic \in Seq(Decision) /\ decision_topic # << >>
  BY DEF NodesInv, NodesTypeOK, StationTypeOK, EnterStage
<1>2. d = decision_topic[1] /\ 1 \in 1..Len(decision_topic)
  BY <1>1
<1>3. /\ d.approved /\ IsNextState(ctrl_state, d.resulting_state) /\ ctrl_pending
      /\ ctrl_state' = d.resulting_state /\ entered' = entered \cup {d.release}
      /\ UNCHANGED <<ctrl_halted, ctrl_run, engine>>
  BY DEF EnterStage
<1>4. d.release \in log \ entered /\ d.release[2] = d.resulting_state
  BY <1>2, <1>3 DEF NodesInv, ApprovalsFresh, ApprovalsName
<1>5. ~ctrl_halted
  BY <1>3 DEF NodesInv, HaltedRests
<1>6. ctrl_state < LastStage /\ d.resulting_state = ctrl_state + 1
  BY <1>3 DEF IsNextState
<1>7. UNCHANGED gateVars
  BY <1>3 DEF engine, grantVars
<1> HIDE DEF d
<1> QED
  BY <1>3, <1>4, <1>5, <1>6, <1>7 DEF Promise!Advance, Promise!gateVars, gateVars

\* Every other step of the controller begins a run, or stops it or sends it home.
LEMMA ControllerKeepsPromise ==
  ASSUME NodesInv, ControllerNext
  PROVE  Promise!PromiseNext
<1>1. UNCHANGED gateVars
  BY ControllerFrame DEF engine, grantVars
<1>2. CASE EnterStage
  BY <1>2, EntryIsAdvance DEF Promise!PromiseNext
<1>3. CASE ControllerOnRun
  <2>1. /\ ctrl_run' = ctrl_run + 1 /\ ctrl_halted' = FALSE
        /\ UNCHANGED <<ctrl_state, entered>>
    BY <1>3 DEF ControllerOnRun, RequestReset
  <2> QED
    BY <1>1, <2>1 DEF Promise!PromiseNext, Promise!BeginRun, Promise!gateVars, gateVars
<1>4. ASSUME ctrl_state' \in {0, ctrl_state}, ctrl_halted' \in {ctrl_halted, TRUE},
             UNCHANGED <<ctrl_run, entered>>
      PROVE  Promise!PromiseNext
  BY <1>1, <1>4 DEF Promise!PromiseNext, Promise!Retreat, Promise!gateVars, gateVars
<1>5. CASE ControllerOnPrepare
  <2>1. ctrl_halted' = TRUE /\ UNCHANGED <<ctrl_state, ctrl_run, entered>>
    BY <1>5 DEF ControllerOnPrepare, RequestReset
  <2> QED
    BY <1>4, <2>1
<1>6. CASE RefuseDecision
  <2>1. /\ ctrl_halted' = (ctrl_halted \/ ctrl_pending)
        /\ UNCHANGED <<ctrl_state, ctrl_run, entered>>
    BY <1>6 DEF RefuseDecision
  <2>2. ctrl_halted \in BOOLEAN /\ ctrl_pending \in BOOLEAN
    BY DEF NodesInv, NodesTypeOK, ControllerTypeOK
  <2>3. ctrl_halted' \in {ctrl_halted, TRUE}
    BY <2>1, <2>2
  <2> QED
    BY <1>4, <2>1, <2>3
<1>7. CASE ControllerUpdate
  <2> PICK timed_out \in BOOLEAN, arrived \in BOOLEAN, delay_over \in BOOLEAN,
           result \in PoseResults : Update(timed_out, result, arrived, delay_over)
    BY <1>7 DEF ControllerUpdate
  <2>1. ctrl_state' \in {0, ctrl_state} /\ UNCHANGED <<ctrl_run, entered>>
    BY DEF Update
  <2>2. ctrl_halted' = (ctrl_halted \/ timed_out)
    BY DEF Update, DecisionTimeout
  <2>3. ctrl_halted \in BOOLEAN
    BY DEF NodesInv, NodesTypeOK, ControllerTypeOK
  <2>4. ctrl_halted' \in {ctrl_halted, TRUE}
    BY <2>2, <2>3
  <2> QED
    BY <1>4, <2>1, <2>4
<1> QED
  BY <1>2, <1>3, <1>5, <1>6, <1>7 DEF ControllerNext

\* Dashboard, controller, adapters and engine together keep the promise made of
\* the chaser: every behaviour of theirs is one of the chaser behind its gate.
THEOREM NodesKeepPromise == NodesSpec => ImplementsPromise
<1>1. NodesInit => Promise!PromiseInit
  BY DEF NodesInit, GrantInit, GateInit, Promise!PromiseInit, Promise!GateInit
<1>2. NodesInv /\ [NodesNext]_nodesVars
        => [Promise!PromiseNext]_<<Promise!vehicle, Promise!gateVars>>
  <2> SUFFICES ASSUME NodesInv, [NodesNext]_nodesVars
               PROVE  Promise!PromiseNext \/ UNCHANGED <<Promise!vehicle, Promise!gateVars>>
    OBVIOUS
  <2>1. CASE ControllerNext
    BY <2>1, ControllerKeepsPromise
  <2>2. CASE StationNext
    <3>1. UNCHANGED Promise!vehicle
      BY <2>2, StationFrame DEF controller, Promise!vehicle
    <3>2. GateNext => Promise!GateNext
      BY DEF GateNext, Promise!GateNext, OpenSession, Promise!OpenSession, CloseSession,
             Promise!CloseSession, Release, Promise!Release
    <3>3. gateVars = Promise!gateVars /\ gateVars' = Promise!gateVars'
      BY DEF gateVars, Promise!gateVars
    <3> QED
      BY <2>2, <3>1, <3>2, <3>3, StationMovesEngine, GrantMovesGate
         DEF NodesInv, Promise!PromiseNext
  <2>3. CASE UNCHANGED <<controller, engine>>
    BY <2>3 DEF controller, engine, grantVars, gateVars, Promise!vehicle, Promise!gateVars
  <2> QED
    BY <2>1, <2>2, <2>3, DashboardFrame, ChaserFrame DEF NodesNext, DashboardNext, nodesVars
<1> QED
  BY <1>1, <1>2, NodesInvariance, PTL DEF NodesSpec, ImplementsPromise, Promise!PromiseSpec
=============================================================================
