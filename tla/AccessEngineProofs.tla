------------------------- MODULE AccessEngineProofs -------------------------
(***************************************************************************)
(* Proofs about AccessEngine, for every profile, policy evidence, clock    *)
(* bound, number of sessions and number of grants, with and without        *)
(* persistent state.                                                       *)
(***************************************************************************)
EXTENDS AccessEngine, SequenceTheorems, TLAPS

\* The engine's clock, truncated to seconds, is a natural number.
LEMMA NowIsNat == ASSUME clock \in Nat PROVE now_s \in Nat
  BY TicksAssumption DEF now_s

\* The number of a docking state.
LEMMA StateNumberType ==
  ASSUME NEW s \in DockingState
  PROVE  /\ StateNumber(s) \in 0..5
         /\ StateNumber(s) = 0 => s = "Hold"
  BY DEF DockingState, StateNumber

\* An accepted request that reduce does not refuse moves to the state whose
\* number was requested, one above the old one.
LEMMA ReduceAdvances ==
  ASSUME NEW s \in DockingState, NEW requested, TransitionFor(s, requested),
         NEW a, Reduce(s, DockingEvent(requested), a) # Rejected
  PROVE  /\ Reduce(s, DockingEvent(requested), a) \in DockingState
         /\ StateNumber(Reduce(s, DockingEvent(requested), a)) = requested
         /\ requested = StateNumber(s) + 1
         /\ requested \in Stages
  <1>1. CASE s = "Hold"
    BY <1>1 DEF TransitionFor, StateNumber, Stages, Reduce, DockingEvent, Rejected,
                DockingState
  <1>2. CASE s = "Approach"
    BY <1>2 DEF TransitionFor, StateNumber, Stages, Reduce, DockingEvent, Rejected,
                DockingState
  <1>3. CASE s = "FinalApproach"
    BY <1>3 DEF TransitionFor, StateNumber, Stages, Reduce, DockingEvent, Rejected,
                DockingState
  <1>4. CASE s = "SoftCapture"
    BY <1>4 DEF TransitionFor, StateNumber, Stages, Reduce, DockingEvent, Rejected,
                DockingState
  <1>5. CASE s \in {"HardDock", "Aborted"}
    BY <1>5 DEF TransitionFor, StateNumber, Stages
  <1> QED
    BY <1>1, <1>2, <1>3, <1>4, <1>5 DEF DockingState

\* The credentials the issuer signs have the type of verified_credentials and
\* cover both profiles that the session policy asks for.
LEMMA IssuedCredentialsType ==
  ASSUME NEW now \in Nat
  PROVE  /\ IssuedCredentials(now) \in SUBSET CredentialEvidence
         /\ HasProfile(IssuedCredentials(now), "registered-vehicle-v1")
         /\ HasProfile(IssuedCredentials(now), "idss-compatible-v1")
  <1> DEFINE registration ==
        [profile_id |-> "registered-vehicle-v1",
         credential_type |-> "VehicleRegistrationCredential",
         issuer_group |-> "recognized-registrars", status_checked_at |-> now]
      certification ==
        [profile_id |-> "idss-compatible-v1",
         credential_type |-> "DockingCertificationCredential",
         issuer_group |-> "recognized-docking-authorities", status_checked_at |-> now]
  <1>1. IssuedCredentials(now) = {registration, certification}
    BY DEF IssuedCredentials
  <1>2. registration \in CredentialEvidence
    BY DEF CredentialEvidence
  <1>2a. certification \in CredentialEvidence
    BY DEF CredentialEvidence
  <1>3. /\ registration.profile_id = "registered-vehicle-v1"
        /\ certification.profile_id = "idss-compatible-v1"
    OBVIOUS
  <1> HIDE DEF registration, certification
  <1>4. IssuedCredentials(now) \in SUBSET CredentialEvidence
    BY <1>1, <1>2, <1>2a
  <1>5. /\ HasProfile(IssuedCredentials(now), "registered-vehicle-v1")
        /\ HasProfile(IssuedCredentials(now), "idss-compatible-v1")
    BY <1>1, <1>3 DEF HasProfile
  <1> QED
    BY <1>4, <1>5

\* Every step is one of the engine's commands, a crash or the clock.
LEMMA NextCases ==
  ASSUME [Next]_vars
  PROVE  \/ \E scenario \in Scenarios, progress \in Progress :
              EstablishSession(scenario, progress)
         \/ \E requested \in RequestedStates, r \in Readiness :
              RequestGranted(requested, r)
         \/ \E requested \in RequestedStates : RequestRefused(requested)
         \/ \E g \in DOMAIN grants, requested \in RequestedStates :
              RedeemGateFailure(g, requested)
         \/ \E g \in DOMAIN grants, requested \in RequestedStates, r \in Readiness :
              RedeemRefused(g, requested, r)
         \/ \E g \in DOMAIN grants, requested \in RequestedStates, r \in Readiness :
              RedeemCommitFailure(g, requested, r)
         \/ \E g \in DOMAIN grants, requested \in RequestedStates, r \in Readiness :
              RedeemCommitted(g, requested, r)
         \/ \E g \in DOMAIN grants, requested \in RequestedStates, r \in Readiness :
              CrashInRedeem(g, requested, r)
         \/ Crash
         \/ Tick
         \/ SetClockBack
         \/ UNCHANGED vars
  BY DEF Next

-----------------------------------------------------------------------------
(* Type correctness *)

\* The initial state is well typed.
LEMMA TypeInit == Init => TypeOK
  <1> SUFFICES ASSUME Init PROVE TypeOK
    OBVIOUS
  <1> USE EngineAssumption DEF Init
  <1>1. grants \in Seq(Grant) /\ Len(grants) = 0
    OBVIOUS
  <1>2. state \in DockingState /\ session_id \in 0..sessions /\ sessions \in 0..MaxSessions
    BY DEF DockingState, NoSession
  <1> QED
    BY <1>1, <1>2 DEF TypeOK

\* Issuing a grant appends one well-typed record and remembers it.
LEMMA IssueGrantType ==
  ASSUME TypeOK, NEW stage \in Stages, stage \in DOMAIN Profile.rules, IssueGrant(stage)
  PROVE  /\ grants' \in Seq(Grant)
         /\ Len(grants') = Len(grants) + 1
         /\ \A g \in 1..Len(grants) : grants'[g] = grants[g]
         /\ grants'[Len(grants')] =
              [session_id |-> session_id, authorized_stage |-> stage,
               issued_at |-> now_s,
               expires_at |-> now_s + Profile.rules[stage].entitlement_ttl]
         /\ pending_entitlements' \in SUBSET Pending
  <1>1. now_s \in Nat
    BY NowIsNat, EngineAssumption DEF TypeOK
  <1>2. now_s + Profile.rules[stage].entitlement_ttl \in Nat
    BY <1>1, RulesAssumption
  <1> DEFINE grant == [session_id |-> session_id, authorized_stage |-> stage,
                       issued_at |-> now_s,
                       expires_at |-> now_s + Profile.rules[stage].entitlement_ttl]
  <1>3. grant \in Grant
    BY <1>1, <1>2, EngineAssumption DEF Grant, TypeOK
  <1>4. grants' = Append(grants, grant)
    BY DEF IssueGrant
  <1>5. [grant_id |-> Len(grants) + 1, requested_state |-> stage] \in Pending
    BY DEF Pending, TypeOK
  <1>6. pending_entitlements' \in SUBSET Pending
    BY <1>5 DEF IssueGrant, TypeOK
  <1>7. /\ grants' \in Seq(Grant)
        /\ Len(grants') = Len(grants) + 1
        /\ \A g \in 1..Len(grants) : grants'[g] = grants[g]
        /\ grants'[Len(grants')] = grant
    <2> HIDE DEF grant
    <2> QED BY <1>3, <1>4 DEF TypeOK
  <1> QED BY <1>6, <1>7

\* Consuming a nonce and taking the pending entitlement keep the types.
LEMMA ConsumeType ==
  ASSUME TypeOK, NEW g \in DOMAIN grants
  PROVE  /\ g \in 1..Len(grants)
         /\ \A log \in SUBSET (1..Len(grants)) :
              /\ log \cup {g} \in SUBSET (1..Len(grants))
              /\ Appended(log, g) \in SUBSET (1..Len(grants))
              /\ AppendFailures(log, g) \subseteq SUBSET (1..Len(grants))
         /\ WithoutPending(g) \in SUBSET Pending
  <1>1. g \in 1..Len(grants)
    BY DEF TypeOK
  <1>2. WithoutPending(g) \in SUBSET Pending
    BY DEF WithoutPending, TypeOK
  <1>3. ASSUME NEW log \in SUBSET (1..Len(grants))
        PROVE  /\ log \cup {g} \in SUBSET (1..Len(grants))
               /\ Appended(log, g) \in SUBSET (1..Len(grants))
               /\ AppendFailures(log, g) \subseteq SUBSET (1..Len(grants))
    <2>1. log \cup {g} \in SUBSET (1..Len(grants))
      BY <1>1
    <2>2. Appended(log, g) \in SUBSET (1..Len(grants))
      BY <2>1 DEF Appended
    <2>3. AppendFailures(log, g) \subseteq SUBSET (1..Len(grants))
      BY <2>1 DEF AppendFailures
    <2> QED BY <2>1, <2>2, <2>3
  <1> QED BY <1>1, <1>2, <1>3

\* Every step preserves the types.
LEMMA TypeStep == ASSUME TypeOK, [Next]_vars PROVE TypeOK'
  <1> USE EngineAssumption
  <1>0. now_s \in Nat
    BY NowIsNat DEF TypeOK
  <1>1. ASSUME NEW scenario \in Scenarios, NEW progress \in Progress,
               EstablishSession(scenario, progress)
        PROVE  TypeOK'
    <2>1. verified_credentials' \in SUBSET CredentialEvidence
      BY <1>0, <1>1, IssuedCredentialsType DEF EstablishSession
    <2>2. sessions' \in 0..MaxSessions /\ session_id' \in 0..sessions'
      BY <1>1 DEF EstablishSession, TypeOK, SessionIdAfter, NoSession
    <2>3. holder_proof_at' \in SUBSET Nat
      BY <1>0, <1>1 DEF EstablishSession
    <2> QED
      BY <1>1, <2>1, <2>2, <2>3
      DEF EstablishSession, TypeOK, StateAfterReset, PendingAfterReset, ResetEphemeral,
          DockingState
  <1>2. ASSUME NEW requested \in RequestedStates, NEW r \in Readiness,
               RequestGranted(requested, r)
        PROVE  TypeOK'
    <2>1. requested \in Stages /\ requested \in DOMAIN Profile.rules
      BY <1>2 DEF RequestGranted, MayRequest, TransitionFor, TransitionAllowed, Evaluate
    <2>2. IssueGrant(requested)
      BY <1>2 DEF RequestGranted
    <2>3. /\ grants' \in Seq(Grant) /\ Len(grants') = Len(grants) + 1
          /\ pending_entitlements' \in SUBSET Pending
      BY <2>1, <2>2, IssueGrantType
    <2>4. Len(grants) \in Nat /\ 1..Len(grants) \subseteq 1..Len(grants')
      BY <2>3 DEF TypeOK
    <2>5. holder_proof_at' \in SUBSET Nat
      BY <1>0, <1>2 DEF RequestGranted
    <2> QED
      BY <1>2, <2>3, <2>4, <2>5 DEF RequestGranted, TypeOK, replay
  <1>3. ASSUME NEW requested \in RequestedStates, RequestRefused(requested)
        PROVE  TypeOK'
    BY <1>0, <1>3 DEF RequestRefused, TypeOK, replay
  <1>4. ASSUME NEW g \in DOMAIN grants, NEW requested \in RequestedStates,
               RedeemGateFailure(g, requested)
        PROVE  TypeOK'
    <2>1. gate_log' \in SUBSET (1..Len(grants))
      BY <1>4, ConsumeType DEF RedeemGateFailure, TypeOK
    <2> QED
      BY <1>4, <2>1 DEF RedeemGateFailure, TypeOK, memory
  <1>5. ASSUME NEW g \in DOMAIN grants, NEW requested \in RequestedStates,
               NEW r \in Readiness, RedeemRefused(g, requested, r)
        PROVE  TypeOK'
    <2>1. /\ gate_replay' \in SUBSET (1..Len(grants))
          /\ gate_log' \in SUBSET (1..Len(grants))
          /\ pending_entitlements' \in SUBSET Pending
      BY <1>5, ConsumeType DEF RedeemRefused, ConsumeNonce, TypeOK
    <2>2. refused' \in SUBSET (1..Len(grants))
      BY <1>5, ConsumeType DEF RedeemRefused, TypeOK
    <2> QED
      BY <1>5, <2>1, <2>2 DEF RedeemRefused, TypeOK
  <1>6. ASSUME NEW g \in DOMAIN grants, NEW requested \in RequestedStates,
               NEW r \in Readiness, RedeemCommitFailure(g, requested, r)
        PROVE  TypeOK'
    <2>1. /\ gate_replay' \in SUBSET (1..Len(grants))
          /\ gate_log' \in SUBSET (1..Len(grants))
          /\ pending_entitlements' \in SUBSET Pending
          /\ consumed_log' \in SUBSET (1..Len(grants))
      BY <1>6, ConsumeType DEF RedeemCommitFailure, ConsumeNonce, TypeOK
    <2>2. refused' \in SUBSET (1..Len(grants))
      BY <1>6, ConsumeType DEF RedeemCommitFailure, TypeOK
    <2> QED
      BY <1>6, <2>1, <2>2 DEF RedeemCommitFailure, TypeOK
  <1>7. ASSUME NEW g \in DOMAIN grants, NEW requested \in RequestedStates,
               NEW r \in Readiness, RedeemCommitted(g, requested, r)
        PROVE  TypeOK'
    <2>1. state' \in DockingState
      BY <1>7, ReduceAdvances DEF RedeemCommitted, Presentable, NextState, TypeOK
    <2>2. released' \in SUBSET (1..Len(grants))
      <3>1. released' = released \/ released' = released \cup {g}
        BY <1>7 DEF RedeemCommitted
      <3> QED BY <3>1, ConsumeType DEF TypeOK
    <2>2a. refused' \in SUBSET (1..Len(grants))
      BY <1>7, ConsumeType DEF RedeemCommitted, TypeOK
    <2>3. /\ gate_replay' \in SUBSET (1..Len(grants))
          /\ gate_log' \in SUBSET (1..Len(grants))
          /\ pending_entitlements' \in SUBSET Pending
          /\ consumed_grants' \in SUBSET (1..Len(grants))
          /\ consumed_log' \in SUBSET (1..Len(grants))
      BY <1>7, ConsumeType DEF RedeemCommitted, ConsumeNonce, TypeOK
    <2> QED
      BY <1>7, <2>1, <2>2, <2>2a, <2>3 DEF RedeemCommitted, TypeOK
  <1>8. ASSUME NEW gate \in SUBSET (1..Len(grants)),
               NEW consumed \in SUBSET (1..Len(grants)),
               Restart(gate, consumed)
        PROVE  TypeOK'
    <2>1. /\ state' \in DockingState /\ session_id' \in 0..sessions'
          /\ verified_credentials' \in SUBSET CredentialEvidence
          /\ holder_proof_at' \in SUBSET Nat
          /\ pending_entitlements' \in SUBSET Pending
      BY <1>8 DEF Restart, TypeOK, NoSession, DockingState
    <2>2. /\ gate_log' = gate /\ consumed_log' = consumed
          /\ gate_replay' \in {gate, {}} /\ consumed_grants' \in {consumed, {}}
      BY <1>8 DEF Restart
    <2> QED
      BY <1>8, <2>1, <2>2 DEF Restart, TypeOK
  <1>9. ASSUME NEW g \in DOMAIN grants, NEW requested \in RequestedStates,
               NEW r \in Readiness, CrashInRedeem(g, requested, r)
        PROVE  TypeOK'
    <2>1. g \in 1..Len(grants)
      BY DEF TypeOK
    <2> QED
      BY <1>8, <1>9, <2>1 DEF CrashInRedeem, TypeOK
  <1>10. CASE Crash
    BY <1>8, <1>10 DEF Crash, TypeOK
  <1>11. CASE Tick
    BY <1>11 DEF Tick, TypeOK, memory, replay
  <1>12. CASE SetClockBack
    BY <1>12 DEF SetClockBack, TypeOK, memory, replay
  <1>13. CASE UNCHANGED vars
    BY <1>13 DEF vars, memory, replay, TypeOK
  <1> QED
    BY NextCases, <1>1, <1>2, <1>3, <1>4, <1>5, <1>6, <1>7, <1>9, <1>10, <1>11, <1>12,
       <1>13

\* The fields, logs and histories of the engine keep their types.
THEOREM TypeCorrect == Spec => []TypeOK
  BY TypeInit, TypeStep, PTL DEF Spec

-----------------------------------------------------------------------------
(* The inductive invariant *)

\* Every grant was issued in a session that had been established.
GrantsOfOpenedSessions ==
  \A g \in DOMAIN grants : grants[g].session_id \in 1..sessions

\* consume() writes the log before the cache: with persistent state a cache
\* never holds what its log does not.
CachesWithinLogs ==
  Persistent => gate_replay \subseteq gate_log /\ consumed_grants \subseteq consumed_log

\* None of the properties is inductive alone. That the newest session starts
\* with no release of its own needs GrantsOfOpenedSessions; that a committed
\* redemption is the first of its stage needs StateBackedByReleases; that a
\* release survives a restart needs CachesWithinLogs.
IInv ==
  /\ TypeOK
  /\ SessionCoherent
  /\ GrantsOfOpenedSessions
  /\ PendingSound
  /\ StateBackedByReleases
  /\ OneReleasePerStage
  /\ CachesWithinLogs
  /\ ReleasedIsSpent

\* The inductive invariant holds initially.
LEMMA IInvInit == Init => IInv
  <1> SUFFICES ASSUME Init PROVE IInv
    OBVIOUS
  <1>1. TypeOK
    BY TypeInit
  <1>2. SessionCoherent
    BY DEF Init, SessionCoherent, NoSession
  <1>3. StateBackedByReleases
    BY DEF Init, StateBackedByReleases, StateNumber, Stages
  <1> QED
    BY <1>1, <1>2, <1>3
    DEF Init, IInv, GrantsOfOpenedSessions, PendingSound, OneReleasePerStage,
        CachesWithinLogs, ReleasedIsSpent

\* establish_session, wherever it returns.
LEMMA EstablishStep ==
  ASSUME IInv, TypeOK', NEW scenario \in Scenarios, NEW progress \in Progress,
         EstablishSession(scenario, progress)
  PROVE  IInv'
  <1> USE EngineAssumption
  <1>0. now_s \in Nat
    BY NowIsNat DEF IInv, TypeOK
  <1>1. /\ grants' = grants /\ released' = released
        /\ state' = "Hold" /\ pending_entitlements' = {}
        /\ gate_log' = gate_log /\ consumed_log' = consumed_log
    BY DEF EstablishSession, StateAfterReset, PendingAfterReset
  <1>2. \/ /\ progress = "authorized"
           /\ sessions' = sessions + 1 /\ session_id' = sessions + 1
        \/ /\ progress # "authorized"
           /\ sessions' = sessions /\ session_id' = NoSession
    BY DEF EstablishSession, SessionIdAfter
  <1>3. SessionCoherent'
    <2>1. CASE progress = "authorized"
      <3>1. session_id' = sessions' /\ session_id' # NoSession
        BY <1>2, <2>1 DEF IInv, TypeOK, NoSession
      <3>2. verified_credentials' = IssuedCredentials(now_s)
        BY <2>1 DEF EstablishSession
      <3>3. /\ HasProfile(verified_credentials', "registered-vehicle-v1")
            /\ HasProfile(verified_credentials', "idss-compatible-v1")
        BY <1>0, <3>2, IssuedCredentialsType
      <3>4. session_authorized' /\ identity_verified' /\ holder_proof_at' # {}
        BY <2>1 DEF EstablishSession
      <3> QED BY <3>1, <3>3, <3>4 DEF SessionCoherent
    <2>2. CASE progress # "authorized"
      <3>1. session_id' = NoSession /\ ~ session_authorized'
        BY <1>2, <2>2 DEF EstablishSession
      <3> QED BY <1>1, <3>1 DEF SessionCoherent
    <2> QED BY <2>1, <2>2
  <1>4. GrantsOfOpenedSessions'
    BY <1>1, <1>2 DEF IInv, TypeOK, GrantsOfOpenedSessions
  <1>5. PendingSound'
    BY <1>1 DEF PendingSound
  <1>6. \A g \in released : g \in DOMAIN grants /\ grants[g].session_id # session_id'
    <2>1. \A g \in released : g \in DOMAIN grants /\ grants[g].session_id \in 1..sessions
      BY DEF IInv, TypeOK, GrantsOfOpenedSessions
    <2> QED BY <1>2, <2>1 DEF IInv, TypeOK, NoSession
  <1>7. StateBackedByReleases'
    <2>1. StateNumber(state') = 0
      BY <1>1 DEF StateNumber
    <2>2. ASSUME NEW k \in Stages PROVE ~ (k <= StateNumber(state'))
      BY <2>1 DEF Stages
    <2> QED BY <1>1, <1>6, <2>2 DEF StateBackedByReleases
  <1>8. OneReleasePerStage'
    BY <1>1 DEF IInv, OneReleasePerStage
  <1>9. CachesWithinLogs'
    BY <1>1 DEF IInv, CachesWithinLogs, EstablishSession, ResetEphemeral
  <1>10. ReleasedIsSpent'
    <2>1. Persistent => gate_replay' = gate_replay /\ consumed_grants' = consumed_grants
      BY DEF EstablishSession, ResetEphemeral
    <2> QED BY <1>1, <1>6, <2>1 DEF IInv, ReleasedIsSpent
  <1> QED
    BY <1>3, <1>4, <1>5, <1>7, <1>8, <1>9, <1>10 DEF IInv

\* request_transition, granted: a new grant of the open session is pending.
LEMMA GrantedStep ==
  ASSUME IInv, TypeOK', NEW requested \in RequestedStates, NEW r \in Readiness,
         RequestGranted(requested, r)
  PROVE  IInv'
  <1> DEFINE n == Len(grants)
  <1>1. /\ requested \in Stages /\ requested \in DOMAIN Profile.rules
        /\ requested = StateNumber(state) + 1 /\ session_id # NoSession
    BY DEF RequestGranted, MayRequest, TransitionFor, TransitionAllowed, Evaluate
  <1>2. IssueGrant(requested)
    BY DEF RequestGranted
  <1>3. /\ Len(grants') = n + 1
        /\ \A g \in 1..n : grants'[g] = grants[g]
        /\ grants'[n + 1].session_id = session_id
        /\ grants'[n + 1].authorized_stage = requested
    <2>1. /\ Len(grants') = n + 1
          /\ \A g \in 1..n : grants'[g] = grants[g]
          /\ grants'[n + 1] =
               [session_id |-> session_id, authorized_stage |-> requested,
                issued_at |-> now_s,
                expires_at |-> now_s + Profile.rules[requested].entitlement_ttl]
      BY <1>1, <1>2, IssueGrantType DEF IInv
    <2> QED BY <2>1
  <1>4. /\ DOMAIN grants = 1..n /\ n \in Nat /\ DOMAIN grants' = 1..(n + 1)
    BY <1>3 DEF IInv, TypeOK
  <1>5. /\ state' = state /\ session_id' = session_id /\ released' = released
        /\ sessions' = sessions /\ gate_replay' = gate_replay
        /\ consumed_grants' = consumed_grants
        /\ gate_log' = gate_log /\ consumed_log' = consumed_log
    BY DEF RequestGranted, replay
  <1>6. /\ gate_replay \subseteq 1..n /\ consumed_grants \subseteq 1..n
        /\ released \subseteq 1..n /\ session_id \in 1..sessions
    BY <1>1 DEF IInv, TypeOK, NoSession
  <1> HIDE DEF n
  <1>7. \A g \in released : grants'[g] = grants[g]
    BY <1>3, <1>6
  <1>8. SessionCoherent'
    <2>1. holder_proof_at' # {}
      BY DEF RequestGranted
    <2> QED BY <1>1, <2>1 DEF IInv, SessionCoherent, RequestGranted
  <1>9. GrantsOfOpenedSessions'
    <2> SUFFICES ASSUME NEW g \in 1..(n + 1) PROVE grants'[g].session_id \in 1..sessions
      BY <1>4, <1>5 DEF GrantsOfOpenedSessions
    <2>1. CASE g = n + 1
      BY <1>3, <1>6, <2>1
    <2>2. CASE g \in 1..n
      BY <1>3, <1>4, <2>2 DEF IInv, GrantsOfOpenedSessions
    <2> QED BY <1>4, <2>1, <2>2
  <1>10. PendingSound'
    <2> SUFFICES ASSUME NEW p \in pending_entitlements'
                 PROVE  /\ p.grant_id \in DOMAIN grants'
                        /\ grants'[p.grant_id].session_id = session_id
                        /\ grants'[p.grant_id].authorized_stage = p.requested_state
                        /\ p.requested_state <= StateNumber(state) + 1
                        /\ p.grant_id \notin gate_replay \cup consumed_grants \cup released
      BY <1>5 DEF PendingSound
    <2>1. \/ p \in pending_entitlements
          \/ p = [grant_id |-> n + 1, requested_state |-> requested]
      BY <1>2 DEF IssueGrant, n
    <2>2. CASE p \in pending_entitlements
      BY <1>3, <1>4, <2>2 DEF IInv, PendingSound
    <2>3. CASE p = [grant_id |-> n + 1, requested_state |-> requested]
      <3>1. p.grant_id = n + 1 /\ p.requested_state = requested
        BY <2>3
      <3>2. n + 1 \notin gate_replay \cup consumed_grants \cup released
        BY <1>4, <1>6
      <3>3. requested <= StateNumber(state) + 1
        BY <1>1, StateNumberType DEF IInv, TypeOK, Stages
      <3> QED BY <1>3, <1>4, <3>1, <3>2, <3>3
    <2> QED BY <2>1, <2>2, <2>3
  <1>11. StateBackedByReleases'
    BY <1>5, <1>7 DEF IInv, StateBackedByReleases
  <1>12. OneReleasePerStage'
    BY <1>5, <1>7 DEF IInv, OneReleasePerStage
  <1>13. CachesWithinLogs'
    BY <1>5 DEF IInv, CachesWithinLogs
  <1>14. ReleasedIsSpent'
    BY <1>5, <1>7 DEF IInv, ReleasedIsSpent
  <1> QED
    BY <1>8, <1>9, <1>10, <1>11, <1>12, <1>13, <1>14 DEF IInv

\* A redemption that consumed the nonce and took the pending entitlement, and
\* did not release the stage; the consumed-grant log may have grown.
LEMMA FailedRedeemStep ==
  ASSUME IInv, TypeOK', NEW g \in DOMAIN grants, ConsumeNonce(g),
         pending_entitlements' = WithoutPending(g),
         consumed_log \subseteq consumed_log',
         UNCHANGED <<clock, state, identity_verified, session_authorized, session_id,
                     verified_credentials, holder_proof_at, consumed_grants, grants,
                     sessions, released>>
  PROVE  IInv'
  <1>1. /\ gate_replay' = gate_replay \cup {g}
        /\ Persistent => gate_log' = gate_log \cup {g}
    BY DEF ConsumeNonce, Appended
  <1>2. SessionCoherent'
    BY DEF IInv, SessionCoherent, WithoutPending
  <1>3. PendingSound'
    BY <1>1 DEF IInv, PendingSound, WithoutPending
  <1>4. GrantsOfOpenedSessions' /\ StateBackedByReleases' /\ OneReleasePerStage'
    BY DEF IInv, GrantsOfOpenedSessions, StateBackedByReleases, OneReleasePerStage
  <1>5. CachesWithinLogs'
    BY <1>1 DEF IInv, CachesWithinLogs
  <1>6. ReleasedIsSpent'
    BY <1>1 DEF IInv, ReleasedIsSpent
  <1> QED
    BY <1>2, <1>3, <1>4, <1>5, <1>6 DEF IInv

\* redeem_transition, committed: the grant is the first of its stage in the
\* open session, and the state moves to that stage.
LEMMA CommittedStep ==
  ASSUME IInv, TypeOK', NEW g \in DOMAIN grants, NEW requested \in RequestedStates,
         NEW r \in Readiness, RedeemCommitted(g, requested, r)
  PROVE  IInv'
  <1>1. /\ gate_replay' = gate_replay \cup {g}
        /\ Persistent => gate_log' = gate_log \cup {g}
        /\ consumed_grants' = consumed_grants \cup {g}
        /\ Persistent => consumed_log' = consumed_log \cup {g}
        /\ pending_entitlements' = WithoutPending(g)
        /\ grants' = grants /\ session_id' = session_id /\ sessions' = sessions
    BY DEF RedeemCommitted, ConsumeNonce, Appended
  <1>2. /\ TransitionFor(state, requested) /\ session_id # NoSession
        /\ grants[g].session_id = session_id
        /\ grants[g].authorized_stage = requested
    BY DEF RedeemCommitted, Presentable, Accepts, GrantMatches
  <1>3. \/ /\ state' = state /\ released' = released
        \/ /\ StateNumber(state') = requested /\ requested = StateNumber(state) + 1
           /\ requested \in Stages /\ released' = released \cup {g}
    BY <1>2, ReduceAdvances DEF RedeemCommitted, NextState, IInv, TypeOK
  <1>4. StateNumber(state) \in 0..5 /\ StateNumber(state') \in 0..5
    BY StateNumberType DEF IInv, TypeOK
  <1>5. SessionCoherent'
    BY <1>1, <1>2 DEF IInv, SessionCoherent, RedeemCommitted
  <1>6. GrantsOfOpenedSessions'
    BY <1>1 DEF IInv, GrantsOfOpenedSessions
  <1>7. PendingSound'
    <2> SUFFICES ASSUME NEW p \in pending_entitlements, p.grant_id # g
                 PROVE  /\ p.grant_id \in DOMAIN grants
                        /\ grants[p.grant_id].session_id = session_id
                        /\ grants[p.grant_id].authorized_stage = p.requested_state
                        /\ p.requested_state <= StateNumber(state') + 1
                        /\ p.grant_id \notin gate_replay' \cup consumed_grants' \cup released'
      BY <1>1 DEF PendingSound, WithoutPending
    <2>1. /\ p.grant_id \in DOMAIN grants
          /\ grants[p.grant_id].session_id = session_id
          /\ grants[p.grant_id].authorized_stage = p.requested_state
          /\ p.requested_state <= StateNumber(state) + 1
          /\ p.grant_id \notin gate_replay \cup consumed_grants \cup released
      BY DEF IInv, PendingSound
    <2>2. p.requested_state \in Stages
      BY DEF IInv, TypeOK, Pending
    <2>3. p.requested_state <= StateNumber(state') + 1
      BY <1>3, <1>4, <2>1, <2>2 DEF Stages
    <2> QED BY <1>1, <1>3, <2>1, <2>3
  <1>8. StateBackedByReleases'
    <2>1. CASE state' = state /\ released' = released
      BY <1>1, <2>1 DEF IInv, StateBackedByReleases
    <2>2. CASE /\ StateNumber(state') = requested /\ requested = StateNumber(state) + 1
               /\ requested \in Stages /\ released' = released \cup {g}
      <3> SUFFICES ASSUME NEW k \in Stages
                   PROVE  k <= requested <=>
                            \E h \in released \cup {g} :
                              /\ grants[h].session_id = session_id
                              /\ grants[h].authorized_stage = k
        BY <1>1, <2>2 DEF StateBackedByReleases
      <3>1. k <= StateNumber(state) <=>
              \E h \in released : /\ grants[h].session_id = session_id
                                  /\ grants[h].authorized_stage = k
        BY DEF IInv, StateBackedByReleases
      <3>2. k <= requested <=> k <= StateNumber(state) \/ k = requested
        BY <1>4, <2>2 DEF Stages
      <3> QED BY <1>2, <3>1, <3>2
    <2> QED BY <1>3, <2>1, <2>2
  <1>9. OneReleasePerStage'
    <2>1. CASE released' = released
      BY <1>1, <2>1 DEF IInv, OneReleasePerStage
    <2>2. CASE requested = StateNumber(state) + 1 /\ requested \in Stages
               /\ released' = released \cup {g}
      <3>1. \A h \in released : ~ (/\ grants[h].session_id = session_id
                                   /\ grants[h].authorized_stage = requested)
        <4>1. ~ (requested <= StateNumber(state))
          BY <1>4, <2>2 DEF Stages
        <4> QED BY <2>2, <4>1 DEF IInv, StateBackedByReleases
      <3> QED BY <1>1, <1>2, <2>2, <3>1 DEF IInv, OneReleasePerStage
    <2> QED BY <1>3, <2>1, <2>2
  <1>10. CachesWithinLogs'
    BY <1>1 DEF IInv, CachesWithinLogs
  <1>11. ReleasedIsSpent'
    <2>1. released' \subseteq released \cup {g}
      BY <1>3
    <2>2. Persistent => g \in gate_log' /\ g \in consumed_log'
      BY <1>1
    <2> QED BY <1>1, <2>1, <2>2 DEF IInv, ReleasedIsSpent
  <1> QED
    BY <1>5, <1>6, <1>7, <1>8, <1>9, <1>10, <1>11 DEF IInv

\* A restart, with logs that hold at least what they held.
LEMMA RestartStep ==
  ASSUME IInv, TypeOK', NEW gate, NEW consumed, gate_log \subseteq gate,
         consumed_log \subseteq consumed, Restart(gate, consumed)
  PROVE  IInv'
  <1>1. /\ grants' = grants /\ sessions' = sessions /\ released' = released
        /\ state' = "Hold" /\ session_id' = NoSession /\ pending_entitlements' = {}
        /\ ~ session_authorized'
        /\ gate_log' = gate /\ consumed_log' = consumed
        /\ Persistent => gate_replay' = gate /\ consumed_grants' = consumed
    BY DEF Restart
  <1>2. SessionCoherent' /\ PendingSound' /\ GrantsOfOpenedSessions'
        /\ OneReleasePerStage' /\ CachesWithinLogs'
    BY <1>1 DEF IInv, SessionCoherent, PendingSound, GrantsOfOpenedSessions,
                OneReleasePerStage, CachesWithinLogs
  <1>3. \A g \in released : grants[g].session_id # NoSession
    BY DEF IInv, TypeOK, GrantsOfOpenedSessions, NoSession
  <1>4. StateBackedByReleases'
    <2>1. \A k \in Stages : ~ (k <= StateNumber(state'))
      BY <1>1 DEF StateNumber, Stages
    <2> QED BY <1>1, <1>3, <2>1 DEF StateBackedByReleases
  <1>5. ReleasedIsSpent'
    BY <1>1, <1>3 DEF IInv, ReleasedIsSpent
  <1> QED
    BY <1>2, <1>4, <1>5 DEF IInv

\* The steps that touch neither the docking state, nor the sessions, nor the
\* caches: a refused request, a gate log that grew without the cache, time.
LEMMA QuietStep ==
  ASSUME IInv, TypeOK', gate_log \subseteq gate_log',
         holder_proof_at # {} => holder_proof_at' # {},
         UNCHANGED <<state, identity_verified, session_authorized, session_id,
                     verified_credentials, pending_entitlements, gate_replay,
                     consumed_grants, consumed_log, grants, sessions, released>>
  PROVE  IInv'
  <1>1. SessionCoherent'
    BY DEF IInv, SessionCoherent
  <1>2. GrantsOfOpenedSessions' /\ PendingSound' /\ StateBackedByReleases'
        /\ OneReleasePerStage'
    BY DEF IInv, GrantsOfOpenedSessions, PendingSound, StateBackedByReleases,
           OneReleasePerStage
  <1>3. CachesWithinLogs' /\ ReleasedIsSpent'
    BY DEF IInv, CachesWithinLogs, ReleasedIsSpent
  <1> QED
    BY <1>1, <1>2, <1>3 DEF IInv

\* Every step preserves the inductive invariant.
LEMMA IInvStep == ASSUME IInv, [Next]_vars PROVE IInv'
  <1>0. TypeOK'
    BY TypeStep DEF IInv
  <1>1. ASSUME NEW scenario \in Scenarios, NEW progress \in Progress,
               EstablishSession(scenario, progress)
        PROVE  IInv'
    BY <1>0, <1>1, EstablishStep
  <1>2. ASSUME NEW requested \in RequestedStates, NEW r \in Readiness,
               RequestGranted(requested, r)
        PROVE  IInv'
    BY <1>0, <1>2, GrantedStep
  <1>3. ASSUME NEW requested \in RequestedStates, RequestRefused(requested)
        PROVE  IInv'
    BY <1>0, <1>3, QuietStep DEF RequestRefused, replay
  <1>4. ASSUME NEW g \in DOMAIN grants, NEW requested \in RequestedStates,
               RedeemGateFailure(g, requested)
        PROVE  IInv'
    <2>1. gate_log \subseteq gate_log'
      BY <1>4 DEF RedeemGateFailure, AppendFailures
    <2> QED BY <1>0, <1>4, <2>1, QuietStep DEF RedeemGateFailure, memory
  <1>5. ASSUME NEW g \in DOMAIN grants, NEW requested \in RequestedStates,
               NEW r \in Readiness, RedeemRefused(g, requested, r)
        PROVE  IInv'
    BY <1>0, <1>5, FailedRedeemStep DEF RedeemRefused
  <1>6. ASSUME NEW g \in DOMAIN grants, NEW requested \in RequestedStates,
               NEW r \in Readiness, RedeemCommitFailure(g, requested, r)
        PROVE  IInv'
    <2>1. consumed_log \subseteq consumed_log'
      BY <1>6 DEF RedeemCommitFailure, AppendFailures
    <2> QED BY <1>0, <1>6, <2>1, FailedRedeemStep DEF RedeemCommitFailure
  <1>7. ASSUME NEW g \in DOMAIN grants, NEW requested \in RequestedStates,
               NEW r \in Readiness, RedeemCommitted(g, requested, r)
        PROVE  IInv'
    BY <1>0, <1>7, CommittedStep
  <1>8. ASSUME NEW g \in DOMAIN grants, NEW requested \in RequestedStates,
               NEW r \in Readiness, CrashInRedeem(g, requested, r)
        PROVE  IInv'
    <2>1. CASE Restart(gate_log \cup {g}, consumed_log)
      BY <1>0, <2>1, RestartStep
    <2>2. CASE Restart(gate_log \cup {g}, consumed_log \cup {g})
      BY <1>0, <2>2, RestartStep
    <2> QED BY <1>8, <2>1, <2>2 DEF CrashInRedeem
  <1>9. CASE Crash
    BY <1>0, <1>9, RestartStep DEF Crash
  <1>10. CASE Tick
    BY <1>0, <1>10, QuietStep DEF Tick, memory, replay
  <1>11. CASE SetClockBack
    BY <1>0, <1>11, QuietStep DEF SetClockBack, memory, replay
  <1>12. CASE UNCHANGED vars
    BY <1>0, <1>12, QuietStep DEF vars, memory, replay
  <1> QED
    BY NextCases, <1>1, <1>2, <1>3, <1>4, <1>5, <1>6, <1>7, <1>8, <1>9, <1>10, <1>11,
       <1>12

\* The inductive invariant is an invariant of the engine.
THEOREM Invariance == Spec => []IInv
  BY IInvInit, IInvStep, PTL DEF Spec

\* A failed establishment or a restart leaves no session, no docking progress
\* and nothing to redeem; an open session has passed every check.
THEOREM SessionsCoherent == Spec => []SessionCoherent
  <1>1. IInv => SessionCoherent
    BY DEF IInv
  <1> QED BY <1>1, Invariance, PTL

\* What can still be redeemed belongs to the open session and is unspent.
THEOREM PendingIsSound == Spec => []PendingSound
  <1>1. IInv => PendingSound
    BY DEF IInv
  <1> QED BY <1>1, Invariance, PTL

\* The docking state is what the released grants of the open session add up
\* to.
THEOREM StateIsBacked == Spec => []StateBackedByReleases
  <1>1. IInv => StateBackedByReleases
    BY DEF IInv
  <1> QED BY <1>1, Invariance, PTL

\* No stage is released twice in a session.
THEOREM SingleRelease == Spec => []OneReleasePerStage
  <1>1. IInv => OneReleasePerStage
    BY DEF IInv
  <1> QED BY <1>1, Invariance, PTL

\* What was released is recorded as consumed, durably if state is persistent.
THEOREM ReleasesAreSpent == Spec => []ReleasedIsSpent
  <1>1. IInv => ReleasedIsSpent
    BY DEF IInv
  <1> QED BY <1>1, Invariance, PTL

-----------------------------------------------------------------------------
(* Action properties *)

\* Only a committed redemption releases a stage, and it releases one grant.
LEMMA ReleaseOnlyByCommit ==
  ASSUME [Next]_vars, released' # released
  PROVE  \E g \in DOMAIN grants, requested \in RequestedStates, r \in Readiness :
           /\ RedeemCommitted(g, requested, r)
           /\ NextState(requested) # Rejected
           /\ released' = released \cup {g}
  <1>1. ASSUME NEW gate, NEW consumed, Restart(gate, consumed) PROVE FALSE
    BY <1>1 DEF Restart
  <1>2. PICK g \in DOMAIN grants, requested \in RequestedStates, r \in Readiness :
          RedeemCommitted(g, requested, r)
    BY <1>1, NextCases
    DEF EstablishSession, RequestGranted, RequestRefused, RedeemGateFailure,
        RedeemRefused, RedeemCommitFailure, CrashInRedeem, Crash, Tick, SetClockBack, vars
  <1>3. NextState(requested) # Rejected /\ released' = released \cup {g}
    BY <1>2 DEF RedeemCommitted
  <1> QED BY <1>2, <1>3

\* What was refused is not pending: it went with its nonce, and no other session
\* or process ever holds it again.
RefusedNotPending == \A p \in pending_entitlements : p.grant_id \notin refused

\* Pending entitlements are only added under an identifier that is new.
LEMMA RefusedNotPendingStep ==
  ASSUME IInv, RefusedNotPending, [Next]_vars
  PROVE  RefusedNotPending'
  <1>1. ASSUME pending_entitlements' \subseteq pending_entitlements, refused' = refused
        PROVE  RefusedNotPending'
    BY <1>1 DEF RefusedNotPending
  <1>2. ASSUME pending_entitlements' = {}
        PROVE  RefusedNotPending'
    BY <1>2 DEF RefusedNotPending
  <1>3. ASSUME NEW g, pending_entitlements' = WithoutPending(g),
               refused' = refused \/ refused' = refused \cup {g}
        PROVE  RefusedNotPending'
    BY <1>3 DEF RefusedNotPending, WithoutPending
  <1>4. ASSUME NEW requested \in RequestedStates, NEW r \in Readiness,
               RequestGranted(requested, r)
        PROVE  RefusedNotPending'
    <2>1. refused' = refused /\ refused \subseteq 1..Len(grants) /\ Len(grants) \in Nat
      BY <1>4 DEF RequestGranted, IInv, TypeOK
    <2>2. pending_entitlements' = pending_entitlements \cup
            {[grant_id |-> Len(grants) + 1, requested_state |-> requested]}
      BY <1>4 DEF RequestGranted, IssueGrant
    <2> QED BY <2>1, <2>2 DEF RefusedNotPending
  <1>5. ASSUME NEW g \in DOMAIN grants, NEW requested \in RequestedStates,
               NEW r \in Readiness,
               \/ RedeemRefused(g, requested, r)
               \/ RedeemCommitFailure(g, requested, r)
               \/ RedeemCommitted(g, requested, r)
        PROVE  RefusedNotPending'
    <2>1. /\ pending_entitlements' = WithoutPending(g)
          /\ refused' = refused \/ refused' = refused \cup {g}
      BY <1>5 DEF RedeemRefused, RedeemCommitFailure, RedeemCommitted
    <2> QED BY <1>3, <2>1
  <1>6. ASSUME NEW scenario \in Scenarios, NEW progress \in Progress,
               EstablishSession(scenario, progress)
        PROVE  RefusedNotPending'
    BY <1>2, <1>6 DEF EstablishSession, PendingAfterReset
  <1>7. ASSUME NEW gate, NEW consumed, Restart(gate, consumed)
        PROVE  RefusedNotPending'
    BY <1>2, <1>7 DEF Restart
  <1> QED
    BY NextCases, <1>1, <1>4, <1>5, <1>6, <1>7
    DEF RequestRefused, RedeemGateFailure, CrashInRedeem, Crash, Tick, SetClockBack,
        vars, memory

\* A grant that was refused once never releases a stage, however the clock moves
\* and whatever the caches forget: a redemption needs a pending entitlement.
THEOREM RefusalIsFinal == Spec => RefusedStaysRefused
  <1>1. Init => RefusedNotPending
    BY DEF Init, RefusedNotPending
  <1>2. IInv /\ RefusedNotPending /\ [Next]_vars => RefusedNotPending'
    BY RefusedNotPendingStep
  <1>3. ASSUME RefusedNotPending, [Next]_vars
        PROVE  [(released' \ released) \cap refused = {}]_vars
    <2>1. CASE released' = released
      BY <2>1
    <2>2. CASE released' # released
      <3>1. PICK g \in DOMAIN grants, requested \in RequestedStates, r \in Readiness :
              RedeemCommitted(g, requested, r) /\ released' = released \cup {g}
        BY <1>3, <2>2, ReleaseOnlyByCommit
      <3>2. [grant_id |-> g, requested_state |-> requested] \in pending_entitlements
        BY <3>1 DEF RedeemCommitted, Accepts, GrantMatches
      <3>3. g \notin refused
        BY <1>3, <3>2 DEF RefusedNotPending
      <3> QED BY <3>1, <3>3
    <2> QED BY <2>1, <2>2
  <1> QED
    BY <1>1, <1>2, <1>3, Invariance, PTL DEF Spec, RefusedStaysRefused

\* The credentials of a session are the two that the issuer signs, with their
\* status checked at one time, or there are none yet.
CheckedTogether ==
  verified_credentials = {} \/ \E t \in Nat : verified_credentials = IssuedCredentials(t)

\* Only an establishment or a restart touches the credentials.
LEMMA CheckedTogetherStep ==
  ASSUME IInv, CheckedTogether, [Next]_vars
  PROVE  CheckedTogether'
  <1>1. now_s \in Nat
    BY NowIsNat, EngineAssumption DEF IInv, TypeOK
  <1>2. ASSUME NEW scenario \in Scenarios, NEW progress \in Progress,
               EstablishSession(scenario, progress)
        PROVE  CheckedTogether'
    <2>1. verified_credentials' = {} \/ verified_credentials' = IssuedCredentials(now_s)
      BY <1>2 DEF EstablishSession
    <2> QED BY <1>1, <2>1 DEF CheckedTogether, IssuedCredentials
  <1>3. ASSUME NEW gate, NEW consumed, Restart(gate, consumed)
        PROVE  CheckedTogether'
    BY <1>3 DEF Restart, CheckedTogether
  <1>4. ASSUME UNCHANGED verified_credentials
        PROVE  CheckedTogether'
    BY <1>4 DEF CheckedTogether, IssuedCredentials
  <1> QED
    BY NextCases, <1>2, <1>3, <1>4
    DEF RequestGranted, RequestRefused, RedeemGateFailure, RedeemRefused,
        RedeemCommitFailure, RedeemCommitted, CrashInRedeem, Crash, Tick, SetClockBack,
        vars, memory

\* The condition on the profile under which the age of the status check stands
\* in for the expiry that redemption does not look at. In the shipped profile
\* the certification meets it exactly (86400 s both), the registration, with a
\* status age of a week, does not.
StatusAgeWithinLifetime ==
  \E id \in {"registered-vehicle-v1", "idss-compatible-v1"} :
    \E age \in Profile.credentials[id].maximum_status_age :
      age \in Int /\ age <= CredentialLifetime

\* No stage is released on an expired credential, if the profile bounds the
\* status age of one of the two credentials by their lifetime: both were
\* checked when the session was established, so one bound covers both.
THEOREM NoReleaseOnExpired ==
  ASSUME StatusAgeWithinLifetime
  PROVE  Spec => CredentialsUnexpiredAtRelease
  <1>1. Init => CheckedTogether
    BY DEF Init, CheckedTogether
  <1>2. IInv /\ CheckedTogether /\ [Next]_vars => CheckedTogether'
    BY CheckedTogetherStep
  <1>3. ASSUME IInv, CheckedTogether, [Next]_vars
        PROVE  [released' # released =>
                  \A c \in verified_credentials :
                    now_s <= c.status_checked_at + CredentialLifetime]_vars
    <2> SUFFICES ASSUME released' # released
                 PROVE  \A c \in verified_credentials :
                          now_s <= c.status_checked_at + CredentialLifetime
      OBVIOUS
    <2>1. PICK g \in DOMAIN grants, requested \in RequestedStates, r \in Readiness :
            RedeemCommitted(g, requested, r)
      BY <1>3, ReleaseOnlyByCommit
    <2>2. session_id # NoSession /\ ValidateCredentials(verified_credentials, now_s)
      BY <2>1 DEF RedeemCommitted, Presentable, Accepts, Evaluate
    <2>3. PICK t \in Nat : verified_credentials = IssuedCredentials(t)
      BY <1>3, <2>2 DEF CheckedTogether, IInv, SessionCoherent, HasProfile
    <2>4. PICK id \in {"registered-vehicle-v1", "idss-compatible-v1"} :
            \E age \in Profile.credentials[id].maximum_status_age :
              age \in Int /\ age <= CredentialLifetime
      BY DEF StatusAgeWithinLifetime
    <2>5. PICK age \in Profile.credentials[id].maximum_status_age :
            age \in Int /\ age <= CredentialLifetime
      BY <2>4
    <2>6. \A c \in verified_credentials : c.status_checked_at = t
      BY <2>3 DEF IssuedCredentials
    <2>7. PICK c \in verified_credentials : c.profile_id = id
      BY <1>3, <2>2 DEF IInv, SessionCoherent, HasProfile
    <2>8. now_s - t <= age
      BY <2>2, <2>5, <2>6, <2>7 DEF ValidateCredentials
    <2>9. now_s \in Nat /\ CredentialLifetime \in Nat
      BY <1>3, NowIsNat, EngineAssumption DEF IInv, TypeOK
    <2> QED BY <2>3, <2>5, <2>6, <2>8, <2>9
  <1> QED
    BY <1>1, <1>2, <1>3, Invariance, PTL DEF Spec, CredentialsUnexpiredAtRelease

\* Less than a second of the clock is lost when it is cut to whole seconds.
LEMMA ClockWithinSecond ==
  ASSUME clock \in Nat
  PROVE  now_s * TicksPerSecond \in Int /\ clock < now_s * TicksPerSecond + TicksPerSecond
  <1> DEFINE q == clock \div TicksPerSecond
             m == clock % TicksPerSecond
  <1>1. q \in Int /\ m \in 0..(TicksPerSecond - 1) /\ TicksPerSecond \in Nat
    BY TicksAssumption
  <1>2. clock = TicksPerSecond * q + m
    BY TicksAssumption
  <1>3. q * TicksPerSecond \in Int /\ q * TicksPerSecond = TicksPerSecond * q
    BY <1>1
  <1> HIDE DEF q, m
  <1>4. clock < q * TicksPerSecond + TicksPerSecond
    BY <1>1, <1>2, <1>3
  <1> QED BY <1>3, <1>4 DEF now_s, q

\* The readiness a stage is released on is less than a second older than the
\* rule of the stage allows.
THEOREM ReadinessNearlyFresh == Spec => ReadinessAgeWithinSecond
  <1>1. ASSUME IInv, NEW g \in DOMAIN grants, NEW k \in Stages, NEW r \in Readiness,
               RedeemCommitted(g, k, r)
        PROVE  clock - r.observed_at
                 < Profile.rules[k].readiness_maximum_age + TicksPerSecond
    <2>1. k \in DOMAIN Profile.rules /\ ReadinessFresh(Profile.rules[k], r.observed_at, now_s)
      BY <1>1 DEF RedeemCommitted, Accepts, Evaluate
    <2>2. r.observed_at \in Int
      BY DEF Readiness
    <2>3. clock \in Nat /\ TicksPerSecond \in Nat
      BY <1>1, TicksAssumption DEF IInv, TypeOK
    <2>4. Profile.rules[k].readiness_maximum_age \in Int
      BY <2>1, RulesAssumption
    <2>5. now_s * TicksPerSecond - r.observed_at <= Profile.rules[k].readiness_maximum_age
      BY <2>1 DEF ReadinessFresh
    <2>6. now_s * TicksPerSecond \in Int /\ clock < now_s * TicksPerSecond + TicksPerSecond
      BY <2>3, ClockWithinSecond
    <2> QED BY <2>2, <2>3, <2>4, <2>5, <2>6
  <1>2. IInv /\ [Next]_vars =>
          [\A g \in DOMAIN grants, k \in Stages, r \in Readiness :
             RedeemCommitted(g, k, r) =>
               clock - r.observed_at
                 < Profile.rules[k].readiness_maximum_age + TicksPerSecond]_vars
    BY <1>1
  <1> QED
    BY <1>2, Invariance, PTL DEF Spec, ReadinessAgeWithinSecond

-----------------------------------------------------------------------------
(* Lifetimes and the clock skew *)

\* A grant is stamped with the clock of its issue and lives as long as the rule
\* of its stage says.
GrantsStamped ==
  \A g \in DOMAIN grants :
    /\ grants[g].issued_at <= now_s
    /\ \E k \in DOMAIN Profile.rules :
         grants[g].expires_at = grants[g].issued_at + Profile.rules[k].entitlement_ttl

LEMMA IssuedAtType ==
  ASSUME TypeOK
  PROVE  \A g \in DOMAIN grants : grants[g].issued_at \in Nat
  <1>1. grants \in Seq(Grant)
    BY DEF TypeOK
  <1>2. \A g \in 1..Len(grants) : grants[g] \in Grant
    BY <1>1, ElementOfSeq
  <1>3. DOMAIN grants = 1..Len(grants)
    BY <1>1, LenProperties
  <1> QED BY <1>2, <1>3 DEF Grant

\* The second of a later tick is no earlier.
LEMMA SecondsGrow ==
  ASSUME NEW tick \in Nat
  PROVE  /\ tick \div TicksPerSecond \in Nat /\ (tick + 1) \div TicksPerSecond \in Nat
         /\ tick \div TicksPerSecond <= (tick + 1) \div TicksPerSecond
  <1> DEFINE T == TicksPerSecond
             q == tick \div T
             p == (tick + 1) \div T
  <1>1. T \in Nat \ {0} /\ q \in Nat /\ p \in Nat
    BY TicksAssumption
  <1>2. q * T <= tick /\ tick + 1 < p * T + T
    BY <1>1
  <1>3. q <= p
    <2> HIDE DEF q, p, T
    <2> SUFFICES ASSUME ~ (q <= p) PROVE FALSE
      OBVIOUS
    <2>1. q - p - 1 \in Nat
      BY <1>1
    <2>2. (q - p - 1) * T >= 0
      BY <1>1, <2>1
    <2>3. (q - p - 1) * T = q * T - p * T - T
      BY <1>1
    <2>4. q * T \in Int /\ p * T \in Int
      BY <1>1
    <2> QED BY <1>1, <1>2, <2>2, <2>3, <2>4
  <1> QED BY <1>1, <1>3

LEMMA GrantsStampedStep ==
  ASSUME IInv, IInv', GrantsStamped, ~ ClockMayStepBack, [Next]_vars
  PROVE  GrantsStamped'
  <1>0. TypeOK /\ TypeOK'
    BY DEF IInv
  <1>1. clock \in Nat /\ now_s \in Nat
    BY <1>0, NowIsNat, EngineAssumption DEF TypeOK
  <1>2. ASSUME UNCHANGED <<clock, grants>>
        PROVE  GrantsStamped'
    BY <1>2 DEF GrantsStamped, now_s
  <1>3. CASE Tick
    <2>1. clock' = clock + 1 /\ grants' = grants
      BY <1>3 DEF Tick
    <2>2. now_s <= now_s' /\ now_s' \in Nat
      <3>1. /\ clock \div TicksPerSecond <= (clock + 1) \div TicksPerSecond
            /\ (clock + 1) \div TicksPerSecond \in Nat
        BY <1>1, SecondsGrow
      <3>2. now_s = clock \div TicksPerSecond /\ now_s' = (clock + 1) \div TicksPerSecond
        BY <2>1 DEF now_s
      <3> QED BY <3>1, <3>2
    <2>3. \A g \in DOMAIN grants : grants[g].issued_at \in Nat
      BY <1>0, IssuedAtType
    <2> QED BY <1>1, <2>1, <2>2, <2>3 DEF GrantsStamped
  <1>4. ASSUME NEW requested \in RequestedStates, NEW r \in Readiness,
               RequestGranted(requested, r)
        PROVE  GrantsStamped'
    <2>1. /\ requested \in Stages /\ requested \in DOMAIN Profile.rules
          /\ IssueGrant(requested)
      BY <1>4 DEF RequestGranted, MayRequest, TransitionFor, TransitionAllowed, Evaluate
    <2>2. now_s' = now_s
      BY <1>4 DEF RequestGranted, now_s
    <2>3. /\ Len(grants') = Len(grants) + 1
          /\ \A g \in 1..Len(grants) : grants'[g] = grants[g]
          /\ grants'[Len(grants')] =
               [session_id |-> session_id, authorized_stage |-> requested,
                issued_at |-> now_s,
                expires_at |-> now_s + Profile.rules[requested].entitlement_ttl]
      BY <1>0, <2>1, IssueGrantType
    <2>4. /\ Len(grants) \in Nat /\ DOMAIN grants = 1..Len(grants)
          /\ DOMAIN grants' = 1..Len(grants')
      BY <1>0 DEF TypeOK
    <2>5. /\ grants'[Len(grants')].issued_at = now_s
          /\ grants'[Len(grants')].expires_at
               = now_s + Profile.rules[requested].entitlement_ttl
      BY <2>3
    <2>6. ASSUME NEW g \in DOMAIN grants'
          PROVE  /\ grants'[g].issued_at <= now_s'
                 /\ \E k \in DOMAIN Profile.rules :
                      grants'[g].expires_at
                        = grants'[g].issued_at + Profile.rules[k].entitlement_ttl
      <3>1. CASE g \in DOMAIN grants
        BY <2>2, <2>3, <2>4, <3>1 DEF GrantsStamped
      <3>2. CASE g = Len(grants')
        BY <1>1, <2>1, <2>2, <2>5, <3>2
      <3> QED BY <2>3, <2>4, <3>1, <3>2
    <2> QED BY <2>6 DEF GrantsStamped
  <1>5. ASSUME NEW gate, NEW consumed, Restart(gate, consumed)
        PROVE  GrantsStamped'
    BY <1>2, <1>5 DEF Restart
  <1> QED
    BY NextCases, <1>2, <1>3, <1>4, <1>5
    DEF EstablishSession, RequestRefused, RedeemGateFailure, RedeemRefused,
        RedeemCommitFailure, RedeemCommitted, CrashInRedeem, Crash, SetClockBack, vars

\* What an unexpired entitlement needs to stay presentable: a clock that is not
\* set back and lifetimes within the clock skew. The shipped profile's 60 s for
\* the first stage are beyond the 30 s of MAX_CLOCK_SKEW_S.
THEOREM ShortGrantsPresentable ==
  ASSUME ~ ClockMayStepBack,
         \A k \in DOMAIN Profile.rules : Profile.rules[k].entitlement_ttl <= MaxClockSkew
  PROVE  Spec => []UnexpiredIsPresentable
  <1>1. Init => GrantsStamped
    BY DEF Init, GrantsStamped
  <1>2. IInv /\ IInv' /\ GrantsStamped /\ [Next]_vars => GrantsStamped'
    BY GrantsStampedStep
  <1>3. IInv /\ GrantsStamped => UnexpiredIsPresentable
    <2> SUFFICES ASSUME IInv, GrantsStamped, NEW p \in pending_entitlements,
                        now_s <= grants[p.grant_id].expires_at
                 PROVE  EnvelopeFresh(p.grant_id)
      BY DEF UnexpiredIsPresentable
    <2> DEFINE g == p.grant_id
    <2>1. g \in DOMAIN grants /\ now_s \in Nat /\ grants[g].issued_at \in Nat
      <3>1. TypeOK /\ PendingSound
        BY DEF IInv
      <3>2. g \in DOMAIN grants
        BY <3>1 DEF PendingSound
      <3>3. now_s \in Nat
        BY <3>1, NowIsNat, EngineAssumption DEF TypeOK
      <3> QED BY <3>1, <3>2, <3>3, IssuedAtType
    <2>2. PICK k \in DOMAIN Profile.rules :
            grants[g].expires_at = grants[g].issued_at + Profile.rules[k].entitlement_ttl
      BY <2>1 DEF GrantsStamped
    <2>3. /\ Profile.rules[k].entitlement_ttl \in Nat /\ MaxClockSkew \in Nat
          /\ Profile.rules[k].entitlement_ttl <= MaxClockSkew
      BY <2>2, RulesAssumption, EngineAssumption
    <2>4. grants[g].issued_at <= now_s
      BY <2>1 DEF GrantsStamped
    <2> HIDE DEF g
    <2>5. now_s <= grants[g].issued_at + Profile.rules[k].entitlement_ttl
      BY <2>2 DEF g
    <2>6. Distance(now_s, grants[g].issued_at) <= MaxClockSkew
      BY <2>1, <2>3, <2>4, <2>5 DEF Distance
    <2> QED BY <2>6 DEF EnvelopeFresh, g
  <1> QED BY <1>1, <1>2, <1>3, Invariance, PTL DEF Spec

-----------------------------------------------------------------------------
(* The abstract gate *)

\* The releases as the abstract gate logs them, the grants and the pending
\* entitlements as it sees them.
Releases == {<<grants[g].session_id, grants[g].authorized_stage>> : g \in released}
IssuedGrants ==
  [g \in DOMAIN grants |->
     [session |-> grants[g].session_id, stage |-> grants[g].authorized_stage]]
PendingIds == {p.grant_id : p \in pending_entitlements}

\* What the gate sees of a sequence of grants is a sequence as long.
LEMMA SeenGrants ==
  ASSUME NEW issued \in Seq(Grant), NEW seen,
         seen = [g \in DOMAIN issued |-> [session |-> issued[g].session_id,
                                          stage |-> issued[g].authorized_stage]]
  PROVE  /\ seen \in Seq([session : Nat, stage : Stages])
         /\ Len(seen) = Len(issued) /\ Len(issued) \in Nat
         /\ \A g \in 1..Len(issued) :
              seen[g] = [session |-> issued[g].session_id,
                         stage |-> issued[g].authorized_stage]
  <1> DEFINE S == [session : Nat, stage : Stages]
             n == Len(issued)
  <1>1. n \in Nat /\ DOMAIN issued = 1..n /\ \A g \in 1..n : issued[g] \in Grant
    OBVIOUS
  <1>2. \A g \in 1..n : [session |-> issued[g].session_id,
                         stage |-> issued[g].authorized_stage] \in S
    BY <1>1 DEF Grant
  <1>3. seen \in [1..n -> S]
    BY <1>1, <1>2
  <1>4. seen \in Seq(S)
    BY <1>1, <1>3, SeqDef
  <1>5. Len(seen) = n
    <2>1. DOMAIN seen = 1..n /\ DOMAIN seen = 1..Len(seen) /\ Len(seen) \in Nat
      BY <1>3, <1>4, LenProperties
    <2> HIDE DEF n
    <2> QED BY <1>1, <2>1
  <1> QED BY <1>1, <1>4, <1>5

\* Steps that leave the grants and what is left to redeem alone, and release
\* nothing, are stuttering steps of the gate.
LEMMA GateStutter ==
  ASSUME UNCHANGED <<state, session_id, sessions, grants, released>>,
         PendingIds' = PendingIds
  PROVE  UNCHANGED Gate!grantVars
  <1>1. Releases' = Releases /\ IssuedGrants' = IssuedGrants
    BY DEF Releases, IssuedGrants
  <1> QED
    BY <1>1 DEF Gate!grantVars, Gate!gateVars, Releases, IssuedGrants, PendingIds

\* The gate sees an issued grant as one appended to the sequence it sees.
LEMMA IssueSeen ==
  ASSUME IInv, TypeOK', NEW requested \in RequestedStates, NEW r \in Readiness,
         RequestGranted(requested, r)
  PROVE  Gate!Issue(requested) /\ requested \in 1..4
  <1> DEFINE S == [session : Nat, stage : Stages]
             seen == [session |-> session_id, stage |-> requested]
  <1>1. /\ requested \in Stages /\ requested \in DOMAIN Profile.rules
        /\ IssueGrant(requested) /\ session_id # 0
        /\ requested = StateNumber(state) + 1
    BY DEF RequestGranted, MayRequest, TransitionFor, TransitionAllowed, Evaluate, NoSession
  <1>2. TypeOK /\ StateNumber(state) \in 0..5
    BY StateNumberType DEF IInv, TypeOK
  <1>3. Gate!InOrder(requested)
    BY <1>1, <1>2 DEF Gate!InOrder, Stages
  <1>4. /\ Len(grants') = Len(grants) + 1
        /\ \A g \in 1..Len(grants) : grants'[g] = grants[g]
        /\ grants'[Len(grants')].session_id = session_id
        /\ grants'[Len(grants')].authorized_stage = requested
    <2>1. /\ Len(grants') = Len(grants) + 1
          /\ \A g \in 1..Len(grants) : grants'[g] = grants[g]
          /\ grants'[Len(grants')] =
               [session_id |-> session_id, authorized_stage |-> requested,
                issued_at |-> now_s,
                expires_at |-> now_s + Profile.rules[requested].entitlement_ttl]
      BY <1>1, <1>2, IssueGrantType
    <2> QED BY <2>1
  <1>5. IssuedGrants' = Append(IssuedGrants, seen)
    <2>1. /\ IssuedGrants \in Seq(S) /\ Len(IssuedGrants) = Len(grants)
          /\ Len(grants) \in Nat
          /\ \A g \in 1..Len(grants) :
               IssuedGrants[g] = [session |-> grants[g].session_id,
                                  stage |-> grants[g].authorized_stage]
      BY <1>2, SeenGrants DEF IssuedGrants, TypeOK
    <2>2. /\ IssuedGrants' \in Seq(S) /\ Len(IssuedGrants') = Len(grants')
          /\ \A g \in 1..Len(grants') :
               IssuedGrants'[g] = [session |-> grants'[g].session_id,
                                   stage |-> grants'[g].authorized_stage]
      BY SeenGrants DEF IssuedGrants, TypeOK
    <2>3. seen \in S
      BY <1>1, <1>2 DEF TypeOK
    <2> HIDE DEF seen, S
    <2>4. /\ Append(IssuedGrants, seen) \in Seq(S)
          /\ Len(Append(IssuedGrants, seen)) = Len(grants) + 1
          /\ Append(IssuedGrants, seen)[Len(grants) + 1] = seen
          /\ \A g \in 1..Len(grants) : Append(IssuedGrants, seen)[g] = IssuedGrants[g]
      BY <2>1, <2>3, AppendProperties
    <2>5. ASSUME NEW g \in 1..(Len(grants) + 1)
          PROVE  IssuedGrants'[g] = Append(IssuedGrants, seen)[g]
      <3>1. CASE g \in 1..Len(grants)
        BY <1>4, <2>1, <2>2, <2>4, <3>1
      <3>2. CASE g = Len(grants) + 1
        BY <1>4, <2>1, <2>2, <2>4, <3>2 DEF seen
      <3> QED BY <2>1, <3>1, <3>2
    <2> QED BY <1>4, <2>2, <2>4, <2>5, SeqEqual
  <1>6. PendingIds' = PendingIds \cup {Len(IssuedGrants) + 1}
    <2>1. pending_entitlements' = pending_entitlements \cup
            {[grant_id |-> Len(grants) + 1, requested_state |-> requested]}
      BY <1>1 DEF IssueGrant
    <2>2. ASSUME NEW pending, NEW entry
          PROVE  {p.grant_id : p \in pending \cup {entry}}
                   = {p.grant_id : p \in pending} \cup {entry.grant_id}
      OBVIOUS
    <2>3. PendingIds' = PendingIds \cup {Len(grants) + 1}
      <3> DEFINE entry == [grant_id |-> Len(grants) + 1, requested_state |-> requested]
      <3>1. entry.grant_id = Len(grants) + 1
        OBVIOUS
      <3> HIDE DEF entry
      <3>2. pending_entitlements' = pending_entitlements \cup {entry}
        BY <2>1 DEF entry
      <3> QED BY <2>2, <3>1, <3>2 DEF PendingIds
    <2>4. Len(IssuedGrants) = Len(grants)
      BY <1>2, SeenGrants DEF IssuedGrants, TypeOK
    <2> QED BY <2>3, <2>4
  <1>7. UNCHANGED Gate!gateVars
    <2>1. \A g \in released : grants'[g] = grants[g]
      BY <1>2, <1>4 DEF TypeOK
    <2>2. UNCHANGED <<state, session_id, sessions, released>>
      BY DEF RequestGranted
    <2>3. Releases' = Releases
      BY <2>1, <2>2 DEF Releases
    <2> QED BY <2>2, <2>3 DEF Gate!gateVars, Releases
  <1> QED
    BY <1>1, <1>3, <1>5, <1>6, <1>7 DEF Gate!Issue, IssuedGrants, PendingIds, Stages

\* A presentation that gets as far as the nonce uses the grant up.
LEMMA SpendSeen ==
  ASSUME NEW g, pending_entitlements' = WithoutPending(g),
         UNCHANGED <<state, session_id, sessions, grants, released>>
  PROVE  Gate!Spend(g)
  <1>1. Releases' = Releases /\ IssuedGrants' = IssuedGrants
    BY DEF Releases, IssuedGrants
  <1>2. PendingIds' = PendingIds \ {g}
    BY DEF PendingIds, WithoutPending
  <1> QED
    BY <1>1, <1>2 DEF Gate!Spend, Gate!gateVars, Releases, IssuedGrants, PendingIds

\* A redemption that releases the stage of its grant.
LEMMA RedeemSeen ==
  ASSUME IInv, NEW g \in DOMAIN grants, NEW requested \in RequestedStates,
         NEW r \in Readiness, RedeemCommitted(g, requested, r),
         NextState(requested) # Rejected
  PROVE  Gate!Redeem(g)
  <1>1. /\ TransitionFor(state, requested) /\ session_id # 0
        /\ [grant_id |-> g, requested_state |-> requested] \in pending_entitlements
        /\ grants[g].session_id = session_id /\ grants[g].authorized_stage = requested
    BY DEF RedeemCommitted, Presentable, Accepts, GrantMatches, NoSession
  <1>2. /\ UNCHANGED <<grants, session_id, sessions>>
        /\ state' = NextState(requested) /\ released' = released \cup {g}
        /\ pending_entitlements' = WithoutPending(g)
    BY DEF RedeemCommitted
  <1>3. /\ StateNumber(state') = requested /\ requested = StateNumber(state) + 1
        /\ requested \in Stages
    BY <1>1, <1>2, ReduceAdvances DEF NextState, IInv, TypeOK
  <1>4. StateNumber(state) \in 0..5
    BY StateNumberType DEF IInv, TypeOK
  <1>5. StateNumber(state) < 4
    BY <1>3, <1>4 DEF Stages
  <1>6. <<session_id, StateNumber(state) + 1>> \notin Releases
    <2> SUFFICES ASSUME NEW h \in released, grants[h].session_id = session_id,
                        grants[h].authorized_stage = requested
                 PROVE  FALSE
      BY <1>3 DEF Releases
    <2>1. requested <= StateNumber(state)
      BY <1>3 DEF IInv, StateBackedByReleases
    <2> QED BY <1>3, <1>4, <2>1
  <1>7. Releases' = Releases \cup {<<session_id, StateNumber(state) + 1>>}
    BY <1>1, <1>2, <1>3 DEF Releases
  <1>8. Gate!Release
    BY <1>1, <1>2, <1>3, <1>5, <1>6, <1>7 DEF Gate!Release, Releases
  <1>9. IssuedGrants' = IssuedGrants /\ PendingIds' = PendingIds \ {g}
    BY <1>2 DEF IssuedGrants, PendingIds, WithoutPending
  <1>10. g \in PendingIds
    BY <1>1 DEF PendingIds
  <1>11. IssuedGrants[g].session = session_id /\ IssuedGrants[g].stage = requested
    BY <1>1 DEF IssuedGrants
  <1>12. Gate!InOrder(requested)
    BY <1>1, <1>3, <1>5 DEF Gate!InOrder
  <1>13. Gate!Redeemable(g)
    BY <1>10, <1>11, <1>12 DEF Gate!Redeemable, IssuedGrants, PendingIds
  <1> QED
    BY <1>8, <1>9, <1>13 DEF Gate!Redeem, IssuedGrants, PendingIds

\* A session is established, or the engine is left with none.
LEMMA EstablishSeen ==
  ASSUME NEW scenario \in Scenarios, NEW progress \in Progress,
         EstablishSession(scenario, progress)
  PROVE  Gate!Establish \/ Gate!LoseSession
  <1>1. /\ StateNumber(state') = 0 /\ Releases' = Releases /\ IssuedGrants' = IssuedGrants
        /\ PendingIds' = {}
    BY DEF EstablishSession, StateAfterReset, PendingAfterReset, StateNumber, Releases,
           IssuedGrants, PendingIds
  <1>2. \/ sessions' = sessions + 1 /\ session_id' = sessions'
        \/ sessions' = sessions /\ session_id' = 0
    BY DEF EstablishSession, SessionIdAfter, NoSession
  <1> QED
    BY <1>1, <1>2 DEF Gate!Establish, Gate!LoseSession, Gate!OpenSession,
                      Gate!CloseSession, Releases, IssuedGrants, PendingIds

\* A new process has no session and nothing to redeem.
LEMMA RestartSeen ==
  ASSUME NEW gate, NEW consumed, Restart(gate, consumed)
  PROVE  Gate!LoseSession
  <1>1. /\ StateNumber(state') = 0 /\ Releases' = Releases /\ IssuedGrants' = IssuedGrants
        /\ PendingIds' = {} /\ sessions' = sessions /\ session_id' = 0
    BY DEF Restart, StateNumber, Releases, IssuedGrants, PendingIds, NoSession
  <1> QED
    BY <1>1 DEF Gate!LoseSession, Gate!CloseSession, Releases, IssuedGrants, PendingIds

\* Every step of the engine is a step of the gate or leaves it unchanged.
LEMMA GateStep ==
  ASSUME IInv, IInv', [Next]_vars
  PROVE  Gate!GrantNext \/ UNCHANGED Gate!grantVars
  <1>1. TypeOK /\ TypeOK'
    BY DEF IInv
  <1>2. \A g \in DOMAIN grants : g \in 1..Len(IssuedGrants)
    BY <1>1, SeenGrants DEF IssuedGrants, TypeOK
  <1>3. ASSUME NEW g \in DOMAIN grants, Gate!Redeem(g) \/ Gate!Spend(g)
        PROVE  Gate!GrantNext
    BY <1>2, <1>3 DEF Gate!GrantNext, IssuedGrants
  <1>4. ASSUME NEW scenario \in Scenarios, NEW progress \in Progress,
               EstablishSession(scenario, progress)
        PROVE  Gate!GrantNext
    BY <1>4, EstablishSeen DEF Gate!GrantNext
  <1>5. ASSUME NEW requested \in RequestedStates, NEW r \in Readiness,
               RequestGranted(requested, r)
        PROVE  Gate!GrantNext
    BY <1>1, <1>5, IssueSeen DEF Gate!GrantNext
  <1>6. ASSUME NEW requested \in RequestedStates, RequestRefused(requested)
        PROVE  UNCHANGED Gate!grantVars
    BY <1>6, GateStutter DEF RequestRefused, PendingIds
  <1>7. ASSUME NEW g \in DOMAIN grants, NEW requested \in RequestedStates,
               RedeemGateFailure(g, requested)
        PROVE  UNCHANGED Gate!grantVars
    BY <1>7, GateStutter DEF RedeemGateFailure, memory, PendingIds
  <1>8. ASSUME NEW g \in DOMAIN grants, NEW requested \in RequestedStates,
               NEW r \in Readiness,
               RedeemRefused(g, requested, r) \/ RedeemCommitFailure(g, requested, r)
        PROVE  Gate!GrantNext
    BY <1>3, <1>8, SpendSeen DEF RedeemRefused, RedeemCommitFailure
  <1>9. ASSUME NEW g \in DOMAIN grants, NEW requested \in RequestedStates,
               NEW r \in Readiness, RedeemCommitted(g, requested, r)
        PROVE  Gate!GrantNext
    <2>1. CASE NextState(requested) = Rejected
      BY <1>3, <1>9, <2>1, SpendSeen DEF RedeemCommitted
    <2>2. CASE NextState(requested) # Rejected
      BY <1>3, <1>9, <2>2, RedeemSeen
    <2> QED BY <2>1, <2>2
  <1>10. ASSUME NEW gate, NEW consumed, Restart(gate, consumed)
         PROVE  Gate!GrantNext
    BY <1>10, RestartSeen DEF Gate!GrantNext
  <1>11. CASE Tick \/ SetClockBack \/ UNCHANGED vars
    BY <1>11, GateStutter DEF Tick, SetClockBack, vars, memory, PendingIds
  <1> QED
    BY NextCases, <1>4, <1>5, <1>6, <1>7, <1>8, <1>9, <1>10, <1>11 DEF Crash, CrashInRedeem

\* The engine implements the abstract gate: stages are released in order, one at
\* a time, each once per session, never outside a session, never in a reused
\* one, and only by redeeming a grant issued for the stage in that session.
THEOREM EngineImplementsGate == Spec => ImplementsGate
  <1>1. Init => Gate!GrantInit
    <2> SUFFICES ASSUME Init PROVE Gate!GrantInit
      OBVIOUS
    <2>1. IssuedGrants = << >> /\ PendingIds = {} /\ Releases = {}
      BY DEF Init, IssuedGrants, PendingIds, Releases
    <2> QED
      BY <2>1 DEF Init, Gate!GrantInit, Gate!GateInit, StateNumber, NoSession,
                  IssuedGrants, PendingIds, Releases
  <1>2. IInv /\ IInv' /\ [Next]_vars => [Gate!GrantNext]_(Gate!grantVars)
    BY GateStep
  <1> QED BY <1>1, <1>2, Invariance, PTL DEF Spec, ImplementsGate, Gate!GrantSpec
=============================================================================
