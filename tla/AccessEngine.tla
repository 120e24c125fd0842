---------------------------- MODULE AccessEngine ----------------------------
(***************************************************************************)
(* The ACCESS session engine (session.rs): it establishes a session,       *)
(* issues a signed grant for one docking stage at a time, and releases the *)
(* stage when the grant is redeemed at its transition gate.                *)
(*                                                                         *)
(* A grant, once issued, may be presented at any later time, any number of *)
(* times and for any requested state: the envelope is in the client's      *)
(* hands. Every consume() of a replay cache may fail, with the identifier  *)
(* written to the log or not, and the process may crash between two calls  *)
(* or in the middle of a redemption and come back with what the logs hold. *)
(***************************************************************************)
EXTENDS Integers, Sequences, DockingStages, ProtocolProfile, CedarPolicy

CONSTANTS
  MaxClockSkew,         \* MAX_CLOCK_SKEW_S
  CredentialLifetime,   \* seconds from issue to expiry of a credential
  Persistent,           \* enable_persistent_state was called
  ClockMayStepBack,     \* the wall clock may be set back
  Evidence,             \* readiness bodies: checks, range, closing_rate
  MaxTick,              \* bound on the clock
  MaxSessions,          \* bound on the sessions established
  MaxGrants             \* bound on the grants issued

ASSUME EngineAssumption ==
  /\ MaxClockSkew \in Nat /\ CredentialLifetime \in Nat
  /\ Persistent \in BOOLEAN /\ ClockMayStepBack \in BOOLEAN
  /\ MaxTick \in Nat /\ MaxSessions \in Nat /\ MaxGrants \in Nat

VARIABLES
  clock,                 \* wall clock, in ticks
  state,                 \* AccessEngine.state
  identity_verified,     \* AccessEngine.authorization
  session_authorized,    \*   (its two fields that are ever set)
  session_id,            \* AccessEngine.session_id, NoSession for None
  verified_credentials,  \* AccessEngine.verified_credentials
  holder_proof_at,       \* AccessEngine.holder_proof_at_s: {} or {time}
  pending_entitlements,  \* AccessEngine.pending_entitlements
  gate_replay,           \* AccessEngine.gate_replay: nonces of grants
  consumed_grants,       \* AccessEngine.consumed_grants: grant identifiers
  gate_log,              \* gate-nonces.log
  consumed_log,          \* consumed-grants.log
  grants,                \* the signed grants issued so far, in issue order
  sessions,              \* number of sessions established so far
  released,              \* history: the grants whose stage was released
  refused                \* history: the grants refused after their nonce was consumed

memory == <<state, identity_verified, session_authorized, session_id,
            verified_credentials, holder_proof_at, pending_entitlements>>
replay == <<gate_replay, consumed_grants, gate_log, consumed_log>>
vars == <<clock, memory, replay, grants, sessions, released, refused>>

NoSession == 0

\* The claims of a grant that redemption reads. The grant identifier and the
\* nonce are fresh random values drawn together; both are represented by the
\* position of the grant in issue order.
Grant == [session_id : Nat, authorized_stage : Stages, issued_at : Nat,
          expires_at : Nat]

\* PendingEntitlement, with the identifier it is stored under.
Pending == [grant_id : Nat, requested_state : Stages]

\* VerifiedCredentialEvidence; schema_id goes with credential_type.
CredentialEvidence ==
  [profile_id : {"registered-vehicle-v1", "idss-compatible-v1"},
   credential_type :
     {"VehicleRegistrationCredential", "DockingCertificationCredential"},
   issuer_group : {"recognized-registrars", "recognized-docking-authorities"},
   status_checked_at : Nat]

\* unix_time(): the clock truncated to whole seconds.
now_s == clock \div TicksPerSecond

\* ReadinessEvidence as the caller may pass it: any body, any time stamp.
Readiness ==
  {[observed_at |-> t, checks |-> e.checks, range |-> e.range,
    closing_rate |-> e.closing_rate] : t \in 0..MaxTick, e \in Evidence}

\* AccessScenario: only ExpiredCredential changes what the engine does.
Scenarios == {"Nominal", "ExpiredCredential"}

-----------------------------------------------------------------------------
(* ReplayCache *)

\* The log after a successful append_and_sync, if there is a backend.
Appended(log, id) == IF Persistent THEN log \cup {id} ELSE log

\* The log after append_and_sync returned an error: sync_data may fail after
\* the line has been written.
AppendFailures(log, id) == {log, log \cup {id}}

\* (Mutation) A cache with a backend forgets too.
AlwaysReset(cache) == {}

\* reset_ephemeral: only a cache without a backend forgets.
ResetEphemeral(cache) == IF Persistent THEN cache ELSE {}

-----------------------------------------------------------------------------
(* establish_session *)

\* (Mutation) The status check is stamped with the credential's issue time.
StatusAtIssue(now) ==
  {[profile_id |-> "registered-vehicle-v1",
    credential_type |-> "VehicleRegistrationCredential",
    issuer_group |-> "recognized-registrars", status_checked_at |-> now - 60]}

\* The two credentials the issuer signs for the chaser, as they appear in
\* verified_credentials once verify_credential has accepted them.
IssuedCredentials(now) ==
  {[profile_id |-> "registered-vehicle-v1",
    credential_type |-> "VehicleRegistrationCredential",
    issuer_group |-> "recognized-registrars", status_checked_at |-> now],
   [profile_id |-> "idss-compatible-v1",
    credential_type |-> "DockingCertificationCredential",
    issuer_group |-> "recognized-docking-authorities", status_checked_at |-> now]}

\* expires_at_s of the registration credential.
CredentialExpiry(scenario, now) ==
  IF scenario = "ExpiredCredential" THEN now - 1 ELSE now + CredentialLifetime

\* verify_credential: the credential is in its validity interval.
VerifyCredential(scenario, now) == now <= CredentialExpiry(scenario, now)

\* How far establish_session got before it returned: the state it had set.
Progress == {"reset", "identified", "credentialed", "proved", "authorized"}

\* The steps of establish_session in order, each with what lets the function
\* return there. Random source, signer and replay log can fail in the first
\* two; later returns come from a check alone.
EstablishReturns(scenario, progress) ==
  LET verified   == VerifyCredential(scenario, now_s)
      acceptable == /\ ValidateFoundation(now_s)
                    /\ ValidateCredentials(IssuedCredentials(now_s), now_s)
      allowed    == AuthorizeSession(IssuedCredentials(now_s), TRUE)
  IN  /\ progress = "credentialed" => verified /\ ~acceptable
      /\ progress = "proved"       => verified /\ acceptable /\ ~allowed
      /\ progress = "authorized"   => verified /\ acceptable /\ allowed

\* (Mutation) reset() leaves the session identifier.
KeepSessionId(progress) ==
  IF progress = "authorized" THEN sessions + 1 ELSE session_id

\* (Mutation) The random source repeats itself.
FixedSessionId(progress) ==
  IF progress = "authorized" THEN 1 ELSE NoSession

\* session_id after establish_session: reset to None first, set last.
SessionIdAfter(progress) ==
  IF progress = "authorized" THEN sessions + 1 ELSE NoSession

\* (Mutation) reset() leaves the docking state.
KeepState == state

\* The docking state that reset() leaves.
StateAfterReset == "Hold"

\* (Mutation) reset() leaves the pending entitlements.
KeepPending == pending_entitlements

\* The pending entitlements that reset() leaves.
PendingAfterReset == {}

EstablishSession(scenario, progress) ==
  /\ sessions < MaxSessions
  /\ EstablishReturns(scenario, progress)
  /\ state' = StateAfterReset
  /\ pending_entitlements' = PendingAfterReset
  /\ gate_replay' = ResetEphemeral(gate_replay)
  /\ consumed_grants' = ResetEphemeral(consumed_grants)
  /\ identity_verified' = (progress # "reset")
  /\ verified_credentials' =
       IF progress \in {"reset", "identified"} THEN {} ELSE IssuedCredentials(now_s)
  /\ holder_proof_at' = IF progress \in {"proved", "authorized"} THEN {now_s} ELSE {}
  /\ session_authorized' = (progress = "authorized")
  /\ session_id' = SessionIdAfter(progress)
  /\ sessions' = IF progress = "authorized" THEN sessions + 1 ELSE sessions
  /\ UNCHANGED <<clock, gate_log, consumed_log, grants, released, refused>>

-----------------------------------------------------------------------------
(* request_transition *)

\* The profile rule and the Cedar policy both allow the stage, with the holder
\* proof made in this very request.
TransitionAllowed(stage, r) ==
  /\ Evaluate(stage, now_s, verified_credentials, {now_s}, session_authorized,
              r.observed_at)
  /\ AuthorizeTransition(Profile.rules[stage].action, verified_credentials, TRUE,
                         session_authorized, r,
                         ReadinessFresh(Profile.rules[stage], r.observed_at, now_s))

\* The early returns of request_transition that change nothing.
MayRequest(requested) ==
  TransitionFor(state, requested) /\ session_id # NoSession

IssueGrant(stage) ==
  /\ Len(grants) < MaxGrants
  /\ grants' = Append(grants,
       [session_id |-> session_id, authorized_stage |-> stage,
        issued_at |-> now_s,
        expires_at |-> now_s + Profile.rules[stage].entitlement_ttl])
  /\ pending_entitlements' = pending_entitlements \cup
       {[grant_id |-> Len(grants) + 1, requested_state |-> stage]}

\* The exchange with the chaser refreshed the holder proof, both evaluations
\* allow the stage, and the grant is signed and remembered.
RequestGranted(requested, r) ==
  /\ MayRequest(requested)
  /\ holder_proof_at' = {now_s}
  /\ TransitionAllowed(requested, r)
  /\ IssueGrant(requested)
  /\ UNCHANGED <<clock, state, identity_verified, session_authorized, session_id,
                 verified_credentials, replay, sessions, released, refused>>

\* The holder proof was refreshed, and then an evaluation denied the stage, or
\* the random source or the signer failed: no grant comes of it.
RequestRefused(requested) ==
  /\ MayRequest(requested)
  /\ holder_proof_at' = {now_s}
  /\ UNCHANGED <<clock, state, identity_verified, session_authorized, session_id,
                 verified_credentials, pending_entitlements, replay, grants, sessions,
                 released, refused>>

-----------------------------------------------------------------------------
(* redeem_transition *)

Distance(a, b) == IF a <= b THEN b - a ELSE a - b

\* verify_envelope: issued within the clock skew of now, either way.
EnvelopeFresh(g) == Distance(now_s, grants[g].issued_at) <= MaxClockSkew

\* Everything that redeem_transition tests before it consumes the nonce.
Presentable(g, requested) ==
  /\ TransitionFor(state, requested)
  /\ session_id # NoSession
  /\ EnvelopeFresh(g)
  /\ g \notin gate_replay

\* The entitlement is pending and the signed claims fit this redemption.
GrantMatches(g, requested) ==
  /\ [grant_id |-> g, requested_state |-> requested] \in pending_entitlements
  /\ grants[g].session_id = session_id
  /\ grants[g].authorized_stage = requested
  /\ now_s <= grants[g].expires_at

\* Everything tested between the two consume() calls. The Cedar policy is not
\* evaluated again: of the readiness, only its time stamp is read.
Accepts(g, requested, r) ==
  /\ GrantMatches(g, requested)
  /\ Evaluate(requested, now_s, verified_credentials, holder_proof_at,
              session_authorized, r.observed_at)

\* gate_replay.consume and pending_entitlements.remove, in this order.
ConsumeNonce(g) ==
  /\ gate_replay' = gate_replay \cup {g}
  /\ gate_log' = Appended(gate_log, g)

\* (Mutation) pending_entitlements.get instead of remove.
NoRemoval(g) == pending_entitlements

\* pending_entitlements after remove(grant_id).
WithoutPending(g) == {p \in pending_entitlements : p.grant_id # g}

\* The stage the protected machine moves to.
NextState(requested) ==
  Reduce(state, DockingEvent(requested),
         [identity_verified |-> identity_verified,
          session_authorized |-> session_authorized,
          docking_authorized |-> requested = 4])

\* The gate cache cannot record the nonce: nothing else happens.
RedeemGateFailure(g, requested) ==
  /\ Persistent
  /\ Presentable(g, requested)
  /\ gate_log' \in AppendFailures(gate_log, g)
  /\ UNCHANGED <<clock, memory, gate_replay, consumed_grants, consumed_log, grants,
                 sessions, released, refused>>

\* (Mutation) Expiry is tested before the nonce is consumed: an expired grant is
\* refused and keeps its nonce and its entitlement.
ExpiryFirst(g, requested, r) ==
  /\ Presentable(g, requested)
  /\ ~ Accepts(g, requested, r) \/ g \in consumed_grants
  /\ IF now_s <= grants[g].expires_at
     THEN ConsumeNonce(g) /\ pending_entitlements' = WithoutPending(g)
     ELSE UNCHANGED <<gate_replay, gate_log, pending_entitlements>>
  /\ refused' = refused \cup {g}
  /\ UNCHANGED <<clock, state, identity_verified, session_authorized, session_id,
                 verified_credentials, holder_proof_at, consumed_grants, consumed_log,
                 grants, sessions, released>>

\* The nonce is spent and the entitlement, if there was one, removed; then a
\* test fails.
RedeemRefused(g, requested, r) ==
  /\ Presentable(g, requested)
  /\ ConsumeNonce(g)
  /\ pending_entitlements' = WithoutPending(g)
  /\ ~ Accepts(g, requested, r) \/ g \in consumed_grants
  /\ refused' = refused \cup {g}
  /\ UNCHANGED <<clock, state, identity_verified, session_authorized, session_id,
                 verified_credentials, holder_proof_at, consumed_grants, consumed_log,
                 grants, sessions, released>>

\* All tests passed, but the consumed-grant cache cannot record the grant.
RedeemCommitFailure(g, requested, r) ==
  /\ Persistent
  /\ Presentable(g, requested)
  /\ ConsumeNonce(g)
  /\ pending_entitlements' = WithoutPending(g)
  /\ Accepts(g, requested, r) /\ g \notin consumed_grants
  /\ consumed_log' \in AppendFailures(consumed_log, g)
  /\ refused' = refused \cup {g}
  /\ UNCHANGED <<clock, state, identity_verified, session_authorized, session_id,
                 verified_credentials, holder_proof_at, consumed_grants, grants,
                 sessions, released>>

\* The grant is consumed and then the stage released, unless reduce refuses.
RedeemCommitted(g, requested, r) ==
  /\ Presentable(g, requested)
  /\ ConsumeNonce(g)
  /\ pending_entitlements' = WithoutPending(g)
  /\ Accepts(g, requested, r) /\ g \notin consumed_grants
  /\ consumed_grants' = consumed_grants \cup {g}
  /\ consumed_log' = Appended(consumed_log, g)
  /\ IF NextState(requested) = Rejected
     THEN refused' = refused \cup {g} /\ UNCHANGED <<state, released>>
     ELSE /\ state' = NextState(requested) /\ released' = released \cup {g}
          /\ UNCHANGED refused
  /\ UNCHANGED <<clock, identity_verified, session_authorized, session_id,
                 verified_credentials, holder_proof_at, grants, sessions>>

-----------------------------------------------------------------------------
(* The process and its clock *)

\* A new process: AccessEngine::new, then enable_persistent_state loads the
\* logs as the old process left them.
Restart(gate, consumed) ==
  /\ state' = "Hold"
  /\ identity_verified' = FALSE
  /\ session_authorized' = FALSE
  /\ session_id' = NoSession
  /\ verified_credentials' = {}
  /\ holder_proof_at' = {}
  /\ pending_entitlements' = {}
  /\ gate_log' = gate /\ consumed_log' = consumed
  /\ gate_replay' = IF Persistent THEN gate ELSE {}
  /\ consumed_grants' = IF Persistent THEN consumed ELSE {}
  /\ UNCHANGED <<clock, grants, sessions, released, refused>>

\* The process dies between two commands.
Crash == Restart(gate_log, consumed_log)

\* The process dies in redeem_transition, after the nonce was logged and
\* before or after the grant was.
CrashInRedeem(g, requested, r) ==
  /\ Persistent
  /\ Presentable(g, requested)
  /\ \/ Restart(gate_log \cup {g}, consumed_log)
     \/ /\ Accepts(g, requested, r) /\ g \notin consumed_grants
        /\ Restart(gate_log \cup {g}, consumed_log \cup {g})

Tick ==
  /\ clock < MaxTick
  /\ clock' = clock + 1
  /\ UNCHANGED <<memory, replay, grants, sessions, released, refused>>

\* Wall-clock time is not monotonic: it may be set back.
SetClockBack ==
  /\ ClockMayStepBack
  /\ \E t \in 0..MaxTick : t < clock /\ clock' = t
  /\ UNCHANGED <<memory, replay, grants, sessions, released, refused>>

-----------------------------------------------------------------------------
Init ==
  /\ clock \in 0..MaxTick
  /\ state = "Hold"
  /\ identity_verified = FALSE
  /\ session_authorized = FALSE
  /\ session_id = NoSession
  /\ verified_credentials = {}
  /\ holder_proof_at = {}
  /\ pending_entitlements = {}
  /\ gate_replay = {} /\ consumed_grants = {}
  /\ gate_log = {} /\ consumed_log = {}
  /\ grants = << >>
  /\ sessions = 0
  /\ released = {} /\ refused = {}

Next ==
  \/ \E scenario \in Scenarios, progress \in Progress :
       EstablishSession(scenario, progress)
  \/ \E requested \in RequestedStates, r \in Readiness : RequestGranted(requested, r)
  \/ \E requested \in RequestedStates : RequestRefused(requested)
  \/ \E g \in DOMAIN grants, requested \in RequestedStates :
       RedeemGateFailure(g, requested)
  \/ \E g \in DOMAIN grants, requested \in RequestedStates, r \in Readiness :
       \/ RedeemRefused(g, requested, r)
       \/ RedeemCommitFailure(g, requested, r)
       \/ RedeemCommitted(g, requested, r)
       \/ CrashInRedeem(g, requested, r)
  \/ Crash
  \/ Tick
  \/ SetClockBack

Spec == Init /\ [][Next]_vars

-----------------------------------------------------------------------------
(* Properties *)

\* Types of the engine's fields, logs and histories.
TypeOK ==
  /\ clock \in 0..MaxTick
  /\ state \in DockingState
  /\ identity_verified \in BOOLEAN /\ session_authorized \in BOOLEAN
  /\ session_id \in 0..sessions
  /\ verified_credentials \in SUBSET CredentialEvidence
  /\ holder_proof_at \in SUBSET Nat
  /\ pending_entitlements \in SUBSET Pending
  /\ grants \in Seq(Grant)
  /\ gate_replay \in SUBSET (1..Len(grants))
  /\ consumed_grants \in SUBSET (1..Len(grants))
  /\ gate_log \in SUBSET (1..Len(grants))
  /\ consumed_log \in SUBSET (1..Len(grants))
  /\ sessions \in 0..MaxSessions
  /\ released \in SUBSET (1..Len(grants)) /\ refused \in SUBSET (1..Len(grants))

\* establish_session clears the engine first and sets session_id last, so a
\* return halfway (storage, signer, random source, expired credential, profile
\* or policy) leaves no session, the Hold state and nothing to redeem; and an
\* open session is the newest, with identity, credentials and holder proof.
SessionCoherent ==
  /\ session_authorized <=> session_id # NoSession
  /\ session_id # NoSession =>
       /\ session_id = sessions
       /\ identity_verified
       /\ holder_proof_at # {}
       /\ HasProfile(verified_credentials, "registered-vehicle-v1")
       /\ HasProfile(verified_credentials, "idss-compatible-v1")
  /\ session_id = NoSession => state = "Hold" /\ pending_entitlements = {}

\* A pending entitlement belongs to the open session, is for the stage its
\* envelope names, is not ahead of the next stage, and neither its nonce nor
\* its identifier has been consumed: a presentation that fails after the nonce
\* was consumed takes the entitlement with it.
PendingSound ==
  \A p \in pending_entitlements :
    /\ p.grant_id \in DOMAIN grants
    /\ grants[p.grant_id].session_id = session_id
    /\ grants[p.grant_id].authorized_stage = p.requested_state
    /\ p.requested_state <= StateNumber(state) + 1
    /\ p.grant_id \notin gate_replay \cup consumed_grants \cup released

\* The docking state is exactly what the redeemed grants of the open session
\* add up to: one released grant for every stage up to the state, none beyond.
StateBackedByReleases ==
  \A k \in Stages :
    k <= StateNumber(state) <=>
      \E g \in released : /\ grants[g].session_id = session_id
                          /\ grants[g].authorized_stage = k

\* No stage is released twice in a session, whatever is presented again, in
\* whatever order, and whatever fails in between.
OneReleasePerStage ==
  \A g, h \in released :
    /\ grants[g].session_id = grants[h].session_id
    /\ grants[g].authorized_stage = grants[h].authorized_stage
    => g = h

\* A stage is released only after nonce and grant were recorded as consumed: in
\* the caches of the running session, and with persistent state in both logs,
\* so that no crash, restart or new session forgets it.
ReleasedIsSpent ==
  \A g \in released :
    /\ Persistent => g \in gate_log \cap consumed_log \cap gate_replay \cap consumed_grants
    /\ grants[g].session_id = session_id => g \in gate_replay \cap consumed_grants

\* A grant that was refused once, because it had expired, was stale, out of its
\* session or for any other reason found after its nonce was consumed, never
\* releases a stage: not when the clock is set back and it looks unexpired
\* again, not in a session whose caches have forgotten it, not after a restart.
RefusedStaysRefused == [][(released' \ released) \cap refused = {}]_vars

\* verify_credential looks at the expiry of a credential only when the session
\* is established. Redemption sees only the age of the status check; that no
\* stage is released on an expired credential hangs on the status age bound
\* of some credential being no longer than the credential's lifetime.
CredentialsUnexpiredAtRelease ==
  [][released' # released =>
       \A c \in verified_credentials :
         now_s <= c.status_checked_at + CredentialLifetime]_vars

\* docs/authorization-policy.md: the enforcement point "rechecks required local
\* readiness". Read as: a redemption commits only on readiness that the policy
\* of the stage permits at that moment.
RechecksReadiness ==
  [][\A g \in DOMAIN grants, k \in Stages, r \in Readiness :
       RedeemCommitted(g, k, r) =>
         AuthorizeTransition(Profile.rules[k].action, verified_credentials, TRUE,
                             session_authorized, r, TRUE)]_vars

\* The station's assessment of a request reads "age <= maximum_age_ms" for the
\* readiness of a stage: no stage is released on readiness older than its rule
\* allows, in the clock's own resolution.
ReadinessAgeBounded ==
  [][\A g \in DOMAIN grants, k \in Stages, r \in Readiness :
       RedeemCommitted(g, k, r) =>
         clock - r.observed_at <= Profile.rules[k].readiness_maximum_age]_vars

\* What the code does guarantee of the age: the clock is cut to whole seconds
\* before it is compared with the stamp, so the readiness a stage is released on
\* is less than one second older than its rule allows.
ReadinessAgeWithinSecond ==
  [][\A g \in DOMAIN grants, k \in Stages, r \in Readiness :
       RedeemCommitted(g, k, r) =>
         clock - r.observed_at < Profile.rules[k].readiness_maximum_age + TicksPerSecond]_vars

\* docs/authorization-policy.md lists what invalidates an entitlement: expiry,
\* replay, and mismatch of session, recipient, stage or provenance. Read as: an
\* entitlement of the open session that was never presented and has not
\* expired still passes the gate's envelope check.
UnexpiredIsPresentable ==
  \A p \in pending_entitlements :
    now_s <= grants[p.grant_id].expires_at => EnvelopeFresh(p.grant_id)

\* The engine, seen as the gate with its grants: of a grant, its session and its
\* stage; of the pending entitlements, the grants that can still be redeemed.
Gate == INSTANCE GrantGate WITH
  LastStage <- 4,
  stage <- StateNumber(state),
  session <- session_id,
  opened <- sessions,
  log <- {<<grants[g].session_id, grants[g].authorized_stage>> : g \in released},
  grants <- [g \in DOMAIN grants |->
               [session |-> grants[g].session_id, stage |-> grants[g].authorized_stage]],
  pending_grants <- {p.grant_id : p \in pending_entitlements}

\* Stages are released in order, each once per session, never outside one, and
\* only by redeeming a grant that was issued for the stage in this session.
ImplementsGate == Gate!GrantSpec
=============================================================================
