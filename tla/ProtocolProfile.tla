-------------------------- MODULE ProtocolProfile --------------------------
(***************************************************************************)
(* The protocol profile: validity of the profile and of the trust bundle,  *)
(* acceptability of the verified credentials, and the rule of each stage   *)
(* with its proof age, readiness age and entitlement lifetime.             *)
(*                                                                         *)
(* Seconds and milliseconds are kept apart: readiness is stamped in ticks  *)
(* (the code's milliseconds), everything else in seconds, and the caller's *)
(* clock has already been truncated to whole seconds.                      *)
(***************************************************************************)
EXTENDS Integers

CONSTANTS
  TicksPerSecond,   \* ticks of the readiness clock in a second (1000 ms)
  TrustBundle,      \* the loaded bundle: id, version, issued_at
  Profile           \* the loaded profile: valid_from, valid_until, bundle_id,
                    \* minimum_version, bundle_maximum_age, credentials (a
                    \* CredentialProfile by identifier), rules (a StageRule by
                    \* the stage it leads to)

\* A stage rule. session_required is the comparison of required_session_status
\* with "authorized".
StageRule ==
  [action : STRING, holder_proof_required : BOOLEAN, maximum_proof_age : Nat,
   session_required : BOOLEAN, readiness_maximum_age : Nat,
   entitlement_ttl : Nat]

\* A credential profile. maximum_status_age holds at most one number: the
\* code's Option.
CredentialProfile ==
  [credential_type : STRING, issuer_groups : SUBSET STRING,
   maximum_status_age : SUBSET Nat]

ASSUME TicksAssumption == TicksPerSecond \in Nat \ {0}
ASSUME RulesAssumption ==
  \A k \in DOMAIN Profile.rules :
    Profile.rules[k].entitlement_ttl \in Nat /\ Profile.rules[k].readiness_maximum_age \in Int

\* validate_foundation: the profile is in its validity interval and the
\* configured trust bundle is the expected one, recent enough and not too old.
ValidateFoundation(now) ==
  /\ Profile.valid_from <= now /\ now <= Profile.valid_until
  /\ Profile.bundle_id = TrustBundle.id
  /\ TrustBundle.version >= Profile.minimum_version
  /\ now - TrustBundle.issued_at <= Profile.bundle_maximum_age

\* The credential names a known profile and fits its type and issuer groups.
CredentialMatches(c) ==
  /\ c.profile_id \in DOMAIN Profile.credentials
  /\ LET p == Profile.credentials[c.profile_id]
     IN  /\ c.credential_type = p.credential_type
         /\ c.issuer_group \in p.issuer_groups

\* (Mutation) The age of the status check is not tested.
CredentialsMatch(credentials, now) == \A c \in credentials : CredentialMatches(c)

\* validate_credentials: every presented credential fits its profile, and the
\* status of the credential was checked recently enough. Nothing is demanded
\* of a credential that is not presented.
ValidateCredentials(credentials, now) ==
  \A c \in credentials :
    /\ CredentialMatches(c)
    /\ \A age \in Profile.credentials[c.profile_id].maximum_status_age :
         now - c.status_checked_at <= age

\* The holder-proof test of evaluate; proof_at is the code's Option, a set of
\* at most one time.
HolderProofOk(rule, proof_at, now) ==
  rule.holder_proof_required =>
    \E t \in proof_at : now - t <= rule.maximum_proof_age

\* The readiness test of evaluate: whole seconds scaled up, against a stamp in
\* ticks. Only the age has a bound, so evidence from the future passes.
ReadinessFresh(rule, observed_at, now) ==
  now * TicksPerSecond - observed_at <= rule.readiness_maximum_age

\* evaluate: the conjunction of its early returns, in their order.
Evaluate(stage, now, credentials, proof_at, session_authorized, observed_at) ==
  /\ ValidateFoundation(now)
  /\ ValidateCredentials(credentials, now)
  /\ stage \in DOMAIN Profile.rules
  /\ LET rule == Profile.rules[stage]
     IN  /\ HolderProofOk(rule, proof_at, now)
         /\ rule.session_required => session_authorized
         /\ ReadinessFresh(rule, observed_at, now)
=============================================================================
