--------------------------- MODULE MCAccessEngine ---------------------------
(***************************************************************************)
(* Small instances of AccessEngine for TLC. One model second stands for 15 *)
(* seconds of the shipped profile where ages and lifetimes are concerned.  *)
(***************************************************************************)
EXTENDS AccessEngine

MCTrustBundle == [id |-> "waystation-1-trust", version |-> 42, issued_at |-> 0]

Rule(action, proof_age, session, age, ttl) ==
  [action |-> action, holder_proof_required |-> TRUE,
   maximum_proof_age |-> proof_age, session_required |-> session,
   readiness_maximum_age |-> age, entitlement_ttl |-> ttl]

Credentials(registration_age, certification_age) ==
  [i \in {"registered-vehicle-v1", "idss-compatible-v1"} |->
     IF i = "registered-vehicle-v1"
     THEN [credential_type |-> "VehicleRegistrationCredential",
           issuer_groups |-> {"recognized-registrars"},
           maximum_status_age |-> {registration_age}]
     ELSE [credential_type |-> "DockingCertificationCredential",
           issuer_groups |-> {"recognized-docking-authorities"},
           maximum_status_age |-> {certification_age}]]

ProfileWith(until, registration_age, certification_age, rules) ==
  [valid_from |-> 0, valid_until |-> until, bundle_id |-> "waystation-1-trust",
   minimum_version |-> 42, bundle_maximum_age |-> 9,
   credentials |-> Credentials(registration_age, certification_age), rules |-> rules]

\* The ratios of the shipped profile: lifetimes 60/30/15/10 s and proof ages
\* 60/30/30/15 s against a clock skew of 30 s, readiness 1000/500/250/100 ms
\* with a tick of 500 ms.
ShippedProfile ==
  ProfileWith(9, 9, 9,
    << Rule("enter_approach", 4, FALSE, 2, 4),
       Rule("enter_final_approach", 2, TRUE, 1, 2),
       Rule("engage_soft_capture", 2, TRUE, 0, 1),
       Rule("engage_hard_dock", 1, TRUE, 0, 1) >>)

\* Lifetimes on both sides of the clock skew, certification status that runs
\* out with the credential, and a profile that expires: every clause of
\* evaluate can be the one that refuses.
TightProfile ==
  ProfileWith(3, 9, 2,
    << Rule("enter_approach", 3, FALSE, 2, 0),
       Rule("enter_final_approach", 1, TRUE, 1, 3),
       Rule("engage_soft_capture", 2, TRUE, 0, 1),
       Rule("engage_hard_dock", 1, TRUE, 0, 1) >>)

\* Readiness bodies after the three scenarios of the readiness monitor, and
\* one a tenth of a millimetre beyond the hard-dock range.
Nominal == [checks |-> CheckNames, range |-> 400, closing_rate |-> 500]
CorridorViolation ==
  [Nominal EXCEPT !.checks = CheckNames \ {"approach_corridor_clear"}]
LatchNotReady == [Nominal EXCEPT !.checks = CheckNames \ {"latches_ready"}]
JustOutOfRange == [Nominal EXCEPT !.range = 401]

NominalEvidence == {Nominal}
ScenarioEvidence == {Nominal, CorridorViolation, LatchNotReady, JustOutOfRange}
=============================================================================
