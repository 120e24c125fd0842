---------------------------- MODULE CedarPolicy ----------------------------
(***************************************************************************)
(* The Cedar authorization of cedar.rs: the facts the engine puts into the *)
(* request context, and the permits of the commercial docking policy.      *)
(* A context carries the set of the facts that are true in it and the two  *)
(* measured quantities in whole millimetres and millimetres per second.    *)
(***************************************************************************)
EXTENDS Integers

\* Readiness measures range and closing rate in tenths of a millimetre (per
\* second): finer than the policy's unit, as the code's floating point is.
TenthsPerMilli == 10

\* (x * 1000.0).ceil() as i64
CeilMilli(x) == (x + TenthsPerMilli - 1) \div TenthsPerMilli

\* The value a quantity takes when there is no readiness (i64::MAX): above
\* every limit of the policy.
NoMeasurement == 1000000

\* The readiness checks that context() reads; an absent check reads as false.
CheckNames ==
  {"initial_hold_confirmed", "retreat_available", "relative_navigation_valid",
   "approach_corridor_clear", "closing_rate_within_limit",
   "alignment_within_limit", "capture_system_ready", "soft_capture_confirmed",
   "latches_ready", "relative_motion_stable"}

HasProfile(credentials, profile) ==
  \E c \in credentials : c.profile_id = profile

Fact(name, holds) == IF holds THEN {name} ELSE {}

\* context(): readiness is the code's Option, a set of at most one evidence
\* record.
Context(credentials, proof_valid, session_authorized, readiness, fresh) ==
  [facts |->
     Fact("registered_vehicle", HasProfile(credentials, "registered-vehicle-v1"))
       \cup Fact("docking_certified", HasProfile(credentials, "idss-compatible-v1"))
       \cup Fact("holder_proof_valid", proof_valid)
       \cup Fact("session_authorized", session_authorized)
       \cup Fact("readiness_fresh", fresh)
       \cup UNION {r.checks \cap CheckNames : r \in readiness},
   range_mm |->
     IF readiness = {} THEN NoMeasurement
     ELSE LET r == CHOOSE x \in readiness : TRUE IN CeilMilli(r.range),
   closing_rate_mmps |->
     IF readiness = {} THEN NoMeasurement
     ELSE LET r == CHOOSE x \in readiness : TRUE IN CeilMilli(r.closing_rate)]

\* The permits of the policy, by action: the facts a when-clause asks for and
\* its limits. A limit the policy does not set is NoMeasurement.
Policy ==
  [authorize_session |->
     [facts |-> {"registered_vehicle", "docking_certified", "holder_proof_valid"},
      rate |-> NoMeasurement, range |-> NoMeasurement],
   enter_approach |->
     [facts |-> {"registered_vehicle", "holder_proof_valid", "readiness_fresh",
                 "initial_hold_confirmed", "retreat_available"},
      rate |-> 600, range |-> NoMeasurement],
   enter_final_approach |->
     [facts |-> {"registered_vehicle", "docking_certified", "holder_proof_valid",
                 "session_authorized", "readiness_fresh", "relative_navigation_valid",
                 "approach_corridor_clear", "closing_rate_within_limit"},
      rate |-> 200, range |-> 1120],
   engage_soft_capture |->
     [facts |-> {"docking_certified", "holder_proof_valid", "session_authorized",
                 "readiness_fresh", "alignment_within_limit", "capture_system_ready"},
      rate |-> 100, range |-> 320],
   engage_hard_dock |->
     [facts |-> {"docking_certified", "holder_proof_valid", "session_authorized",
                 "readiness_fresh", "soft_capture_confirmed", "latches_ready",
                 "relative_motion_stable"},
      rate |-> 50, range |-> 40]]

\* authorize(): allowed only when a permit matches; an action no permit names
\* is denied.
Authorize(action, context) ==
  /\ action \in DOMAIN Policy
  /\ Policy[action].facts \subseteq context.facts
  /\ context.closing_rate_mmps <= Policy[action].rate
  /\ context.range_mm <= Policy[action].range

\* authorize_session()
AuthorizeSession(credentials, proof_valid) ==
  Authorize("authorize_session", Context(credentials, proof_valid, FALSE, {}, FALSE))

\* authorize_transition()
AuthorizeTransition(action, credentials, proof_valid, session_authorized, r, fresh) ==
  Authorize(action, Context(credentials, proof_valid, session_authorized, {r}, fresh))
=============================================================================
