-------------------------- MODULE MCSessionGateway --------------------------
(* Instances of SessionGateway for TLC. *)
EXTENDS SessionGateway

CONSTANTS b1, b2, s1, s2, s3, t1, t2

TwoBackends == <<b1, b2>>
OneBackend == <<b1>>
ThreeSessions == {s1, s2, s3}
TwoSessions == {s1, s2}
TwoThreads == {t1, t2}
=============================================================================
