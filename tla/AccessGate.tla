----------------------------- MODULE AccessGate -----------------------------
(***************************************************************************)
(* What the engine promises to the docking mechanism behind its gate,      *)
(* without envelopes, caches, clocks or faults: stages are released one at *)
(* a time and in order, only inside a session, each at most once per       *)
(* session; a new session starts again at Hold and is never one that was   *)
(* open before; when the session is lost, the stage is Hold.               *)
(***************************************************************************)
EXTENDS Naturals

CONSTANTS LastStage

VARIABLES
  stage,     \* number of stages released in the open session
  session,   \* the open session, 0 when there is none
  opened,    \* number of sessions ever opened
  log        \* the releases, as <<session, stage>> pairs

gateVars == <<stage, session, opened, log>>

GateInit == stage = 0 /\ session = 0 /\ opened = 0 /\ log = {}

\* A fresh session replaces the open one, if any.
OpenSession ==
  /\ opened' = opened + 1
  /\ session' = opened'
  /\ stage' = 0
  /\ UNCHANGED log

\* The session ends: a failed establishment or a restart.
CloseSession ==
  /\ session' = 0
  /\ stage' = 0
  /\ UNCHANGED <<opened, log>>

Release ==
  /\ session # 0
  /\ stage < LastStage
  /\ <<session, stage + 1>> \notin log
  /\ stage' = stage + 1
  /\ log' = log \cup {<<session, stage + 1>>}
  /\ UNCHANGED <<session, opened>>

GateNext == OpenSession \/ CloseSession \/ Release

GateSpec == GateInit /\ [][GateNext]_gateVars
=============================================================================
