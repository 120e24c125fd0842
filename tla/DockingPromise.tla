--------------------------- MODULE DockingPromise ---------------------------
(***************************************************************************)
(* What the nodes around the engine promise of the chaser, without topics, *)
(* adapters or timers: it moves to the next stage only on a release of     *)
(* exactly that stage, each release moves it once, and after a halt it     *)
(* stays or goes home until a new run is begun. The releases are those of  *)
(* the gate.                                                               *)
(***************************************************************************)
EXTENDS AccessGate

VARIABLES
  position,  \* the stage the chaser has entered
  halted,    \* it waits for a new run
  runs,      \* the runs begun
  spent      \* the releases it has acted on

vehicle == <<position, halted, runs, spent>>

PromiseInit == GateInit /\ position = 0 /\ halted = TRUE /\ runs = 0 /\ spent = {}

\* The chaser enters the next stage.
Advance ==
  /\ ~halted /\ position < LastStage
  /\ \E release \in log \ spent :
       release[2] = position + 1 /\ spent' = spent \cup {release}
  /\ position' = position + 1
  /\ UNCHANGED <<halted, runs, gateVars>>

\* It stops, goes home, or both.
Retreat ==
  /\ position' \in {0, position}
  /\ halted' \in {halted, TRUE}
  /\ UNCHANGED <<runs, spent, gateVars>>

\* A new run is begun; where the chaser is does not change yet.
BeginRun ==
  /\ runs' = runs + 1 /\ halted' = FALSE
  /\ UNCHANGED <<position, spent, gateVars>>

PromiseNext == Advance \/ Retreat \/ BeginRun \/ (GateNext /\ UNCHANGED vehicle)

PromiseSpec == PromiseInit /\ [][PromiseNext]_<<vehicle, gateVars>>
=============================================================================
