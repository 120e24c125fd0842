--------------------------- MODULE MCDockingNodes ---------------------------
(* DockingNodes for TLC. *)
EXTENDS DockingNodes

AllFaults == FaultKinds
=============================================================================
