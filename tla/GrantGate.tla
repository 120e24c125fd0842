------------------------------ MODULE GrantGate ------------------------------
(***************************************************************************)
(* What the engine promises to the adapters that ask it for stages: the    *)
(* gate of AccessGate, opened only by grants. A grant is issued for the    *)
(* next stage of the open session; it is redeemed at most once, only in    *)
(* its session and only while its stage is the next one; a refused         *)
(* presentation may use it up; a new or a lost session leaves none to      *)
(* redeem. This is the engine that DockingNodes is composed with.          *)
(***************************************************************************)
EXTENDS AccessGate, Sequences

VARIABLES
  grants,          \* the grants issued so far, in issue order
  pending_grants   \* the grants that may still be redeemed

grantVars == <<gateVars, grants, pending_grants>>

GrantInit == GateInit /\ grants = << >> /\ pending_grants = {}

\* establish_session succeeds: nothing of an earlier session can be redeemed.
Establish == OpenSession /\ pending_grants' = {} /\ UNCHANGED grants

\* establish_session fails after it has reset the engine, or the process ends.
LoseSession == CloseSession /\ pending_grants' = {} /\ UNCHANGED grants

\* The stage k is the next one of the open session.
InOrder(k) == session # 0 /\ stage < LastStage /\ k = stage + 1

\* request_transition grants the stage.
Issue(k) ==
  /\ InOrder(k)
  /\ grants' = Append(grants, [session |-> session, stage |-> k])
  /\ pending_grants' = pending_grants \cup {Len(grants) + 1}
  /\ UNCHANGED gateVars

Redeemable(g) ==
  g \in pending_grants /\ grants[g].session = session /\ InOrder(grants[g].stage)

\* redeem_transition releases the stage of the grant.
Redeem(g) ==
  /\ Redeemable(g)
  /\ Release
  /\ pending_grants' = pending_grants \ {g}
  /\ UNCHANGED grants

\* redeem_transition refuses after it has consumed the nonce of the grant.
Spend(g) ==
  /\ pending_grants' = pending_grants \ {g}
  /\ UNCHANGED <<gateVars, grants>>

GrantNext ==
  \/ Establish
  \/ LoseSession
  \/ \E k \in 1..LastStage : Issue(k)
  \/ \E g \in 1..Len(grants) : Redeem(g) \/ Spend(g)

GrantSpec == GrantInit /\ [][GrantNext]_grantVars
=============================================================================
