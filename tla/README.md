# Verification of ACCESS in TLA+

ACCESS is a reference model of authorization for spacecraft docking: a station
(the authority) establishes a session with an approaching vehicle (the chaser),
issues short-lived signed entitlements for one docking stage at a time, and
releases a stage when its entitlement is redeemed. This directory holds TLA+
modules for its core, TLC configurations for small instances, and proofs that
TLAPS checks for all instances.

Paths below are relative to the repository; `core/` stands for
`rust/access_core/src/` and `nodes/` for
`src/docking_orchestration/docking_orchestration/`.

## 1. The system

| Component | State it keeps | Operations | Talks to |
|---|---|---|---|
| Docking state machine, `core/state_machine.rs` | none (pure) | `reduce` | engine |
| Protocol profile, `core/protocol_profile.rs` | the loaded profile | `evaluate`, `validate_foundation`, `validate_credentials` | engine |
| Authorization policy, `core/cedar.rs` | the loaded policy | `authorize_session`, `authorize_transition` | engine |
| Session engine, `core/session.rs` | docking state, session, credentials, holder proof, pending entitlements, four replay caches | `establish_session`, `request_transition`, `redeem_transition` | all of the above |
| Replay protection, `core/protocol.rs` | set of consumed identifiers and an append-only file | `consume`, `load`, `reset_ephemeral` | engine, verifier |
| Envelopes and credentials, `core/protocol.rs` | none | sign and verify | engine, verifier |
| Authority process, `core/bin/access_authority.rs` | one engine | one JSON command per line | station adapter |
| Entitlement verifier, `core/bin/access_entitlement_verifier.rs` | client trust bundle, replay file | `verify_entitlement` | chaser adapter |
| Signer, `core/bin/access_signer.rs` | none | signs one payload | engine |
| Authority client, `nodes/authority_client.py` | child process | `request` with a timeout that kills the child | adapters |
| Station and chaser adapters, `nodes/station_access.py`, `chaser_access.py` | session flags, last readiness, event log | ROS callbacks | engine, verifier, each other |
| Baseline controller, `nodes/baseline_controller.py` | docking state, pending request, reset flags | 20 Hz timer, decision and reset callbacks | adapters, Gazebo |
| Readiness monitor, dashboard, loggers | flags | timers | topics |
| Session gateway, `nodes/session_gateway.py` | leases of simulation backends | HTTP handlers, one thread per request | browsers, dashboards |

What is hard in it:

- *partial failure*: establishment and redemption are long sequences that can
  return in the middle with half of their effects done;
- *crash and restart*: only the replay logs survive; the process can be killed
  anywhere, the authority client does so on a timeout;
- *stale data*: what is judged when a grant is issued is used when it is redeemed;
- *time*: wall-clock seconds, millisecond time stamps, three different limits;
- *concurrency*: gateway threads share the pool; the ROS nodes exchange messages
  that can be late or from a run before a reset.

`PROJECT.json` lists the hazards one by one with the line where each bites.

What makes each part correct: the engine releases stages in order, once, inside
one session, on an unexpired grant that can never be used again; the replay
cache never forgets what it accepted; the gateway never gives a simulation to
two sessions; the adapters and the controller stay in step with the engine.

## 2. Modules

| Module | Models | State and actions |
|---|---|---|
| `DockingStages` | state machine and numbering | operators |
| `ProtocolProfile` | profile rules | operators over the constants `Profile`, `TrustBundle` |
| `CedarPolicy` | context and the commercial docking policy | a context is the set of facts that hold and two measurements; each permit is a condition on it |
| `AccessEngine` | session engine, its caches and logs, the process | one action per way an operation can end, see below |
| `AccessGate` | abstract specification of what the engine lets through | `OpenSession`, `CloseSession`, `Release` |
| `GrantGate` | the abstract gate with its grants: what the engine promises to the adapters | `Establish`, `LoseSession`, `Issue`, `Redeem`, `Spend` |
| `DurableCache` | abstract specification of replay protection, without files | `Accept`, `Attempt`, `StopCache`, `StartCache` |
| `ReplayJournal` | one replay cache over its file | one action per system call of `consume`, plus `Kill`, `PowerLoss`, `Start` |
| `EntitlementVerifier` | the client's verifier process on top of `ReplayJournal` | `ReadCommand`, the steps of the append, `Answer`, `AnswerError`, `Stop`, `StartVerifier`, `ClockMoves` |
| `DockingNodes` | dashboard, controller, chaser and station adapters, authority client, around `GrantGate` | one action per callback and outcome, see below |
| `DockingPromise` | abstract specification of the chaser behind the gate, without topics, adapters or timers | `Advance`, `Retreat`, `BeginRun`, and the gate's steps |
| `SessionGateway` | lease pool and request threads | `Arrive`, `ArriveStatic`, `PrepareOk`, `PrepareFails`, `Forward`, `Release`, `Status`, `Tick` |
| `MC...` | instances for TLC | constants only |
| `...Proofs` | theorems | lemmas, inductive invariants, proofs |

### AccessEngine

The variables are the fields of `AccessEngine` under their own names, the two
replay logs a grant reaches, the wall clock, and histories (`grants`, `sessions`,
`released`, `refused`). `establish_session` is one action with a parameter for how far it
got before it returned. `request_transition` is `RequestGranted` or
`RequestRefused` (which has refreshed the holder proof already, as the code has).
`redeem_transition` is `RedeemGateFailure`, `RedeemRefused`,
`RedeemCommitFailure` or `RedeemCommitted`, by the step that ended it; each keeps
the effects of the steps before. Returns that change nothing are no actions.
`Crash` and `CrashInRedeem` start a new process on the logs.

Abstractions, and why they lose nothing the properties tell apart:

- A grant is a record of the claims redemption tests; its identifier and its
  nonce, fresh random values drawn together, are its position in issue order.
  Signatures and encoding are taken as sound: what is presented is a grant that
  was issued. Any grant may be presented at any time, in any order, repeatedly.
- The messages of the handshake are signed, verified and dropped inside one call;
  their nonces are always fresh, so their replay caches can only fail, and that
  is a return of the operation.
- The provenance test of a redemption compares the grant with the profile and
  policy of the process that issued it. They are constants of a process and
  pending entitlements do not survive it, so the test is constant and left out.
- A credential's schema goes with its type. `now_s` sent by a caller and the
  clock of the process are one clock, which may be set back arbitrarily.
- A failed append may or may not have reached the log (`AppendFailures`). How the
  file itself behaves is the subject of `ReplayJournal`.

### ReplayJournal

`writeln!` on an unbuffered file makes two writes, so a line is two steps,
followed by the synchronization. A line is a sequence of chunks, each the digits
of an identifier or what a failed write left of them; a line of one whole chunk is
an identifier to `load`, any other line is not, and an odd number of digits keeps
the cache from starting. All faults may strike in every step. `SyncedLinesWhole` (no
synchronized line was joined to an unfinished one) is the condition under which the
cache keeps its full contract; `AckedEndsALine` is what holds without it. Not
modelled: loss of the directory entry of a new file, and an error of an earlier
synchronization that a later one hides.

### EntitlementVerifier

Extends `ReplayJournal`: the verifier reads a command, `verify_envelope` tests the
envelope (`Authentic`) and consumes its nonce through the journal, step by step, and
only then does `verify_command` compare authority, expiry, session and stage
(`Matches`). `Answer` is the journal's `Acknowledge` together with the comparisons;
an error of the journal is the answer `AnswerError`; commands that are refused before
the nonce change nothing and are no steps. The process can be stopped in any step and
comes back with what the file holds, if the trust bundle is valid at that moment.

Key identifier, signing key and listed authority of a message are three separate
fields, so a key that signs under another's identifier is expressible. The trust store
is keyed by the identifier alone, a later key replacing an earlier one; the assumption
`KeyIdsDistinct` says that a bundle does not do this, nothing in the code tests it. A
claim that is missing is `complete = FALSE`. Input that does not decode is refused like
an unknown key. With `verified.signer` compared to the expected authority *and* looked
up as a key identifier, an authority can only use a key whose identifier is its own
name; the instance has a second key of the first authority that shows it is refused.

### DockingNodes

| Node | Variables | Actions |
|---|---|---|
| Dashboard | `rerun_requested`, `prepare_requested` | `RequestRerun`, `RequestPrepare`, `PublishRequestedReset` |
| Controller | `ctrl_...` | `ControllerOnRun`, `ControllerOnPrepare`, `EnterStage` and `RefuseDecision` (`_on_decision`), `ControllerUpdate` (`_update`, the whole timer callback) |
| Chaser | `chaser_session`, `presented_grants`, `verifier` | `ChaserOnRun`, `ChaserOnPrepare`, `ForwardRequest`, `ChaserOnSession`, `ChaserOnGrant`, `ChaserOnDecision` |
| Station | `session_ready`, `session_denied`, `station_session`, `readiness` | `StationOnRun`, `StationOnPrepare`, `StationOnReadiness`; `EstablishSession`/`FailSession`, `GrantTransition`/`DenyTransition`/`FailTransition`, `RedeemEntitlement`/`RefuseEntitlement` for the three messages by outcome |
| Authority | `GrantGate`'s variables, `authority` | `GrantGate`'s steps inside the station's actions, through `AuthorityKilled` and `AuthorityGone` when it fails |

The engine appears as `GrantGate`, which `AccessEngine` is proved to implement and
which the nodes are proved to use only by its own steps. `ctrl_run`, `chaser_run`, `session_run`, `entered`
and `verified` are histories.

Abstractions:

- A callback is one step: the executors are single-threaded and what a callback
  publishes is seen after it. The blocking call to the authority or the verifier is
  part of the callback, with its four ends: answer, error, timeout and kill, process
  gone.
- A topic delivers in order to each subscriber; nothing orders two topics, and each
  node has its own copy of a start. Queues are unbounded (the nodes ask for a depth of
  ten, more than is ever queued here).
- How long things take is open, so a timeout may expire in any state. The restart delay
  of the controller ends only when every node outside `Slow` has handled what was sent
  to it. With all nodes in `Slow` it may end in any state; with none it outlasts
  everything published before, as the 19 s of `visual_sim.launch.py` do when no call
  is slow; the default of 3 s, which `baseline_sim.launch.py` uses, is shorter than the
  5 s a call to the authority may take, which puts the station in `Slow`.
- Readiness is there or not, and the policy's answer is a choice; `AccessEngine` says
  how they are related. The station's `_state`, which only fills in the decisions of
  the engine, events and display data are left out.
- What a killed authority may have done in its last moments is lost with it: nobody
  saw it and nothing starts another.
- Positions are reduced to having reached the goal of the state. In the callback that
  sees the reset pose confirmed, the goal compared is still that of the old state, as
  in the code. `/docking/reset` has the handlers of `/docking/run`; `initial_delay_s`
  is 0, its default.

### SessionGateway

The pool changes under its lock, so each call of it is one step; acquiring,
preparing and forwarding are separate steps of a thread. Time appears as seconds
since a lease was last used, which keeps the state space finite without a bound on
the clock. `acquire` reads the clock just before it takes the lock, the model in the
same step: a request that waits for the lock dates its lease by that much too early. `prepared` records for whom a backend was last prepared.

## 3. Runs

| Run | Result | Question |
|---|---|---|
| `engine_stages` | holds | all engine invariants and the refinement of `GrantGate`, with persistent logs, storage failures and crashes |
| `engine_clock` | holds | does a refusal stand, and do credentials hold, under a clock that jumps? |
| `engine_recheck` | violated | is readiness judged again at redemption? |
| `engine_readiness_age` | violated | is the age of readiness bounded as stated? |
| `engine_skew` | violated | can an unexpired entitlement still be presented? |
| `journal_torn` | violated | does the cache keep its contract if an append is cut short? |
| `verifier` | holds | what is left of it then, is every other step one of `DurableCache`, and are the client's verdicts sound? |
| `gateway_leases` | holds | leases apart, sticky, and eventually available |
| `gateway_isolation` | violated | is a session served only by its own instance? |
| `nodes` | holds | do the nodes stay in step with the engine, do they keep `DockingPromise`, and does every run end? |
| `nodes_late_decision` | violated | does a decision move only the run it belongs to? |
| `nodes_start` | violated | does a start with nothing failing begin the run? |

Bounds. `engine_stages` has two sessions and five grants: a full docking needs
four, the fifth is a duplicate, and an old session's grants meet a new one. Time
stands still there, which leaves every comparison of times true; `engine_clock`
has time (five instants, a profile whose limits lie inside them, memory-only
caches) with two grants. Both
have nominal readiness: the policy decides only which requests are refused, and the
signer can refuse any request, so other bodies reach no other state (`engine_stages`
has the same 218,864 with all four). `engine_recheck`, where the policy matters, has the
bodies of the scenarios and one a tenth of a millimetre out of range. `verifier` has two writes (an unfinished line
and the one joined to it, or a line and a retry), three good nonces and a short one, three
instants around a bundle valid for two of them, and ten envelopes: grants of two
authorities, one under a second key, and one message for each test that can fail.
`gateway_leases` has two backends and three sessions, so the pool can be full, and
two threads, so one can overtake another. A browser that never learned its cookie is
just one more session there. `nodes` has two starts or preparations, so that everything
of one run can meet everything of the next, and two stages, so that there is a stage
after the first and a last one. No run
uses symmetry.

Deadlock is not checked in the engine, journal, verifier and gateway runs: the bounds
on sessions, grants and writes end behaviours, and a journal that does not decode keeps
its process down for good. It is checked in `nodes`, where the controller's timer never
stops.

Fairness. In `gateway_leases`: time passes; every request to a backend ends, because the
connection has a timeout of ten seconds; and one session goes on asking, which is the
hypothesis of the statement. Release, expiry and status are under no fairness. In
`nodes` and `nodes_start`: each subscription of a node is served in the end, the
dashboard's timer fires, the pose service answers with success in the end and a move
arrives, and the controller's timer therefore sees a pending request's timeout or the
end of the restart delay. The browser is under no fairness, and nothing says that a
decision ever comes: the chaser may drop every grant.

### What the violations show

1. Redemption evaluates the profile again and not the policy, so a stage can be
   released on readiness the policy forbids; the documents speak of a recheck.
2. Ages in milliseconds are taken from a clock truncated to seconds: readiness can
   be almost a second older than its rule allows (rules go down to 100 ms).
   `ReadinessNearlyFresh` proves that it is never a whole second.
3. Envelopes are stale after 30 s, the first stage's entitlement lives for 60 s:
   its second half cannot be used. `ShortGrantsPresentable` proves that lifetimes
   within the skew, and a clock that is not set back, are enough to exclude this.
4. A line cut short makes the journal lose the *next* identifier, one that was
   reported as accepted. `WholeLinesSuffice` proves that this is all that goes wrong:
   if no append begins on an unfinished line, the full contract holds.
5. A gateway request can be served by an instance another session prepared: while
   the preparation is under way, after the lease was released or has expired, or after
   a static request made the lease. `OrderlyRequestsIsolated` proves that there is no
   fourth way; with TLC, each of its three hypotheses was found to be needed.
6. A decision is matched to a request by its resulting state alone. The run has only
   the station in `Slow`: a redemption of the first run waits there, is decided after
   the second run's first request, and moves its controller. By `EntriesBacked` it is
   still the decision of a real release. With `Slow = {}` and without failing pose
   calls TLC finds no such decision: it is the restart delay that keeps runs apart, and
   a reset pose whose call raises skips it.
7. The station's copy of the start message may be handled after the access request of
   the chaser. It then clears the new session, and the run halts at Hold.

## 4. Proofs

`AccessEngineProofs` proves every invariant and action property of `engine_stages` and
`engine_clock` and the refinement, for all profiles, evidence, clocks, sessions and
grants, with and without persistent state. Assumptions: the bounds and the skew are
natural numbers, a second has at least one tick, lifetimes of rules are natural
numbers and readiness ages are integers. None of the
invariants is inductive alone. Their conjunction needs two more facts: every grant
is of a session that was opened (so that a new session identifier has no grants),
and with persistent state the caches hold what the logs held when they were loaded
(so that a restart forgets nothing released). The core of the argument: a
pending entitlement is unreleased and of the open session; a redemption moves to
the stage one above the state; by `StateBackedByReleases` that stage has no release
in this session yet. The refinement of `GrantGate` maps the state to its number, the
session identifiers to themselves, grants to their session and stage, pending
entitlements to the grants they are of, and the released grants to pairs of session and
stage. A redemption that is refused after its nonce was consumed maps to `Spend`, one
refused before it to a stutter, and an establishment that fails half-way, like a crash,
to `LoseSession`.

Four theorems are about time. `RefusalIsFinal`: a grant refused once never releases a
stage, although the clock may be set back and the caches forget; the invariant is that
nothing refused is pending, in whatever session or process. (A grant that expired
without being presented does come back to life with the clock.) `NoReleaseOnExpired` says that no stage is released on an
expired credential although redemption never looks at the expiry. It needs
`StatusAgeWithinLifetime`: for one of the two credentials, the profile bounds the age of
the status check by the lifetime credentials are issued with. The shipped profile
fulfils it through the certification alone, and exactly (86400 s both; the
registration has 604800 s); the invariant is that the credentials of a session were
checked and issued together, so one bound covers both. `ReadinessNearlyFresh` holds for every
resolution of the clock; no run checks it, with a second of one tick it would be the
code's own comparison. `ShortGrantsPresentable` has two hypotheses, the clock is not
set back and lifetimes are within the skew; the second is the one the shipped profile
misses.

`ReplayJournalProofs` proves for every set of identifiers and all faults that
`AckedEndsALine` holds, and that `AckedIsDurable` and `AcceptedOnce` hold as long as
`SyncedLinesWhole` does. The invariant says that between the writes and the
acknowledgement the identifier ends the file, and that while synchronized lines hold
one chunk each, the memory of a running process covers everything ever accepted.

The same module shows the journal to be the cache that replay protection promises.
`DurableCache` has four variables: what is remembered (mapped to `consumed`), what is
stored (what `load` would return from the file as it is at this moment, unsynchronized
and unfinished lines included), what was accepted, and whether a cache is up. Every
step of its next-state relation keeps what was accepted in what is stored. `JournalKeepsContract`:
every step that leaves the synchronized lines whole is one of its steps or a stutter.
`JournalImplementsCache`: a behaviour in which they are always whole implements the
whole specification. `WholeLinesSuffice` puts the condition on what the process does:
it is enough that the digits of an identifier are only ever written at the beginning of
a line.

`EntitlementVerifierProofs` shows first that every step of the verifier is a step of the
journal or leaves it alone (`VerifierRunsJournal`), which carries the journal's theorems
over, the contract of `DurableCache` included (`VerifierKeepsContract`), and then proves `VerdictSound` and `SpentByGenuine` for every bundle with distinct
key identifiers, every set of messages and any clock. The invariant ties the command in
progress to the nonce being consumed and says that it is authentic; for the file, that
every chunk on any line, whole or not, carries the nonce of a genuine message.

`DockingNodesProofs` proves the five safety properties of the nodes for any number of
stages and starts and any set of faults, from the assumption that there is a stage. The
inductive invariant adds to the types and the stated properties: a halted controller has
no request pending (so an approval after a timeout is ignored); the approvals queued
stand for different releases, all logged and none entered yet (so a release moves the
controller once), and name the stage of their release (so it enters no other);
presentations on their way are of verified grants. The core of the
argument: a redemption logs a release that was not logged before, because the gate
releases the stage above its own in a session that never comes back, and publishes one
approval for it.

Two refinements connect this component to the others. `NodesUseGrants`: seen through
`GrantGate`'s variables, every step of the nodes is a step of `GrantGate` or a stutter.
With `EngineImplementsGate` this is the composition: both sides of the interface, the
engine that provides it and the adapters that use it, are proved against the same
specification. `NodesKeepPromise`: nodes and gate together implement
`DockingPromise`, with the controller's state as the position of the chaser and the
releases entered as the ones it has acted on.

`SessionGatewayProofs` proves `LeasesDisjoint` and `LeaseIsSticky` for any number
of backends, sessions and threads, and `OrderlyRequestsIsolated`: with three hypotheses
on a behaviour (a request keeps its lease until it is forwarded; no request is forwarded
while another of its session still prepares; no static file makes a lease) each request
is answered by the instance of its own session. The invariant is that every leased
backend was prepared for its session last, or is being prepared.

Only model-checked: `AbandonedIsReclaimed` and `RunSettles`, because liveness under
fairness is beyond the prover. What the violated runs ask is false of the code and has
no theorem; the theorems named with the violations above say how far it holds.

## 5. Plan

Done, in this order: the engine and its parts, the journal, the gateway, the client's
verifier, the nodes around the engine. Then the
abstract specifications of replay protection and of the chaser, and the proofs that tie
the components to them. What is left:

1. Readiness with the nodes: which status the evidence was derived from when a request
   is judged, so that the denial of a first stage by a status that overtook the request
   is derived and not chosen.
2. An abstract lease table for the gateway, as `GrantGate` is one for the engine.

Not modelled: cryptography and encodings (external, taken as sound), the Cedar
evaluator, the signer (stateless), loggers, the event lists of the outcomes and the
dashboard's snapshot (output only), the web page, Gazebo world, message definitions and
deployment files.
