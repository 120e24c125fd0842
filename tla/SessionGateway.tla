--------------------------- MODULE SessionGateway ---------------------------
(***************************************************************************)
(* The session gateway (session_gateway.py): a pool of simulation backends  *)
(* leased to browser sessions, behind an HTTP server with one thread per    *)
(* request. The pool is changed under its lock; between acquiring a lease,  *)
(* preparing the backend and forwarding the request, other threads run.     *)
(*                                                                         *)
(* A request without a cookie gets a fresh token and is the same as one     *)
(* whose identifier holds no lease. Requests for static files without a     *)
(* cookie touch nothing and are left out.                                   *)
(***************************************************************************)
EXTENDS Integers, FiniteSets, Sequences

CONSTANTS
  Backends,     \* SIMULATION_BACKENDS, in order
  Sessions,     \* session identifiers
  Threads,      \* requests in flight at the same time, at most
  IdleTimeout,  \* SESSION_IDLE_TIMEOUT_S
  Newcomer      \* a session that keeps asking until it is served

ASSUME GatewayAssumption ==
  /\ Len(Backends) \in Nat \ {0}
  /\ IdleTimeout \in Nat
  /\ Newcomer \in Sessions

VARIABLES
  leases,    \* SessionPool.leases: session -> backend and seconds since last use
  thread,    \* the request each handler thread is working on
  prepared   \* of each backend: the session /api/prepare last ran for

vars == <<leases, thread, prepared>>

Nobody == "nobody"
BackendSet == {Backends[i] : i \in 1..Len(Backends)}

\* Idle time beyond the timeout makes no difference.
Lease == [backend : BackendSet, idle : 0..IdleTimeout]

Idle == [pc |-> "idle"]
Request == [pc : {"prepare", "forward", "static"}, session : Sessions,
            backend : BackendSet]

Pools == UNION {[S -> Lease] : S \in SUBSET Sessions}

-----------------------------------------------------------------------------
(* SessionPool *)

Only(pool, S) == [s \in S |-> pool[s]]

\* (Mutation) A lease is dropped one second early.
ExpireEarly(pool) == Only(pool, {s \in DOMAIN pool : pool[s].idle + 1 < IdleTimeout})

\* (Mutation) Nothing expires.
ExpireNone(pool) == pool

\* _expire
Expire(pool) == Only(pool, {s \in DOMAIN pool : pool[s].idle < IdleTimeout})

With(pool, s, b) ==
  [x \in DOMAIN pool \cup {s} |->
     IF x = s THEN [backend |-> b, idle |-> 0] ELSE pool[x]]

\* (Mutation) Any backend is free.
AllBackends(pool) == 1..Len(Backends)

\* Positions of the backends that no session leases.
FreeBackends(pool) ==
  {i \in 1..Len(Backends) : \A s \in DOMAIN pool : pool[s].backend # Backends[i]}

FirstOf(S) == CHOOSE i \in S : \A j \in S : i <= j

\* The three returns of acquire().
AcquireHeld(s, b) ==
  LET pool == Expire(leases) IN
  /\ s \in DOMAIN pool
  /\ b = pool[s].backend
  /\ leases' = With(pool, s, b)

AcquireNew(s, b) ==
  LET pool == Expire(leases) IN
  /\ s \notin DOMAIN pool
  /\ FreeBackends(pool) # {}
  /\ b = Backends[FirstOf(FreeBackends(pool))]
  /\ leases' = With(pool, s, b)

AcquireNone(s) ==
  LET pool == Expire(leases) IN
  /\ s \notin DOMAIN pool
  /\ FreeBackends(pool) = {}
  /\ leases' = pool

\* release()
Without(pool, s) == Only(pool, DOMAIN pool \ {s})

-----------------------------------------------------------------------------
(* The handlers; every step but Arrive is one that a thread owes *)

Works(t, pc, s, b) ==
  thread' = [thread EXCEPT ![t] = [pc |-> pc, session |-> s, backend |-> b]]

Finishes(t) == thread' = [thread EXCEPT ![t] = Idle]

\* _proxy of "/" or "/api/...": lease a backend, prepare it if it is new. A
\* full pool answers 503 and leaves the thread free.
Arrive(t, s) ==
  /\ thread[t] = Idle
  /\ \/ \E b \in BackendSet : AcquireHeld(s, b) /\ Works(t, "forward", s, b)
     \/ \E b \in BackendSet : AcquireNew(s, b) /\ Works(t, "prepare", s, b)
     \/ AcquireNone(s) /\ UNCHANGED thread
  /\ UNCHANGED prepared

\* _proxy of a static file with a cookie: the lease is acquired or renewed,
\* the backend is not prepared, and without a lease the first one serves.
ArriveStatic(t, s) ==
  /\ thread[t] = Idle
  /\ \/ \E b \in BackendSet :
          (AcquireHeld(s, b) \/ AcquireNew(s, b)) /\ Works(t, "static", s, b)
     \/ AcquireNone(s) /\ Works(t, "static", s, Backends[1])
  /\ UNCHANGED prepared

\* _prepare_backend answered 202.
PrepareOk(t) ==
  /\ thread[t].pc = "prepare"
  /\ prepared' = [prepared EXCEPT ![thread[t].backend] = thread[t].session]
  /\ Works(t, "forward", thread[t].session, thread[t].backend)
  /\ UNCHANGED leases

\* _prepare_backend failed, before or after it took effect: the lease goes.
PrepareFails(t) ==
  /\ thread[t].pc = "prepare"
  /\ prepared' \in {prepared, [prepared EXCEPT ![thread[t].backend] = thread[t].session]}
  /\ leases' = Without(leases, thread[t].session)
  /\ Finishes(t)

\* The request goes to the backend the thread remembers, and is answered with
\* the backend's response or with 502.
Forward(t) ==
  /\ thread[t].pc \in {"forward", "static"}
  /\ Finishes(t)
  /\ UNCHANGED <<leases, prepared>>

\* POST /gateway/release, sent when a page is left.
Release(s) ==
  /\ leases' = Without(leases, s)
  /\ UNCHANGED <<thread, prepared>>

\* GET /gateway/status
Status ==
  /\ leases' = Expire(leases)
  /\ UNCHANGED <<thread, prepared>>

Aged(lease) ==
  [backend |-> lease.backend,
   idle |-> IF lease.idle < IdleTimeout THEN lease.idle + 1 ELSE lease.idle]

\* A second of time.monotonic().
Tick ==
  /\ leases' = [s \in DOMAIN leases |-> Aged(leases[s])]
  /\ UNCHANGED <<thread, prepared>>

-----------------------------------------------------------------------------
Init ==
  /\ leases = [s \in {} |-> Nobody]
  /\ thread = [t \in Threads |-> Idle]
  /\ prepared = [b \in BackendSet |-> Nobody]

Next ==
  \/ \E t \in Threads :
       \/ \E s \in Sessions : Arrive(t, s) \/ ArriveStatic(t, s)
       \/ PrepareOk(t)
       \/ PrepareFails(t)
       \/ Forward(t)
  \/ \E s \in Sessions : Release(s)
  \/ Status
  \/ Tick

\* Time passes, every request to a backend ends (it has a timeout of 10 s) and
\* the newcomer goes on asking.
Fairness ==
  /\ WF_vars(Tick)
  /\ \A t \in Threads : WF_vars(PrepareOk(t) \/ PrepareFails(t)) /\ WF_vars(Forward(t))
  /\ WF_vars(\E t \in Threads : Arrive(t, Newcomer))

Spec == Init /\ [][Next]_vars

FairSpec == Spec /\ Fairness

-----------------------------------------------------------------------------
(* Properties *)

\* Types of the pool, the threads and the backends.
TypeOK ==
  /\ leases \in Pools
  /\ thread \in [Threads -> Request \cup {Idle}]
  /\ prepared \in [BackendSet -> Sessions \cup {Nobody}]

\* No two sessions lease the same backend, whatever expires, is released or
\* fails between the steps of the requests in flight.
LeasesDisjoint ==
  \A s, u \in DOMAIN leases : leases[s].backend = leases[u].backend => s = u

\* A session keeps its backend: acquire, expiry, status and the requests of
\* other sessions never move it, and take it away only after the idle timeout,
\* unless the session itself releases it or fails to prepare it.
KeepsLease(s) ==
  \/ s \in DOMAIN leases' /\ leases'[s].backend = leases[s].backend
  \/ leases[s].idle >= IdleTimeout
  \/ Release(s)
  \/ \E t \in Threads : /\ thread[t].pc = "prepare" /\ thread[t].session = s
                        /\ PrepareFails(t)

LeaseIsSticky == [][\A s \in DOMAIN leases : KeepsLease(s)]_vars

\* README.md: "Each browser is assigned one of three isolated ROS/Gazebo
\* instances". Read as: no page or API request of a session is answered by an
\* instance that still runs what another session prepared.
AnsweredByOwnInstance ==
  [][\A t \in Threads :
       thread[t].pc = "forward" /\ Forward(t) =>
         prepared[thread[t].backend] \in {thread[t].session, Nobody}]_vars

\* "A fourth session receives HTTP 503 until a slot is released or an abandoned
\* lease expires": if the others stop asking, a session that keeps asking gets
\* a lease.
OthersSilent ==
  \A s \in Sessions \ {Newcomer} :
    /\ s \in DOMAIN leases => leases[s].idle > 0
    /\ \A t \in Threads : thread[t] # Idle => thread[t].session # s

AbandonedIsReclaimed == (<>[]OthersSilent) => []<>(Newcomer \in DOMAIN leases)
=============================================================================
