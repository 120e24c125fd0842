------------------------ MODULE SessionGatewayProofs ------------------------
(***************************************************************************)
(* Proofs about SessionGateway, for every list of backends, every set of    *)
(* sessions, any number of requests in flight and every idle timeout.       *)
(***************************************************************************)
EXTENDS SessionGateway, WellFoundedInduction, TLAPS

\* The first free backend is a free backend.
LEMMA FirstOfIsMember ==
  ASSUME NEW S \in SUBSET Nat, S # {}
  PROVE  FirstOf(S) \in S
  <1>1. PICK x \in S : \A y \in S : ~ (<<y, x>> \in OpToRel(<, Nat))
    BY NatLessThanWellFounded, WFMin
  <1>2. ASSUME NEW y \in S
        PROVE  ~(y < x)
    BY <1>1, <1>2, Zenon DEF OpToRel
  <1>3. \A y \in S : x <= y
    BY <1>2
  <1> QED BY <1>3 DEF FirstOf

\* A pool in which no two sessions lease the same backend.
Disjoint(pool) == \A s, u \in DOMAIN pool : pool[s].backend = pool[u].backend => s = u

\* Dropping leases keeps the pool disjoint.
LEMMA OnlyDisjoint ==
  ASSUME NEW pool, NEW S \in SUBSET DOMAIN pool, Disjoint(pool)
  PROVE  Disjoint(Only(pool, S))
  BY DEF Disjoint, Only

LEMMA ExpireDisjoint ==
  ASSUME NEW pool, Disjoint(pool)
  PROVE  Disjoint(Expire(pool))
  BY OnlyDisjoint DEF Expire

\* Renewing a lease, or leasing a free backend, keeps the pool disjoint.
LEMMA WithDisjoint ==
  ASSUME NEW pool, NEW s, NEW b, Disjoint(pool),
         \A u \in DOMAIN pool : pool[u].backend = b => u = s
  PROVE  Disjoint(With(pool, s, b))
  BY DEF Disjoint, With

LEMMA AcquireDisjoint ==
  ASSUME LeasesDisjoint, NEW s, NEW b,
         AcquireHeld(s, b) \/ AcquireNew(s, b) \/ AcquireNone(s)
  PROVE  LeasesDisjoint'
  <1> DEFINE pool == Expire(leases)
  <1>1. Disjoint(pool)
    BY ExpireDisjoint DEF LeasesDisjoint, Disjoint
  <1>2. CASE AcquireHeld(s, b)
    BY <1>1, <1>2, WithDisjoint DEF AcquireHeld, LeasesDisjoint, Disjoint
  <1>3. CASE AcquireNew(s, b)
    <2>0. FreeBackends(pool) \in SUBSET Nat
      BY GatewayAssumption DEF FreeBackends
    <2>1. FirstOf(FreeBackends(pool)) \in FreeBackends(pool)
      BY <1>3, <2>0, FirstOfIsMember DEF AcquireNew
    <2>2. \A u \in DOMAIN pool : pool[u].backend # b
      BY <1>3, <2>1 DEF AcquireNew, FreeBackends
    <2> QED BY <1>1, <1>3, <2>2, WithDisjoint DEF AcquireNew, LeasesDisjoint, Disjoint
  <1>4. CASE AcquireNone(s)
    BY <1>1, <1>4 DEF AcquireNone, LeasesDisjoint, Disjoint
  <1> QED BY <1>2, <1>3, <1>4

LEMMA WithoutDisjoint ==
  ASSUME LeasesDisjoint, NEW s, leases' = Without(leases, s)
  PROVE  LeasesDisjoint'
  BY OnlyDisjoint DEF Without, LeasesDisjoint, Disjoint

\* No two sessions ever lease the same backend: the pool keeps the backends of
\* its leases apart through every interleaving of requests, failed
\* preparations, releases and expiries.
THEOREM GatewayLeasesDisjoint == Spec => []LeasesDisjoint
  <1>1. Init => LeasesDisjoint
    BY DEF Init, LeasesDisjoint
  <1>2. ASSUME LeasesDisjoint, [Next]_vars
        PROVE  LeasesDisjoint'
    <2>1. ASSUME NEW t \in Threads, NEW s \in Sessions, Arrive(t, s) \/ ArriveStatic(t, s)
          PROVE  LeasesDisjoint'
      BY <1>2, <2>1, AcquireDisjoint DEF Arrive, ArriveStatic
    <2>2. ASSUME NEW t \in Threads, PrepareFails(t)
          PROVE  LeasesDisjoint'
      BY <1>2, <2>2, WithoutDisjoint DEF PrepareFails
    <2>3. ASSUME NEW s \in Sessions, Release(s)
          PROVE  LeasesDisjoint'
      BY <1>2, <2>3, WithoutDisjoint DEF Release
    <2>4. CASE Status
      BY <1>2, <2>4, ExpireDisjoint DEF Status, LeasesDisjoint, Disjoint
    <2>5. CASE Tick
      BY <1>2, <2>5 DEF Tick, Aged, LeasesDisjoint
    <2>6. ASSUME leases' = leases
          PROVE  LeasesDisjoint'
      BY <1>2, <2>6 DEF LeasesDisjoint
    <2> QED
      BY <1>2, <2>1, <2>2, <2>3, <2>4, <2>5, <2>6
      DEF Next, vars, PrepareOk, Forward
  <1> QED BY <1>1, <1>2, PTL DEF Spec

\* Acquiring for any session moves no lease and drops only expired ones.
LEMMA AcquireSticky ==
  ASSUME NEW s, NEW b, AcquireHeld(s, b) \/ AcquireNew(s, b) \/ AcquireNone(s),
         NEW u \in DOMAIN leases
  PROVE  \/ u \in DOMAIN leases' /\ leases'[u].backend = leases[u].backend
         \/ ~ (leases[u].idle < IdleTimeout)
  <1> DEFINE pool == Expire(leases)
  <1> SUFFICES ASSUME leases[u].idle < IdleTimeout
               PROVE  u \in DOMAIN leases' /\ leases'[u].backend = leases[u].backend
    OBVIOUS
  <1>1. u \in DOMAIN pool /\ pool[u] = leases[u]
    BY DEF Expire, Only
  <1>2. CASE AcquireHeld(s, b)
    BY <1>1, <1>2 DEF AcquireHeld, With
  <1>3. CASE AcquireNew(s, b)
    BY <1>1, <1>3 DEF AcquireNew, With
  <1>4. CASE AcquireNone(s)
    BY <1>1, <1>4 DEF AcquireNone
  <1> QED BY <1>2, <1>3, <1>4

-----------------------------------------------------------------------------
(* Types *)

\* What it is to be a pool, without the union.
LEMMA PoolFacts ==
  ASSUME NEW pool \in Pools
  PROVE  /\ DOMAIN pool \subseteq Sessions
         /\ \A s \in DOMAIN pool : pool[s] \in Lease
  BY DEF Pools

LEMMA PoolIntro ==
  ASSUME NEW S \in SUBSET Sessions, NEW pool \in [S -> Lease]
  PROVE  pool \in Pools
  BY DEF Pools

LEMMA OnlyType ==
  ASSUME NEW pool \in Pools, NEW S \in SUBSET DOMAIN pool
  PROVE  Only(pool, S) \in Pools
  <1>1. Only(pool, S) \in [S -> Lease] /\ S \subseteq Sessions
    BY PoolFacts DEF Only
  <1> QED BY <1>1, PoolIntro

LEMMA ExpireType ==
  ASSUME NEW pool \in Pools
  PROVE  Expire(pool) \in Pools
  BY OnlyType DEF Expire

LEMMA WithType ==
  ASSUME NEW pool \in Pools, NEW s \in Sessions, NEW b \in BackendSet
  PROVE  With(pool, s, b) \in Pools
  <1>1. [backend |-> b, idle |-> 0] \in Lease
    BY GatewayAssumption DEF Lease
  <1>2. DOMAIN pool \cup {s} \in SUBSET Sessions
    BY PoolFacts
  <1>3. With(pool, s, b) \in [DOMAIN pool \cup {s} -> Lease]
    BY <1>1, PoolFacts DEF With
  <1> QED BY <1>2, <1>3, PoolIntro

LEMMA AcquireType ==
  ASSUME TypeOK, NEW s \in Sessions, NEW b \in BackendSet,
         AcquireHeld(s, b) \/ AcquireNew(s, b) \/ AcquireNone(s)
  PROVE  leases' \in Pools
  BY ExpireType, WithType DEF TypeOK, AcquireHeld, AcquireNew, AcquireNone

LEMMA FirstBackend == BackendSet # {} /\ Backends[1] \in BackendSet
  BY GatewayAssumption DEF BackendSet

LEMMA WorksType ==
  ASSUME TypeOK, NEW t \in Threads, NEW pc \in {"prepare", "forward", "static"},
         NEW s \in Sessions, NEW b \in BackendSet, Works(t, pc, s, b)
  PROVE  thread' \in [Threads -> Request \cup {Idle}]
  BY DEF TypeOK, Works, Request

LEMMA BusyThread ==
  ASSUME TypeOK, NEW t \in Threads, thread[t].pc \in {"prepare", "forward", "static"}
  PROVE  thread[t].session \in Sessions /\ thread[t].backend \in BackendSet
  BY DEF TypeOK, Request, Idle

\* Types of the pool, the threads and the backends.
THEOREM GatewayTypeCorrect == Spec => []TypeOK
  <1>1. Init => TypeOK
    <2> SUFFICES ASSUME Init PROVE TypeOK
      OBVIOUS
    <2>1. leases \in [{} -> Lease]
      BY DEF Init
    <2> QED BY <2>1, PoolIntro DEF Init, TypeOK
  <1>2. ASSUME TypeOK, [Next]_vars
        PROVE  TypeOK'
    <2>1. ASSUME NEW t \in Threads, NEW s \in Sessions, Arrive(t, s)
          PROVE  TypeOK'
      <3>1. leases' \in Pools
        BY <1>2, <2>1, AcquireType, FirstBackend DEF Arrive
      <3>2. thread' \in [Threads -> Request \cup {Idle}]
        BY <1>2, <2>1, WorksType DEF Arrive, TypeOK
      <3> QED BY <1>2, <2>1, <3>1, <3>2 DEF Arrive, TypeOK
    <2>2. ASSUME NEW t \in Threads, NEW s \in Sessions, ArriveStatic(t, s)
          PROVE  TypeOK'
      <3>1. leases' \in Pools
        BY <1>2, <2>2, AcquireType, FirstBackend DEF ArriveStatic
      <3>2. thread' \in [Threads -> Request \cup {Idle}]
        BY <1>2, <2>2, WorksType, FirstBackend DEF ArriveStatic
      <3> QED BY <1>2, <2>2, <3>1, <3>2 DEF ArriveStatic, TypeOK
    <2>3. ASSUME NEW t \in Threads, PrepareOk(t)
          PROVE  TypeOK'
      <3>1. thread[t].session \in Sessions /\ thread[t].backend \in BackendSet
        BY <1>2, <2>3, BusyThread DEF PrepareOk
      <3>2. thread' \in [Threads -> Request \cup {Idle}]
        BY <1>2, <2>3, <3>1, WorksType DEF PrepareOk
      <3> QED BY <1>2, <2>3, <3>1, <3>2 DEF PrepareOk, TypeOK
    <2>4. ASSUME NEW t \in Threads, PrepareFails(t)
          PROVE  TypeOK'
      <3>1. thread[t].session \in Sessions /\ thread[t].backend \in BackendSet
        BY <1>2, <2>4, BusyThread DEF PrepareFails
      <3>2. leases' \in Pools
        BY <1>2, <2>4, OnlyType DEF PrepareFails, Without, TypeOK
      <3> QED BY <1>2, <2>4, <3>1, <3>2 DEF PrepareFails, Finishes, TypeOK
    <2>5. ASSUME NEW t \in Threads, Forward(t)
          PROVE  TypeOK'
      BY <1>2, <2>5 DEF Forward, Finishes, TypeOK
    <2>6. ASSUME NEW s \in Sessions, Release(s)
          PROVE  TypeOK'
      BY <1>2, <2>6, OnlyType DEF Release, Without, TypeOK
    <2>7. CASE Status
      BY <1>2, <2>7, ExpireType DEF Status, TypeOK
    <2>8. CASE Tick
      <3>1. DOMAIN leases \in SUBSET Sessions
        BY <1>2, PoolFacts DEF TypeOK
      <3>2. \A s \in DOMAIN leases : Aged(leases[s]) \in Lease
        BY <1>2, PoolFacts, GatewayAssumption DEF TypeOK, Lease, Aged
      <3>3. leases' \in [DOMAIN leases -> Lease]
        BY <2>8, <3>2 DEF Tick
      <3> QED BY <1>2, <2>8, <3>1, <3>3, PoolIntro DEF Tick, TypeOK
    <2>9. CASE UNCHANGED vars
      BY <1>2, <2>9 DEF vars, TypeOK
    <2> QED
      BY <1>2, <2>1, <2>2, <2>3, <2>4, <2>5, <2>6, <2>7, <2>8, <2>9 DEF Next
  <1> QED BY <1>1, <1>2, PTL DEF Spec

\* A session keeps its backend until it has been idle for the timeout, or
\* releases it, or a request of its own fails to prepare it.
THEOREM GatewayLeaseIsSticky == Spec => LeaseIsSticky
  <1>1. ASSUME TypeOK, Next, NEW u \in DOMAIN leases
        PROVE  KeepsLease(u)
    <2>1. leases[u].idle \in Nat /\ IdleTimeout \in Nat
      BY <1>1, PoolFacts, GatewayAssumption DEF TypeOK, Lease
    <2>2. ASSUME NEW t \in Threads, NEW s \in Sessions, Arrive(t, s) \/ ArriveStatic(t, s)
          PROVE  KeepsLease(u)
      <3>1. \E b : AcquireHeld(s, b) \/ AcquireNew(s, b) \/ AcquireNone(s)
        BY <2>2 DEF Arrive, ArriveStatic
      <3> QED BY <2>1, <3>1, AcquireSticky DEF KeepsLease
    <2>3. ASSUME NEW t \in Threads, PrepareFails(t)
          PROVE  KeepsLease(u)
      <3>1. CASE thread[t].session = u
        BY <2>3, <3>1 DEF KeepsLease, PrepareFails
      <3>2. CASE thread[t].session # u
        BY <2>3, <3>2 DEF KeepsLease, PrepareFails, Without, Only
      <3> QED BY <3>1, <3>2
    <2>4. ASSUME NEW s \in Sessions, Release(s)
          PROVE  KeepsLease(u)
      <3>1. CASE s = u
        BY <2>4, <3>1 DEF KeepsLease
      <3>2. CASE s # u
        BY <2>4, <3>2 DEF KeepsLease, Release, Without, Only
      <3> QED BY <3>1, <3>2
    <2>5. CASE Status
      BY <2>1, <2>5 DEF KeepsLease, Status, Expire, Only
    <2>6. CASE Tick
      BY <2>6 DEF KeepsLease, Tick, Aged
    <2>7. ASSUME leases' = leases
          PROVE  KeepsLease(u)
      BY <2>7 DEF KeepsLease
    <2> QED
      BY <1>1, <2>2, <2>3, <2>4, <2>5, <2>6, <2>7 DEF Next, PrepareOk, Forward
  <1>2. TypeOK /\ [Next]_vars => [\A s \in DOMAIN leases : KeepsLease(s)]_vars
    BY <1>1
  <1> QED BY <1>2, GatewayTypeCorrect, PTL DEF Spec, LeaseIsSticky

-----------------------------------------------------------------------------
(* Isolation *)

\* The three ways in which the gateway may hand a session an instance of another
\* one: the lease is released, expires or is lost in a failed preparation while
\* a request relies on it, a second request comes before the first has prepared
\* the instance, or a static file takes the lease and prepares nothing. TLC
\* finds the isolation broken as soon as any one of them is let in.
RequestsHoldLease ==
  \A t \in Threads :
    thread[t].pc \in {"prepare", "forward"} =>
      /\ thread[t].session \in DOMAIN leases
      /\ leases[thread[t].session].backend = thread[t].backend

PreparedBeforeUse ==
  \A t, u \in Threads :
    thread[t].pc = "prepare" /\ thread[u].pc = "forward" =>
      thread[t].session # thread[u].session

StaticTakesNoLease ==
  [][\A t \in Threads, s \in Sessions, b \in BackendSet :
       ~ (AcquireNew(s, b) /\ Works(t, "static", s, b))]_vars

\* Every leased backend runs what its session prepared, or is being prepared.
Preparing(s) == \E t \in Threads : thread[t].pc = "prepare" /\ thread[t].session = s
OwnInstance == \A s \in DOMAIN leases : Preparing(s) \/ prepared[leases[s].backend] = s

\* A step that adds no lease, moves none, prepares nothing and ends no
\* preparation.
LEMMA OwnInstanceKept ==
  ASSUME OwnInstance, prepared' = prepared,
         DOMAIN leases' \subseteq DOMAIN leases,
         \A s \in DOMAIN leases' : leases'[s].backend = leases[s].backend,
         \A t \in Threads : thread[t].pc = "prepare" => thread'[t] = thread[t]
  PROVE  OwnInstance'
  BY DEF OwnInstance, Preparing

\* The two ends of a preparation; nobody else leases the prepared backend.
LEMMA OwnInstancePrepared ==
  ASSUME TypeOK, LeasesDisjoint, RequestsHoldLease, OwnInstance, NEW t \in Threads,
         PrepareOk(t) \/ PrepareFails(t)
  PROVE  OwnInstance'
  <1> DEFINE s == thread[t].session
             b == thread[t].backend
  <1>1. /\ thread[t].pc = "prepare" /\ s \in DOMAIN leases /\ leases[s].backend = b
        /\ b \in BackendSet
    BY BusyThread DEF RequestsHoldLease, PrepareOk, PrepareFails
  <1>2. prepared' \in {prepared, [prepared EXCEPT ![b] = s]}
    BY DEF PrepareOk, PrepareFails
  <1>3. prepared \in [BackendSet -> Sessions \cup {Nobody}]
        /\ thread \in [Threads -> Request \cup {Idle}]
    BY DEF TypeOK
  <1>4. \A u \in Threads : u # t => thread'[u] = thread[u]
    BY <1>3 DEF PrepareOk, PrepareFails, Works, Finishes
  <1>5. /\ DOMAIN leases' \subseteq DOMAIN leases
        /\ \A u \in DOMAIN leases' : leases'[u].backend = leases[u].backend
    BY DEF PrepareOk, PrepareFails, Without, Only
  <1>6. ASSUME NEW u \in DOMAIN leases', u # s
        PROVE  Preparing(u)' \/ prepared'[leases'[u].backend] = u
    <2>1. leases[u].backend # b
      BY <1>1, <1>5, <1>6 DEF LeasesDisjoint
    <2>2. prepared'[leases'[u].backend] = prepared[leases[u].backend]
      <3>1. \A x \in BackendSet : x # b => prepared'[x] = prepared[x]
        BY <1>2, <1>3
      <3>2. leases[u].backend \in BackendSet
        BY <1>5, <1>6, PoolFacts DEF TypeOK, Lease
      <3> QED BY <1>5, <1>6, <2>1, <3>1, <3>2
    <2>3. CASE Preparing(u)
      <3>1. PICK v \in Threads : thread[v].pc = "prepare" /\ thread[v].session = u
        BY <2>3 DEF Preparing
      <3>2. v # t
        BY <1>6, <3>1
      <3> QED BY <1>4, <3>1, <3>2 DEF Preparing
    <2> QED BY <1>5, <2>2, <2>3 DEF OwnInstance
  <1>7. ASSUME s \in DOMAIN leases'
        PROVE  prepared'[leases'[s].backend] = s
    <2>1. PrepareOk(t)
      BY <1>7 DEF PrepareFails, Without, Only
    <2> QED BY <1>1, <1>3, <1>5, <1>7, <2>1 DEF PrepareOk
  <1> QED BY <1>6, <1>7 DEF OwnInstance

\* What acquire() does to the leases of the others: expired ones go.
LEMMA AcquireKeeps ==
  ASSUME NEW s, NEW b, AcquireHeld(s, b) \/ AcquireNew(s, b) \/ AcquireNone(s)
  PROVE  /\ DOMAIN leases' \subseteq DOMAIN leases \cup {s}
         /\ \A u \in DOMAIN leases' \cap DOMAIN leases :
              u # s => leases'[u].backend = leases[u].backend
         /\ AcquireHeld(s, b) => s \in DOMAIN leases /\ leases'[s].backend = leases[s].backend
         /\ AcquireNone(s) => s \notin DOMAIN leases'
  <1> DEFINE pool == Expire(leases)
  <1>1. DOMAIN pool \subseteq DOMAIN leases /\ \A u \in DOMAIN pool : pool[u] = leases[u]
    BY DEF Expire, Only
  <1> HIDE DEF pool
  <1>2. /\ DOMAIN With(pool, s, b) = DOMAIN pool \cup {s}
        /\ \A u \in DOMAIN pool : u # s => With(pool, s, b)[u] = pool[u]
        /\ With(pool, s, b)[s].backend = b
    BY DEF With
  <1>3. CASE AcquireHeld(s, b)
    <2>1. leases' = With(pool, s, b) /\ s \in DOMAIN pool /\ b = pool[s].backend
      BY <1>3 DEF AcquireHeld, pool
    <2>2. ~ AcquireNone(s)
      BY <1>3 DEF AcquireHeld, AcquireNone
    <2> QED BY <1>1, <1>2, <2>1, <2>2
  <1>4. CASE AcquireNew(s, b)
    <2>1. leases' = With(pool, s, b) /\ ~ AcquireHeld(s, b)
      BY <1>4 DEF AcquireNew, AcquireHeld, pool
    <2>2. ~ AcquireNone(s)
      BY <1>4 DEF AcquireNew, AcquireNone
    <2> QED BY <1>1, <1>2, <2>1, <2>2
  <1>5. CASE AcquireNone(s)
    <2>1. leases' = pool /\ s \notin DOMAIN pool /\ ~ AcquireHeld(s, b)
      BY <1>5 DEF AcquireNone, AcquireHeld, pool
    <2> QED BY <1>1, <2>1
  <1> QED BY <1>3, <1>4, <1>5

\* A page or an API request that takes a lease prepares the backend.
LEMMA OwnInstanceArrive ==
  ASSUME TypeOK, OwnInstance, NEW t \in Threads, NEW s \in Sessions,
         \/ Arrive(t, s)
         \/ ArriveStatic(t, s) /\ \A b \in BackendSet :
                                   ~ (AcquireNew(s, b) /\ Works(t, "static", s, b))
  PROVE  OwnInstance'
  <1>1. /\ thread[t] = Idle /\ prepared' = prepared
        /\ thread \in [Threads -> Request \cup {Idle}]
    BY DEF Arrive, ArriveStatic, TypeOK
  <1>2. \A u \in Threads : thread[u].pc = "prepare" => u # t
    BY <1>1 DEF Idle
  <1>3. \A u \in Threads : thread[u].pc = "prepare" => thread'[u] = thread[u]
    BY <1>1, <1>2 DEF Arrive, ArriveStatic, Works
  <1>4. CASE \E b \in BackendSet : AcquireNew(s, b) /\ Works(t, "prepare", s, b)
    <2>1. PICK b \in BackendSet : AcquireNew(s, b) /\ Works(t, "prepare", s, b)
      BY <1>4
    <2>2. Preparing(s)'
      BY <1>1, <2>1 DEF Preparing, Works
    <2>3. ASSUME NEW u \in DOMAIN leases', u # s
          PROVE  Preparing(u)' \/ prepared'[leases'[u].backend] = u
      <3>1. u \in DOMAIN leases /\ leases'[u].backend = leases[u].backend
        BY <2>1, <2>3, AcquireKeeps
      <3>2. Preparing(u) => Preparing(u)'
        BY <1>3 DEF Preparing
      <3> QED BY <1>1, <3>1, <3>2 DEF OwnInstance
    <2> QED BY <2>2, <2>3 DEF OwnInstance
  <1>5. CASE AcquireNone(s) \/ \E b \in BackendSet : AcquireHeld(s, b)
    <2>1. /\ DOMAIN leases' \subseteq DOMAIN leases
          /\ \A u \in DOMAIN leases' : leases'[u].backend = leases[u].backend
      BY <1>5, AcquireKeeps
    <2> QED BY <1>1, <1>3, <2>1, OwnInstanceKept
  <1> QED BY <1>4, <1>5 DEF Arrive, ArriveStatic

\* README.md's isolated instances, and the exact extent to which the gateway
\* provides them: with the three ways above excluded, every page and API request
\* is answered by the instance that its own session prepared.
THEOREM OrderlyRequestsIsolated ==
  Spec /\ []RequestsHoldLease /\ []PreparedBeforeUse /\ StaticTakesNoLease
    => AnsweredByOwnInstance
  <1> DEFINE NoStaticLease ==
               \A t \in Threads, s \in Sessions, b \in BackendSet :
                 ~ (AcquireNew(s, b) /\ Works(t, "static", s, b))
             Answer ==
               \A t \in Threads :
                 thread[t].pc = "forward" /\ Forward(t) =>
                   prepared[thread[t].backend] \in {thread[t].session, Nobody}
  <1>1. Init => OwnInstance
    BY DEF Init, OwnInstance
  <1>2. ASSUME TypeOK, LeasesDisjoint, RequestsHoldLease, OwnInstance, [Next]_vars,
               [NoStaticLease]_vars
        PROVE  OwnInstance'
    <2>1. ASSUME NEW t \in Threads, NEW s \in Sessions, Arrive(t, s)
          PROVE  OwnInstance'
      BY <1>2, <2>1, OwnInstanceArrive
    <2>2. ASSUME NEW t \in Threads, NEW s \in Sessions, ArriveStatic(t, s), NoStaticLease
          PROVE  OwnInstance'
      BY <1>2, <2>2, OwnInstanceArrive
    <2>3. ASSUME NEW t \in Threads, PrepareOk(t) \/ PrepareFails(t)
          PROVE  OwnInstance'
      BY <1>2, <2>3, OwnInstancePrepared
    <2>4. ASSUME NEW t \in Threads, Forward(t)
          PROVE  OwnInstance'
      <3>1. \A u \in Threads : thread[u].pc = "prepare" => thread'[u] = thread[u]
        BY <1>2, <2>4 DEF Forward, Finishes, TypeOK
      <3> QED BY <1>2, <2>4, <3>1, OwnInstanceKept DEF Forward
    <2>5. ASSUME NEW s \in Sessions, Release(s)
          PROVE  OwnInstance'
      BY <1>2, <2>5, OwnInstanceKept DEF Release, Without, Only
    <2>6. CASE Status
      BY <1>2, <2>6, OwnInstanceKept DEF Status, Expire, Only
    <2>7. CASE Tick
      BY <1>2, <2>7, OwnInstanceKept DEF Tick, Aged
    <2>8. CASE UNCHANGED vars
      BY <1>2, <2>8, OwnInstanceKept DEF vars
    <2> QED
      BY <1>2, <2>1, <2>2, <2>3, <2>4, <2>5, <2>6, <2>7, <2>8 DEF Next
  <1>3. ASSUME RequestsHoldLease, PreparedBeforeUse, OwnInstance
        PROVE  Answer
    <2> SUFFICES ASSUME NEW t \in Threads, thread[t].pc = "forward"
                 PROVE  prepared[thread[t].backend] = thread[t].session
      OBVIOUS
    <2>1. /\ thread[t].session \in DOMAIN leases
          /\ leases[thread[t].session].backend = thread[t].backend
      BY <1>3 DEF RequestsHoldLease
    <2>2. ~ Preparing(thread[t].session)
      BY <1>3 DEF PreparedBeforeUse, Preparing
    <2> QED BY <1>3, <2>1, <2>2 DEF OwnInstance
  <1>4. RequestsHoldLease /\ PreparedBeforeUse /\ OwnInstance => [Answer]_vars
    BY <1>3
  <1> HIDE DEF NoStaticLease, Answer
  <1>5. Spec /\ []RequestsHoldLease /\ [][NoStaticLease]_vars => []OwnInstance
    BY <1>1, <1>2, GatewayTypeCorrect, GatewayLeasesDisjoint, PTL DEF Spec
  <1> QED
    BY <1>4, <1>5, PTL DEF StaticTakesNoLease, AnsweredByOwnInstance, NoStaticLease, Answer
=============================================================================
