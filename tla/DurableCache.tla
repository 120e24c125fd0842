---------------------------- MODULE DurableCache ----------------------------
(***************************************************************************)
(* What replay protection promises (ReplayCache and ReplayStateBackend,    *)
(* protocol.rs), without files: an identifier is accepted only if the      *)
(* cache does not remember it, "durably" before success is returned, and a *)
(* cache that starts remembers everything that is stored.                  *)
(***************************************************************************)
CONSTANT Ids    \* identifiers presented to consume()

VARIABLES
  remembered,  \* what consume() refuses
  stored,      \* what load would return now
  accepted,    \* the identifiers consume() reported as accepted
  running      \* a cache is up

cacheVars == <<remembered, stored, accepted, running>>

CacheInit == remembered = {} /\ stored = {} /\ accepted = {} /\ running = TRUE

\* consume() succeeds.
Accept(id) ==
  /\ running /\ id \notin remembered
  /\ remembered' = remembered \cup {id}
  /\ accepted' = accepted \cup {id}
  /\ UNCHANGED running

\* An append is under way or has failed: what is stored may change, nothing is
\* promised of the identifier.
Attempt ==
  /\ running
  /\ UNCHANGED <<remembered, accepted, running>>

\* The process or the machine stops.
StopCache ==
  /\ remembered' = {} /\ running' = FALSE
  /\ UNCHANGED accepted

\* with_backend
StartCache ==
  /\ ~running /\ running' = TRUE
  /\ remembered' = stored
  /\ UNCHANGED <<stored, accepted>>

\* Whatever happens, what was accepted stays stored.
CacheNext ==
  /\ \/ \E id \in Ids : Accept(id)
     \/ Attempt
     \/ StopCache
     \/ StartCache
  /\ accepted' \subseteq stored'

CacheSpec == CacheInit /\ [][CacheNext]_cacheVars
=============================================================================
