---------------------------- MODULE PoolRegistry ----------------------------
(***************************************************************************)
(* What the coordinator knows of its pools: the pool liveness part of      *)
(* pilar2/nct/state.py, every method of it under _pool_lock.               *)
(*                                                                         *)
(* An entry whose heartbeat is older than pool_timeout is deleted when the *)
(* registry is next looked at, before it is counted; here it is gone as    *)
(* soon as it is too old, which no caller can tell apart.                  *)
(***************************************************************************)
CONSTANT Pools             \* pool identifiers

VARIABLES
    lastSeen,              \* _pool_last_seen: pools with a recent heartbeat
    noWorkers,             \* _pool_no_workers: pools that reported none
    everSeen               \* _pools_ever_seen

registry == <<lastSeen, noWorkers, everSeen>>

RegistryInit == lastSeen = {} /\ noWorkers = {} /\ everSeen = FALSE

\* The registry of a process that ended.
ForgetPools == lastSeen' = {} /\ noWorkers' = {} /\ everSeen' = FALSE

\* Mutation of mark_pool_alive: the pool's own report stays.
KeepReport(p) ==
    /\ lastSeen' = lastSeen \union {p}
    /\ everSeen' = TRUE
    /\ UNCHANGED noWorkers

\* A heartbeat takes back what the pool reported before.
mark_pool_alive(p) ==
    /\ lastSeen' = lastSeen \union {p}
    /\ noWorkers' = noWorkers \ {p}
    /\ everSeen' = TRUE

mark_pool_dead(p) ==
    /\ noWorkers' = noWorkers \union {p}
    /\ UNCHANGED <<lastSeen, everSeen>>

\* pool_timeout has passed since the last heartbeat of p.
ExpirePool(p) ==
    /\ p \in lastSeen
    /\ lastSeen' = lastSeen \ {p} /\ noWorkers' = noWorkers \ {p}
    /\ UNCHANGED everSeen

\* Before the first heartbeat nothing is known, and the answer is no.
all_pools_dead == everSeen /\ lastSeen \subseteq noWorkers

TypeRegistry ==
    lastSeen \subseteq Pools /\ noWorkers \subseteq Pools /\ everSeen \in BOOLEAN
=============================================================================
