---------------------------- MODULE HITLManager ----------------------------
(***************************************************************************)
(* The store of pending human-approval actions: HITLManager of             *)
(* backend/orchestrator/hitl.py.  Redis is shared by all workers; each     *)
(* worker process also owns an in-memory fallback dict.  Every operation   *)
(* tries Redis first and falls back when Redis cannot be reached, so the   *)
(* two stores can hold different copies of the same action.                *)
(*                                                                         *)
(* An action's content never changes after save except that the Slack flow *)
(* adds the coordinates of its thread ("amended"), so a copy is one of     *)
(* "none", "saved" and "amended".                                          *)
(***************************************************************************)
EXTENDS Naturals

CONSTANTS Ids,          \* hitl_ids, one uuid4 per proposal
          Workers,      \* backend processes behind the load balancer
          MaxOutages,   \* bound on the number of Redis outages
          MaxRestarts   \* bound on the number of worker restarts

ASSUME BoundsAssumption == MaxOutages \in Nat /\ MaxRestarts \in Nat

VARIABLES redis,     \* the keys hitl:{id} in Redis
          fallback,  \* HITLManager._fallback of each worker
          redisUp,   \* whether Redis answers
          outages,   \* how many times Redis went away so far
          restarts,  \* how many worker restarts happened so far
          dropped,   \* ids whose Redis key is gone though nobody deleted it
          lost       \* ids that were in the fallback of a restarted worker

storeVars == <<redis, fallback, redisUp, outages, restarts, dropped, lost>>

Copy == {"none", "saved", "amended"}

StoreTypeOK ==
    /\ redis \in [Ids -> Copy]
    /\ fallback \in [Workers -> [Ids -> Copy]]
    /\ redisUp \in BOOLEAN
    /\ outages \in 0..MaxOutages
    /\ restarts \in 0..MaxRestarts
    /\ dropped \in SUBSET Ids
    /\ lost \in SUBSET Ids

StoreInit ==
    /\ redis = [id \in Ids |-> "none"]
    /\ fallback = [w \in Workers |-> [id \in Ids |-> "none"]]
    /\ redisUp = TRUE
    /\ outages = 0
    /\ restarts = 0
    /\ dropped = {}
    /\ lost = {}

-----------------------------------------------------------------------------
(* Operations, each the part of a method between two awaits.               *)

\* get(): Redis first; an absent key or a failed read goes to the fallback.
Get(w, id) ==
    IF redisUp /\ redis[id] # "none" THEN redis[id] ELSE fallback[w][id]

\* Wrong on purpose: a save() that never tries Redis.
SaveLocally(w, id) ==
    /\ fallback' = [fallback EXCEPT ![w][id] = "saved"]
    /\ UNCHANGED <<redis, redisUp, outages, restarts, dropped, lost>>

\* save(): SET with a TTL, or the worker's own dict when Redis is away.
Save(w, id) ==
    /\ \/ /\ redisUp
          /\ redis' = [redis EXCEPT ![id] = "saved"]
          /\ UNCHANGED fallback
       \/ /\ ~redisUp
          /\ fallback' = [fallback EXCEPT ![w][id] = "saved"]
          /\ UNCHANGED redis
    /\ UNCHANGED <<redisUp, outages, restarts, dropped, lost>>

\* The fallback branch of resolve(): _fallback.pop(hitl_id, None).
Pop(w, id) ==
    /\ fallback' = [fallback EXCEPT ![w][id] = "none"]
    /\ UNCHANGED <<redis, redisUp, outages, restarts, dropped, lost>>

\* Wrong on purpose: a resolve() that returns what it read and keeps the key.
DeleteForgotten(w, id, hit) ==
    IF redisUp /\ hit THEN UNCHANGED storeVars ELSE Pop(w, id)

\* redis.delete inside resolve().  hit says whether the GET before it found
\* the action: if it did, resolve() returns and never looks at the fallback.
Delete(w, id, hit) ==
    \/ /\ redisUp
       /\ redis' = [redis EXCEPT ![id] = "none"]
       /\ fallback' = IF hit THEN fallback
                             ELSE [fallback EXCEPT ![w][id] = "none"]
       /\ UNCHANGED <<redisUp, outages, restarts, dropped, lost>>
    \/ ~redisUp /\ Pop(w, id)

-----------------------------------------------------------------------------
(* The environment of the store.                                           *)

RedisDown ==
    /\ redisUp
    /\ outages < MaxOutages
    /\ redisUp' = FALSE
    /\ outages' = outages + 1
    /\ UNCHANGED <<redis, fallback, restarts, dropped, lost>>

RedisBack ==
    /\ ~redisUp
    /\ redisUp' = TRUE
    /\ UNCHANGED <<redis, fallback, outages, restarts, dropped, lost>>

\* Redis drops a key: the TTL set by save() runs out, or the key is evicted at
\* maxmemory.  The fallback dict has neither.
Expire(id) ==
    /\ redis[id] # "none"
    /\ redis' = [redis EXCEPT ![id] = "none"]
    /\ dropped' = dropped \cup {id}
    /\ UNCHANGED <<fallback, redisUp, outages, restarts, lost>>

\* Redis drops all keys: admin_clear_all flushes the database, the pending
\* actions of every project included, or Redis restarts, which keeps nothing.
FlushAll ==
    /\ \E id \in Ids : redis[id] # "none"
    /\ redis' = [id \in Ids |-> "none"]
    /\ dropped' = dropped \cup {id \in Ids : redis[id] # "none"}
    /\ UNCHANGED <<fallback, redisUp, outages, restarts, lost>>

\* A worker restarts with an empty fallback; Redis keeps its keys.
ForgetFallback(w) ==
    /\ restarts < MaxRestarts
    /\ restarts' = restarts + 1
    /\ fallback' = [fallback EXCEPT ![w] = [id \in Ids |-> "none"]]
    /\ lost' = lost \cup {id \in Ids : fallback[w][id] # "none"}
    /\ UNCHANGED <<redis, redisUp, outages, dropped>>

=============================================================================
