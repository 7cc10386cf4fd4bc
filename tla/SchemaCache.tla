----------------------------- MODULE SchemaCache -----------------------------
(***************************************************************************)
(* The schema cache of one Manager: FallbackCache over Redis and a map in   *)
(* memory, with the monitor that decides whether Redis is used.  An entry   *)
(* is a schema snapshot and the time it expires.  Redis, which other        *)
(* Managers share, is external.                                             *)
(***************************************************************************)
EXTENDS ApiBase

CONSTANT TTL

ASSUME CacheAssumption == TTL \in Nat \ {0}

VARIABLES redis, memory,   \* the entries: [Tenants \X Names -> entry]
          useRedis,        \* what the monitor last saw
          redisUp          \* external: whether Redis answers

cacheVars == <<redis, memory, useRedis, redisUp>>

NoEntry == [snapshot |-> None, expires |-> 0]

(* Mutation: the key leaves out the tenant. *)
UnscopedKey(t, n) == <<CHOOSE u \in Tenants : TRUE, n>>

(* scopedKey, cacheKey: the tenant of the request is part of the key. *)
Key(t, n) == <<t, n>>
CacheKeys == Tenants \X Names

CacheInit ==
    /\ redis = [k \in CacheKeys |-> NoEntry] /\ memory = [k \in CacheKeys |-> NoEntry]
    /\ useRedis \in BOOLEAN /\ redisUp \in BOOLEAN

(* RedisCache.Get, which fails when Redis does not answer; Redis itself     *)
(* drops what has expired.                                                  *)
RedisGet(k) ==
    IF redisUp /\ redis[k].snapshot # None /\ now < redis[k].expires
    THEN redis[k].snapshot ELSE None

(* Mutation: the map trusts its cleanup to have removed what has expired. *)
MemoryGetAnything(k) == memory[k].snapshot

(* InMemoryCache.Get: what has expired is a miss, removed or not. *)
MemoryGet(k) ==
    IF memory[k].snapshot # None /\ ~(now > memory[k].expires)
    THEN memory[k].snapshot ELSE None

(* FallbackCache.Set: memory in any case, then Redis. *)
SetMemory(k, snapshot) ==
    memory' = [memory EXCEPT ![k] = [snapshot |-> snapshot, expires |-> now + TTL]]

SetRedis(k, snapshot) ==
    redis' = IF useRedis /\ redisUp
             THEN [redis EXCEPT ![k] = [snapshot |-> snapshot, expires |-> now + TTL]]
             ELSE redis

-----------------------------------------------------------------------------
(* monitorRedisHealth: one round. *)
MonitorRedisHealth ==
    /\ useRedis # redisUp
    /\ useRedis' = redisUp
    /\ UNCHANGED <<redis, memory, redisUp>>

(* cleanupExpired: one round. *)
CleanupExpired ==
    /\ \E k \in CacheKeys : memory[k].snapshot # None /\ now > memory[k].expires
    /\ memory' = [k \in CacheKeys |-> IF now > memory[k].expires THEN NoEntry ELSE memory[k]]
    /\ UNCHANGED <<redis, useRedis, redisUp>>

(* External: Redis stops answering, keeping its data, or answers again. *)
RedisChanges ==
    /\ redisUp' = ~redisUp
    /\ UNCHANGED <<redis, memory, useRedis>>

=============================================================================
