---------------------------- MODULE ConnectionApi ----------------------------
(***************************************************************************)
(* The Manager's connection and schema endpoints, in flight at the same     *)
(* time over one connection store, one schema cache and one rate limiter,   *)
(* and the jobs that use the connections.  A step of a request ends at its  *)
(* next call to the store, the cache, the limiter or a data source.         *)
(*                                                                         *)
(* Submitting a job is modelled as far as it reads connections; what        *)
(* becomes of a job in the queue and in the Worker is module JobLifecycle.  *)
(***************************************************************************)
EXTENDS ConnectionStore, SchemaCache, RateLimiter, FiniteSets

CONSTANTS
    Calls,       \* [Requests -> call]: the calls that are made together
    StoredFirst  \* [Ids -> document]: what is stored when they arrive

Answers == {"ok", "error", "not found", "job in progress", "invalid", "conflict", "down",
            "already assigned", "limited", "not owned", "unsafe host"}
JobStates == {"pending", "processing", "ended"}

(* What each kind of call brings along. *)
WellFormed(q) ==
    /\ q.tenant \in Tenants
    /\ q.kind \in {"update", "delete", "assign", "schema", "test"} => q.id \in Ids
    /\ q.kind \in {"validate", "submit"} => q.name \in Names
    /\ q.kind = "assign" => q.product \in Products
    /\ q.kind = "create" =>
          /\ q.asked.name \in Names /\ q.asked.product \in Products \cup {None}
          /\ q.asked.type \in DBTypes \cup {"unknown"} /\ q.asked.ssl \in Modes
          /\ q.asked.target \in Targets
    /\ q.kind = "update" =>
          /\ "name" \in DOMAIN q.patch => q.patch["name"] \in Names
          /\ "type" \in DOMAIN q.patch => q.patch["type"] \in DBTypes \cup {"unknown"}
          /\ "ssl" \in DOMAIN q.patch => q.patch["ssl"] \in Modes
          /\ "target" \in DOMAIN q.patch => q.patch["target"] \in Targets

ASSUME CallAssumption ==
    /\ IsFiniteSet(Requests)
    /\ None \notin Requests \cup Products \cup Answers \cup JobStates
    /\ Keys = Tenants \X Ids
    /\ \A call \in Calls :
          DOMAIN call = Requests /\ \A r \in Requests : WellFormed(call[r])

\* The connections there are were stored by these operations.
ASSUME StoredAssumption ==
    /\ StoredFirst \in [Ids -> Documents]
    /\ \A c \in Ids : StoredFirst[c].state = "live" =>
          /\ StoredFirst[c].tenant \in Tenants /\ StoredFirst[c].name \in Names
          /\ \/ StoredFirst[c].ssl = "off"
             \/ ValidateSSLModeForType(StoredFirst[c].type, StoredFirst[c].ssl)
          /\ \A d \in Ids \ {c} : StoredFirst[d].state = "live" =>
                \/ StoredFirst[d].tenant # StoredFirst[c].tenant
                \/ StoredFirst[d].name # StoredFirst[c].name

VARIABLES
    req,      \* of each request: what it asks
    pc, reply,
    seen,     \* the connection it has read
    snap,     \* the schema it answers from
    held,     \* the bucket it holds, and the time of its reservation
    job,      \* the job it created
    reading,  \* the connection the Worker extracts from for that job
    gated     \* history: the jobs that existed when it passed the gate

requestVars == <<req, pc, reply, seen, snap, held, job, reading, gated>>
vars == <<requestVars, conns, cacheVars, limiterVars, now, faults>>

Init ==
    /\ req \in Calls
    /\ pc = [r \in Requests |-> "start"] /\ reply = [r \in Requests |-> None]
    /\ seen = [r \in Requests |-> Absent] /\ snap = [r \in Requests |-> None]
    /\ held = [r \in Requests |-> [bucket |-> None, at |-> 0]]
    /\ job = [r \in Requests |-> None] /\ reading = [r \in Requests |-> None]
    /\ gated = [r \in Requests |-> {}]
    /\ conns = StoredFirst
    /\ CacheInit /\ LimiterInit /\ now = 0 /\ faults = 0

At(r, kinds, step) == req[r].kind \in kinds /\ pc[r] = step

Goto(r, step) == pc' = [pc EXCEPT ![r] = step] /\ UNCHANGED reply
Answer(r, a)  == pc' = [pc EXCEPT ![r] = "done"] /\ reply' = [reply EXCEPT ![r] = a]

Sees(r, doc) == seen' = [seen EXCEPT ![r] = doc]

(* The parts of the state that a step may leave alone. *)
KeepLocals == UNCHANGED <<snap, held, job, reading, gated>>
KeepWorld  == UNCHANGED <<cacheVars, limiterVars>>

-----------------------------------------------------------------------------
(* Connections by id. *)

(* DiscoverSchema looks in the cache first, DiscoverSchemaFresh neither      *)
(* reads nor writes it.                                                     *)
UsesCache(r) == req[r].kind = "validate"

(* discoverSchemaViaEngine: before the Engine is asked,                      *)
(* ValidateHostForConnection may refuse the host of the connection.         *)
HostRefused(r) == Fails /\ Answer(r, "unsafe host")

DiscoverSchemaViaEngine(r) == IF UsesCache(r) THEN "cache" ELSE "discover"

(* GetConnectionByID, or the repository's FindByID: for update and delete,  *)
(* assign, test and schema. *)
FindConnection(r) ==
    /\ \/ At(r, {"update", "delete", "assign", "schema"}, "start")
       \/ At(r, {"test"}, "find")
    /\ LET doc == FindByID(req[r].tenant, req[r].id) IN
       \/ Fails /\ Answer(r, "error") /\ UNCHANGED seen
       \/ Works /\ doc = Absent /\ Answer(r, "not found") /\ UNCHANGED seen
       \/ doc # Absent /\ req[r].kind = "schema" /\ HostRefused(r) /\ UNCHANGED seen
       \/ /\ Works /\ doc # Absent /\ Sees(r, doc)
          /\ Goto(r, CASE req[r].kind \in {"update", "delete"} -> "gate"
                       [] req[r].kind = "assign" -> "write"
                       [] req[r].kind = "test" -> "connect"
                       [] OTHER -> DiscoverSchemaViaEngine(r))
    /\ KeepLocals /\ KeepWorld /\ UNCHANGED <<req, conns, now>>

(* Mutation: a job the Worker has started no longer counts. *)
RunningPendingOnly(t, n) ==
    {j \in Requests : job[j] = "pending" /\ req[j].tenant = t /\ req[j].name = n}

(* ExistsRunningByMappedFieldKey: jobs pending or processing over the name. *)
Running(t, n) ==
    {j \in Requests : /\ job[j] \in {"pending", "processing"}
                      /\ req[j].tenant = t /\ req[j].name = n}

(* checkActiveJobsViaEngine, with the name the connection had when read. *)
CheckActiveJobs(r) ==
    /\ At(r, {"update", "delete"}, "gate")
    /\ \/ Fails /\ Answer(r, "error") /\ UNCHANGED gated
       \/ /\ Works /\ Running(req[r].tenant, seen[r].name) # {}
          /\ Answer(r, "job in progress") /\ UNCHANGED gated
       \/ /\ Works /\ Running(req[r].tenant, seen[r].name) = {} /\ Goto(r, "write")
          /\ gated' = [gated EXCEPT ![r] = {j \in Requests : job[j] # None}]
    /\ UNCHANGED <<req, seen, snap, held, job, reading, conns, now>> /\ KeepWorld

(* UpdateConnectionByID: the gate is the caller's.  A write whose answer is *)
(* lost has happened or not; one that finds nothing is told as not found.   *)
UpdateConnectionByID(r, c, doc) ==
    \/ Fails /\ Answer(r, "error") /\ (Update(c, doc) \/ UNCHANGED conns)
    \/ Works /\ Update(c, doc) /\ Answer(r, "ok")
    \/ Works /\ ~Live(c) /\ Answer(r, "not found") /\ UNCHANGED conns
    \/ /\ Works /\ Live(c) /\ Duplicate(doc.tenant, doc.name, c)
       /\ Answer(r, "conflict") /\ UNCHANGED conns

(* The rest of UpdateConnection.Execute. *)
UpdateConnection(r) ==
    /\ At(r, {"update"}, "write")
    /\ LET doc == ApplyPatch(seen[r], req[r].patch) IN
       \/ ~IsValid(doc) /\ Works /\ Answer(r, "invalid") /\ UNCHANGED conns
       \/ IsValid(doc) /\ UpdateConnectionByID(r, req[r].id, doc)
    /\ KeepLocals /\ KeepWorld /\ UNCHANGED <<req, seen, now>>

DeleteConnectionByID(r, c) ==
    \/ Fails /\ Answer(r, "error") /\ (SoftDelete(c) \/ UNCHANGED conns)
    \/ Works /\ SoftDelete(c) /\ Answer(r, "ok")
    \/ Works /\ ~CanDelete(c) /\ Answer(r, "not found") /\ UNCHANGED conns

(* The rest of DeleteConnection.Execute. *)
DeleteConnection(r) ==
    /\ At(r, {"delete"}, "write")
    /\ DeleteConnectionByID(r, req[r].id)
    /\ KeepLocals /\ KeepWorld /\ UNCHANGED <<req, seen, now>>

(* The rest of AssignConnection.Execute. *)
AssignConnection(r) ==
    /\ At(r, {"assign"}, "write")
    /\ LET c == req[r].id
           p == req[r].product IN
       \/ Fails /\ Answer(r, "error") /\ (AssignProductName(c, p) \/ UNCHANGED conns)
       \/ Works /\ AssignProductName(c, p) /\ Answer(r, "ok")
       \/ Works /\ ~CanAssign(c) /\ Answer(r, "already assigned") /\ UNCHANGED conns
    /\ KeepLocals /\ KeepWorld /\ UNCHANGED <<req, seen, now>>

-----------------------------------------------------------------------------
(* CreateConnection: NewConnection and the engine's look at the name, then  *)
(* the insert.                                                              *)
CheckName(r) ==
    /\ At(r, {"create"}, "start")
    /\ LET doc == NewConnection(req[r].tenant, req[r].asked) IN
       \/ ~IsValid(doc) /\ Works /\ Answer(r, "invalid")
       \/ IsValid(doc) /\ Fails /\ Answer(r, "error")
       \/ IsValid(doc) /\ Works /\ FindByName(doc.tenant, doc.name) # {} /\ Answer(r, "conflict")
       \/ IsValid(doc) /\ Works /\ FindByName(doc.tenant, doc.name) = {} /\ Goto(r, "insert")
    /\ KeepLocals /\ KeepWorld /\ UNCHANGED <<req, seen, conns, now>>

CreateConnection(r) ==
    /\ At(r, {"create"}, "insert")
    /\ \E c \in {x \in Ids : conns[x] = Absent} :
       LET doc == NewConnection(req[r].tenant, req[r].asked) IN
       \/ Fails /\ Answer(r, "error") /\ (InsertOne(c, doc) \/ UNCHANGED conns)
       \/ Works /\ InsertOne(c, doc) /\ Answer(r, "ok")
       \/ /\ Works /\ Duplicate(doc.tenant, doc.name, c)
          /\ Answer(r, "conflict") /\ UNCHANGED conns
    /\ KeepLocals /\ KeepWorld /\ UNCHANGED <<req, seen, now>>

-----------------------------------------------------------------------------
(* TestConnection: the limiter, then FindConnection, then the data source.  *)

LimiterKey(r) == <<req[r].tenant, req[r].id>>

GetLimiter(r) ==
    /\ At(r, {"test"}, "start")
    /\ IF Load(LimiterKey(r)) = None
       THEN Goto(r, "store") /\ UNCHANGED held
       ELSE /\ Goto(r, "take")
            /\ held' = [held EXCEPT ![r].bucket = Load(LimiterKey(r))]
    /\ UNCHANGED <<req, seen, snap, job, reading, gated, conns, now, faults>> /\ KeepWorld

StoreLimiter(r) ==
    /\ At(r, {"test"}, "store")
    /\ held' = [held EXCEPT ![r].bucket = Stored(LimiterKey(r), r)]
    /\ LoadOrStore(LimiterKey(r), r)
    /\ Goto(r, "take")
    /\ UNCHANGED <<req, seen, snap, job, reading, gated, conns, now, faults, cacheVars, buckets>>

(* Take: a token or, when there is none, a reservation that tells when there *)
(* will be one.  By then there may be one again.                            *)
Take(r) ==
    /\ At(r, {"test"}, "take")
    /\ IF Allows(held[r].bucket)
       THEN Allow(held[r].bucket) /\ Goto(r, "find")
       ELSE UNCHANGED buckets /\ Goto(r, "reserve")
    /\ UNCHANGED <<req, seen, snap, held, job, reading, gated, conns, now, faults,
                   cacheVars, limiters>>

ReserveToken(r) ==
    /\ At(r, {"test"}, "reserve")
    /\ Reserve(held[r].bucket) /\ Goto(r, "cancel")
    /\ held' = [held EXCEPT ![r].at = TimeToAct(held[r].bucket)]
    /\ UNCHANGED <<req, seen, snap, job, reading, gated, conns, now, faults, cacheVars, limiters>>

CancelReservation(r) ==
    /\ At(r, {"test"}, "cancel")
    /\ Cancel(held[r].bucket, held[r].at) /\ Answer(r, "limited")
    /\ UNCHANGED <<req, seen, snap, held, job, reading, gated, conns, now, faults,
                   cacheVars, limiters>>

(* The data source is reached, and left, or not. *)
Connect(r) ==
    /\ At(r, {"test"}, "connect")
    /\ \/ Works /\ Answer(r, "ok")
       \/ Fails /\ Answer(r, "down")
    /\ KeepLocals /\ KeepWorld /\ UNCHANGED <<req, seen, conns, now>>

-----------------------------------------------------------------------------
(* ValidateSchema, cache first, and GetConnectionSchema, never the cache.   *)

(* FindByConfigNames, for a validation over one name. *)
ResolveForValidation(r) ==
    /\ At(r, {"validate"}, "start")
    /\ LET found == FindByName(req[r].tenant, req[r].name) IN
       \/ Fails /\ Answer(r, "error") /\ UNCHANGED seen
       \/ Works /\ found = {} /\ Answer(r, "not found") /\ UNCHANGED seen
       \/ found # {} /\ HostRefused(r) /\ UNCHANGED seen
       \/ Works /\ \E c \in found : Sees(r, conns[c]) /\ Goto(r, DiscoverSchemaViaEngine(r))
    /\ KeepLocals /\ KeepWorld /\ UNCHANGED <<req, conns, now>>

SchemaKey(r) == Key(req[r].tenant, seen[r].name)

Serves(r, s) == snap' = [snap EXCEPT ![r] = s]

LookUpRedis(r) ==
    /\ At(r, {"validate"}, "cache")
    /\ IF useRedis /\ RedisGet(SchemaKey(r)) # None
       THEN Serves(r, RedisGet(SchemaKey(r))) /\ Answer(r, "ok")
       ELSE Goto(r, "memory") /\ UNCHANGED snap
    /\ UNCHANGED <<req, seen, held, job, reading, gated, conns, now, faults>> /\ KeepWorld

LookUpMemory(r) ==
    /\ At(r, {"validate"}, "memory")
    /\ IF MemoryGet(SchemaKey(r)) # None
       THEN Serves(r, MemoryGet(SchemaKey(r))) /\ Answer(r, "ok")
       ELSE Goto(r, "discover") /\ UNCHANGED snap
    /\ UNCHANGED <<req, seen, held, job, reading, gated, conns, now, faults>> /\ KeepWorld

(* The connector of package schemacompat: it connects to where the          *)
(* connection that was read points.                                         *)
Discovered(r) == [tenant |-> req[r].tenant, target |-> seen[r].target, at |-> now]

(* resolveSchema after a miss: the connector is built from the connection   *)
(* that was read, asked and closed.                                         *)
DiscoverSchema(r) ==
    /\ At(r, {"validate", "schema"}, "discover")
    /\ \/ /\ Works
          /\ Serves(r, Discovered(r))
          /\ IF UsesCache(r) THEN Goto(r, "put") ELSE Answer(r, "ok")
       \/ Fails /\ Answer(r, "down") /\ UNCHANGED snap
    /\ UNCHANGED <<req, seen, held, job, reading, gated, conns, now>> /\ KeepWorld

(* cacheSchema: what goes wrong here is not told to the caller. *)
PutSchemaMemory(r) ==
    /\ At(r, {"validate"}, "put")
    /\ SetMemory(SchemaKey(r), snap[r]) /\ Goto(r, "putRedis")
    /\ KeepLocals /\ UNCHANGED <<req, seen, conns, now, faults, limiterVars, redis, useRedis, redisUp>>

PutSchemaRedis(r) ==
    /\ At(r, {"validate"}, "putRedis")
    /\ SetRedis(SchemaKey(r), snap[r]) /\ Answer(r, "ok")
    /\ KeepLocals /\ UNCHANGED <<req, seen, conns, now, faults, limiterVars, memory, useRedis, redisUp>>

-----------------------------------------------------------------------------
(* A job: its connections resolved, owned and tested, it is inserted.  The  *)
(* Worker resolves the name again.                                          *)
Owned(doc, product) == doc.product = product

ResolveForJob(r) ==
    /\ At(r, {"submit"}, "start")
    /\ LET found == FindByName(req[r].tenant, req[r].name) IN
       \/ Fails /\ Answer(r, "error") /\ UNCHANGED seen
       \/ Works /\ found = {} /\ Answer(r, "not found") /\ UNCHANGED seen
       \/ \E c \in found :
             /\ Works /\ Sees(r, conns[c])
             /\ IF Owned(conns[c], req[r].product) THEN Goto(r, "connect") ELSE Answer(r, "not owned")
    /\ KeepLocals /\ KeepWorld /\ UNCHANGED <<req, conns, now>>

TestConnections(r) ==
    /\ At(r, {"submit"}, "connect")
    /\ \/ Works /\ Goto(r, "insert")
       \/ Fails /\ Answer(r, "down")
    /\ KeepLocals /\ KeepWorld /\ UNCHANGED <<req, seen, conns, now>>

InsertJob(r) ==
    /\ At(r, {"submit"}, "insert")
    /\ job' = [job EXCEPT ![r] = "pending"] /\ Answer(r, "ok")
    /\ UNCHANGED <<req, seen, snap, held, reading, gated, conns, now, faults>> /\ KeepWorld

StartJob(r) ==
    /\ job[r] = "pending" /\ job' = [job EXCEPT ![r] = "processing"]
    /\ UNCHANGED <<req, pc, reply, seen, snap, held, reading, gated, conns, now, faults>> /\ KeepWorld

ReadConnections(r) ==
    /\ job[r] = "processing" /\ reading[r] = None
    /\ LET found == FindByName(req[r].tenant, req[r].name) IN
       \/ found = {} /\ job' = [job EXCEPT ![r] = "ended"] /\ UNCHANGED reading
       \/ \E c \in found : reading' = [reading EXCEPT ![r] = c] /\ UNCHANGED job
    /\ UNCHANGED <<req, pc, reply, seen, snap, held, gated, conns, now, faults>> /\ KeepWorld

EndJob(r) ==
    /\ job[r] = "processing" /\ reading[r] # None
    /\ job' = [job EXCEPT ![r] = "ended"] /\ reading' = [reading EXCEPT ![r] = None]
    /\ UNCHANGED <<req, pc, reply, seen, snap, held, gated, conns, now, faults>> /\ KeepWorld

-----------------------------------------------------------------------------
(* Bound: a tick is longer than it takes to store a schema just discovered. *)
Tick ==
    /\ now < MaxTime /\ \A r \in Requests : pc[r] \notin {"put", "putRedis"}
    /\ now' = now + 1 /\ Refill
    /\ UNCHANGED <<requestVars, conns, cacheVars, limiters, faults>>

Environment ==
    \/ Tick
    \/ /\ MonitorRedisHealth \/ CleanupExpired
       /\ UNCHANGED <<requestVars, conns, limiterVars, now, faults>>
    \/ RedisChanges /\ Fails /\ UNCHANGED <<requestVars, conns, limiterVars, now>>

Step(r) ==
    \/ FindConnection(r) \/ CheckActiveJobs(r) \/ UpdateConnection(r)
    \/ DeleteConnection(r) \/ AssignConnection(r)
    \/ CheckName(r) \/ CreateConnection(r)
    \/ GetLimiter(r) \/ StoreLimiter(r) \/ Take(r) \/ ReserveToken(r) \/ CancelReservation(r)
    \/ Connect(r)
    \/ ResolveForValidation(r) \/ LookUpRedis(r) \/ LookUpMemory(r) \/ DiscoverSchema(r)
    \/ PutSchemaMemory(r) \/ PutSchemaRedis(r)
    \/ ResolveForJob(r) \/ TestConnections(r) \/ InsertJob(r) \/ StartJob(r)
    \/ ReadConnections(r) \/ EndJob(r)

Next == Environment \/ \E r \in Requests : Step(r)

Spec == Init /\ [][Next]_vars

-----------------------------------------------------------------------------
(* What is live is sound whatever two updates overlapped: no two            *)
(* connections of a tenant share a name, and the SSL mode is one the type   *)
(* knows, although an update checks both against what it read earlier       *)
(* (UpdateConnection.Execute, ConnectionMongoDBRepository.Update).          *)
StoredConnectionsSound ==
    \A c \in Ids : Live(c) =>
        /\ conns[c].ssl = "off" \/ ValidateSSLModeForType(conns[c].type, conns[c].ssl)
        /\ FindByName(conns[c].tenant, conns[c].name) = {c}

(* Of the requests that compete for one connection at most one is told it   *)
(* deleted it, and at most one that it assigned it.                         *)
OneWinner ==
    \A r, s \in Requests :
        /\ r # s /\ req[r].kind = req[s].kind /\ req[r].kind \in {"delete", "assign"}
        /\ req[r].id = req[s].id /\ reply[r] = "ok"
        => reply[s] # "ok"

ActiveOver(j, doc) ==
    job[j] \in {"pending", "processing"} /\ req[j].tenant = doc.tenant /\ req[j].name = doc.name

(* The gate: a connection that a running job uses is written only by a      *)
(* request that passed the gate before that job existed, or that had read   *)
(* the connection under another name.                                       *)
GateProtectsJobs ==
    [][\A r, j \in Requests :
        /\ req[r].kind \in {"update", "delete"} /\ pc[r] = "write"
        /\ conns'[req[r].id] # conns[req[r].id]
        /\ ActiveOver(j, conns[req[r].id])
        => j \notin gated[r] \/ seen[r].name # conns[req[r].id].name]_vars

(* A validation answers from a schema of its own tenant that was read from  *)
(* the data source at most TTL ago, wherever the cache had it: also after   *)
(* Redis failed, was left and was taken back into use.                      *)
ServedSchemaIsFresh ==
    [][\A r \in Requests :
        /\ req[r].kind = "validate" /\ reply[r] = None /\ reply'[r] = "ok"
        => snap'[r].tenant = req[r].tenant /\ now - snap'[r].at <= TTL]_vars

(* However many requests ask at once, the tests of a connection that reach  *)
(* the store stay within the configured rate.                               *)
TestsWithinRate ==
    \A c \in Ids, t \in Tenants :
        Cardinality({r \in Requests :
            /\ req[r].kind = "test" /\ req[r].id = c /\ req[r].tenant = t
            /\ pc[r] \in {"find", "connect"} \/ reply[r] \notin {None, "limited"}})
        <= Tokens + now

=============================================================================
