------------------------- MODULE ConnectionApiProofs -------------------------
(***************************************************************************)
(* Proofs about ConnectionApi for any set of concurrent requests, tenants,  *)
(* connections and names, any rate, time to live and number of failures.    *)
(***************************************************************************)
EXTENDS ConnectionApi, FiniteSetTheorems, TLAPS

Places == {"start", "gate", "write", "insert", "store", "take", "reserve", "cancel", "find",
           "connect", "cache", "memory", "discover", "put", "putRedis", "done"}

Snapshots == [tenant : Tenants, target : Targets \cup {None}, at : Nat]
Entries   == [snapshot : Snapshots \cup {None}, expires : Nat]

RequestsOK ==
    /\ req \in Calls
    /\ pc \in [Requests -> Places] /\ reply \in [Requests -> Answers \cup {None}]
    /\ \A r \in Requests : reply[r] # None => pc[r] = "done"

ReadsOK == seen \in [Requests -> Documents] /\ conns \in [Ids -> Documents]

JobsOK ==
    /\ job \in [Requests -> JobStates \cup {None}]
    /\ gated \in [Requests -> SUBSET Requests]
    /\ reading \in [Requests -> Ids \cup {None}]
    /\ \A r \in Requests : job[r] # None => pc[r] = "done"

CacheOK ==
    /\ snap \in [Requests -> Snapshots \cup {None}]
    /\ redis \in [CacheKeys -> Entries] /\ memory \in [CacheKeys -> Entries]

LimiterOK ==
    /\ limiters \in [Keys -> Requests \cup {None}]
    /\ buckets \in [Requests -> [tokens : Int, last : Int]]
    /\ held \in [Requests -> [bucket : Requests \cup {None}, at : Int]]

TypeOK == RequestsOK /\ ReadsOK /\ JobsOK /\ CacheOK /\ LimiterOK /\ now \in Nat

-----------------------------------------------------------------------------
(* The store. *)

Named(doc) == doc.state = "live" => doc.tenant \in Tenants /\ doc.name \in Names

(* What a request has read is of its own tenant, whose connection that      *)
(* stays; a create has been found valid.                                    *)
ReadInv ==
    /\ \A c \in Ids : Named(conns[c])
    /\ \A r \in Requests :
          /\ Named(seen[r])
          /\ At(r, {"update", "delete"}, "gate") \/ At(r, {"update", "delete"}, "write") =>
                /\ seen[r].state = "live" /\ seen[r].tenant = req[r].tenant
                /\ conns[req[r].id].state # "absent"
                /\ conns[req[r].id].tenant = req[r].tenant
          /\ req[r].kind = "validate" /\ pc[r] \in {"cache", "memory", "discover", "put", "putRedis"}
                => seen[r].state = "live"
          /\ At(r, {"create"}, "insert") => IsValid(NewConnection(req[r].tenant, req[r].asked))

(* Who was told to have won has left its mark. *)
WonInv ==
    \A r \in Requests : reply[r] = "ok" =>
        /\ req[r].kind = "delete" => conns[req[r].id].state = "deleted"
        /\ req[r].kind = "assign" => conns[req[r].id].product # None

-----------------------------------------------------------------------------
(* The gate: no job that existed then is running over the name that was read. *)
GateInv ==
    \A r \in Requests : At(r, {"update", "delete"}, "write") =>
        \A j \in gated[r] :
            /\ job[j] # None
            /\ ~( /\ job[j] \in {"pending", "processing"}
                  /\ req[j].tenant = req[r].tenant /\ req[j].name = seen[r].name )

-----------------------------------------------------------------------------
(* The cache: an entry is of its key's tenant and expires TTL after it was  *)
(* read from the data source.                                               *)
EntryOK(k, e) ==
    e.snapshot # None => e.snapshot.tenant = k[1] /\ e.expires = e.snapshot.at + TTL

FreshInv ==
    /\ \A k \in CacheKeys : EntryOK(k, redis[k]) /\ EntryOK(k, memory[k])
    /\ \A r \in Requests : req[r].kind = "validate" /\ pc[r] \in {"put", "putRedis"} =>
          snap[r].tenant = req[r].tenant /\ snap[r].at = now

-----------------------------------------------------------------------------
(* The limiter. *)

(* All tests of a connection use the one bucket made for it. *)
BucketInv ==
    /\ \A r \in Requests : buckets[r].tokens <= Tokens
    /\ \A k \in Keys : limiters[k] # None => LimiterKey(limiters[k]) = k
    /\ \A r \in Requests : req[r].kind = "test" /\ pc[r] \in {"take", "reserve", "cancel"} =>
          held[r].bucket # None /\ held[r].bucket = limiters[LimiterKey(r)]

Waiting(r) == At(r, {"test"}, "cancel")

(* Reservations of a bucket that lie ahead do so by the tokens it owes, for *)
(* different times; none is after its latest event.                         *)
Ahead(r) == held[r].at <= now \/ held[r].at <= now - buckets[held[r].bucket].tokens

ReservationInv ==
    /\ \A r \in Requests : Waiting(r) => Ahead(r) /\ held[r].at <= buckets[held[r].bucket].last
    /\ \A r, s \in Requests :
          Waiting(r) /\ Waiting(s) /\ r # s /\ held[r].bucket = held[s].bucket =>
             held[r].at # held[s].at \/ held[r].at <= now

Tests(k) == {r \in Requests : req[r].kind = "test" /\ LimiterKey(r) = k}

Granted(k) == {r \in Tests(k) : pc[r] \in {"find", "connect"} \/ reply[r] \notin {None, "limited"}}
Reserved(k) == {r \in Tests(k) : pc[r] = "cancel"}

(* No token is granted or reserved twice. *)
TokensOf(k) ==
    /\ limiters[k] = None => Granted(k) = {} /\ Reserved(k) = {}
    /\ limiters[k] # None =>
          Cardinality(Granted(k)) + Cardinality(Reserved(k)) + buckets[limiters[k]].tokens
              <= Tokens + now
    /\ Cardinality(Granted(k)) <= Tokens + now

TokenInv == \A k \in Keys : TokensOf(k)

IInv ==
    /\ TypeOK /\ ReadInv /\ StoredConnectionsSound /\ WonInv /\ OneWinner
    /\ GateInv /\ FreshInv /\ BucketInv /\ ReservationInv /\ TokenInv

-----------------------------------------------------------------------------
(* What the calls bring along, of every request. *)
LEMMA CallsWellFormed ==
    ASSUME req \in Calls, NEW r \in Requests
    PROVE  WellFormed(req[r])
BY CallAssumption

Others(r) == \A s \in Requests \ {r} :
    /\ pc'[s] = pc[s] /\ reply'[s] = reply[s] /\ seen'[s] = seen[s] /\ snap'[s] = snap[s]
    /\ held'[s] = held[s] /\ job'[s] = job[s] /\ gated'[s] = gated[s]

(* A step of a request changes no other request. *)
LEMMA StepLocal ==
    ASSUME TypeOK, NEW r \in Requests, Step(r)
    PROVE  req' = req /\ Others(r)
<1> USE DEF TypeOK, RequestsOK, ReadsOK, JobsOK, CacheOK, LimiterOK, Others,
            KeepLocals, KeepWorld, Goto, Answer, Sees, Serves, At
<1>1. CASE FindConnection(r)      BY <1>1 DEF FindConnection, HostRefused
<1>2. CASE CheckActiveJobs(r)     BY <1>2 DEF CheckActiveJobs
<1>3. CASE UpdateConnection(r)    BY <1>3 DEF UpdateConnection, UpdateConnectionByID
<1>4. CASE DeleteConnection(r)    BY <1>4 DEF DeleteConnection, DeleteConnectionByID
<1>5. CASE AssignConnection(r)    BY <1>5 DEF AssignConnection
<1>6. CASE CheckName(r)           BY <1>6 DEF CheckName
<1>7. CASE CreateConnection(r)    BY <1>7 DEF CreateConnection
<1>8. CASE GetLimiter(r)          BY <1>8 DEF GetLimiter
<1>9. CASE StoreLimiter(r)        BY <1>9 DEF StoreLimiter
<1>10. CASE Take(r)               BY <1>10 DEF Take
<1>25. CASE ReserveToken(r)       BY <1>25 DEF ReserveToken
<1>11. CASE CancelReservation(r)  BY <1>11 DEF CancelReservation
<1>12. CASE Connect(r)            BY <1>12 DEF Connect
<1>13. CASE ResolveForValidation(r) BY <1>13 DEF ResolveForValidation, HostRefused
<1>14. CASE LookUpRedis(r)        BY <1>14 DEF LookUpRedis
<1>15. CASE LookUpMemory(r)       BY <1>15 DEF LookUpMemory
<1>16. CASE DiscoverSchema(r)     BY <1>16 DEF DiscoverSchema
<1>17. CASE PutSchemaMemory(r)    BY <1>17 DEF PutSchemaMemory
<1>18. CASE PutSchemaRedis(r)     BY <1>18 DEF PutSchemaRedis
<1>19. CASE ResolveForJob(r)
  <2>1. /\ UNCHANGED <<req, snap, held, job, gated>>
        /\ Goto(r, "connect") \/ \E a \in Answers : Answer(r, a)
        /\ UNCHANGED seen \/ \E c : Sees(r, conns[c])
    <3> HIDE DEF Goto, Answer, Sees, At
    <3> QED BY <1>19 DEF ResolveForJob, Answers
  <2>2. \A s \in Requests \ {r} : pc'[s] = pc[s] /\ reply'[s] = reply[s]
    BY <2>1
  <2>3. \A s \in Requests \ {r} : seen'[s] = seen[s]
    BY <2>1
  <2> QED BY <2>1, <2>2, <2>3
<1>20. CASE TestConnections(r)    BY <1>20 DEF TestConnections
<1>21. CASE InsertJob(r)          BY <1>21 DEF InsertJob
<1>22. CASE StartJob(r)           BY <1>22 DEF StartJob
<1>23. CASE ReadConnections(r)    BY <1>23 DEF ReadConnections
<1>24. CASE EndJob(r)             BY <1>24 DEF EndJob
<1> QED
  BY <1>1, <1>2, <1>3, <1>4, <1>5, <1>6, <1>7, <1>8, <1>9, <1>10, <1>11, <1>12, <1>13,
     <1>14, <1>15, <1>16, <1>17, <1>18, <1>19, <1>20, <1>21, <1>22, <1>23, <1>24, <1>25 DEF Step

-----------------------------------------------------------------------------
(* The store.  What a command may put in the place of a document. *)

SSLKnown(doc) == doc.ssl = "off" \/ ValidateSSLModeForType(doc.type, doc.ssl)

WellWritten(c, doc) ==
    /\ doc \in Documents /\ Named(doc)
    /\ doc.state = "live" => SSLKnown(doc) /\ ~Duplicate(doc.tenant, doc.name, c)
    /\ conns[c].state # "absent" =>
          conns[c].state # "deleted" /\ doc.state # "absent" /\ doc.tenant = conns[c].tenant
    /\ conns[c].product # None => doc.product # None

(* A patch leaves a document of the store that is live as it was, and of    *)
(* the same tenant.                                                         *)
LEMMA PatchedDocument ==
    ASSUME NEW doc \in Documents, doc.state = "live", Named(doc),
           NEW q, q.kind = "update", WellFormed(q)
    PROVE  /\ ApplyPatch(doc, q.patch) \in Documents
           /\ Named(ApplyPatch(doc, q.patch))
           /\ ApplyPatch(doc, q.patch).state = "live"
           /\ ApplyPatch(doc, q.patch).tenant = doc.tenant
<1> DEFINE new == ApplyPatch(doc, q.patch)
           Set(f) == IF f \in DOMAIN q.patch THEN q.patch[f] ELSE doc[f]
<1>1. /\ Set("name") \in Names /\ Set("type") \in DBTypes \cup {"unknown", None}
      /\ Set("ssl") \in Modes /\ Set("target") \in Targets \cup {None}
  BY DEF WellFormed, Documents, Named
<1>2. new = [doc EXCEPT !.name = Set("name"), !.type = Set("type"), !.ssl = Set("ssl"),
                        !.target = Set("target")]
  BY DEF ApplyPatch
<1> HIDE DEF new, Set
<1>3. /\ new \in Documents /\ new.state = doc.state /\ new.tenant = doc.tenant
      /\ new.name = Set("name")
  BY <1>1, <1>2 DEF Documents
<1> QED BY <1>1, <1>3 DEF new, Named

LEMMA WrittenByUpdate ==
    ASSUME TypeOK, ReadInv, NEW r \in Requests, At(r, {"update"}, "write"),
           IsValid(ApplyPatch(seen[r], req[r].patch)),
           Update(req[r].id, ApplyPatch(seen[r], req[r].patch))
    PROVE  \E doc : WellWritten(req[r].id, doc) /\ Put(req[r].id, doc) /\ req[r].id \in Ids
<1> DEFINE c == req[r].id
           doc == ApplyPatch(seen[r], req[r].patch)
           new == Updated(c, doc)
<1>1. WellFormed(req[r]) /\ req[r].kind = "update" /\ c \in Ids
  BY CallsWellFormed DEF TypeOK, RequestsOK, At, WellFormed
<1>2. seen[r] \in Documents /\ conns[c] \in Documents
  BY <1>1 DEF TypeOK, ReadsOK
<1>3. seen[r].state = "live" /\ Named(seen[r]) /\ seen[r].tenant = conns[c].tenant
  BY <1>1 DEF ReadInv, At
<1>4. /\ doc \in Documents /\ Named(doc) /\ doc.state = "live"
      /\ doc.tenant = conns[c].tenant
  BY <1>1, <1>2, <1>3, PatchedDocument
<1>5. Live(c) /\ ~Duplicate(doc.tenant, doc.name, c) /\ Put(c, new) /\ SSLKnown(doc)
  BY DEF Update, IsValid, SSLKnown
<1>6. /\ new \in Documents /\ new.state = doc.state /\ new.tenant = doc.tenant
      /\ new.name = doc.name /\ new.type = doc.type /\ new.ssl = doc.ssl
      /\ new.product = conns[c].product
  <2> HIDE DEF doc
  <2> QED BY <1>2, <1>4 DEF Updated, Documents
<1>7. WellWritten(c, new)
  <2> HIDE DEF doc, new
  <2> QED BY <1>4, <1>5, <1>6 DEF WellWritten, Named, SSLKnown, Live
<1> QED BY <1>1, <1>5, <1>7

LEMMA WrittenByDelete ==
    ASSUME TypeOK, ReadInv, NEW c \in Ids, SoftDelete(c)
    PROVE  \E doc : WellWritten(c, doc) /\ Put(c, doc)
<1> DEFINE new == [conns[c] EXCEPT !.state = "deleted"]
<1>1. conns[c] \in Documents /\ Live(c) /\ Put(c, new)
  BY DEF TypeOK, ReadsOK, SoftDelete, CanDelete
<1>2. WellWritten(c, new)
  BY <1>1 DEF WellWritten, Documents, Named, Live
<1> QED BY <1>1, <1>2

LEMMA WrittenByAssign ==
    ASSUME TypeOK, ReadInv, StoredConnectionsSound, NEW c \in Ids, NEW p \in Products,
           AssignProductName(c, p)
    PROVE  \E doc : WellWritten(c, doc) /\ Put(c, doc)
<1> DEFINE new == [conns[c] EXCEPT !.product = p]
<1>1. conns[c] \in Documents /\ Named(conns[c]) /\ Live(c) /\ Put(c, new)
  BY DEF TypeOK, ReadsOK, ReadInv, AssignProductName, CanAssign
<1>2. SSLKnown(conns[c]) /\ ~Duplicate(conns[c].tenant, conns[c].name, c)
  BY <1>1 DEF StoredConnectionsSound, SSLKnown, Duplicate
<1>3. /\ new \in Documents /\ new.state = "live" /\ new.tenant = conns[c].tenant
      /\ new.name = conns[c].name /\ new.type = conns[c].type /\ new.ssl = conns[c].ssl
      /\ new.product # None
  BY <1>1, CallAssumption DEF Documents, Live
<1>4. WellWritten(c, new)
  <2> HIDE DEF new
  <2> QED BY <1>1, <1>2, <1>3 DEF WellWritten, Named, SSLKnown, Live
<1> QED BY <1>1, <1>4

LEMMA WrittenByCreate ==
    ASSUME TypeOK, ReadInv, NEW r \in Requests, At(r, {"create"}, "insert"),
           NEW c \in Ids, conns[c] = Absent,
           InsertOne(c, NewConnection(req[r].tenant, req[r].asked))
    PROVE  \E doc : WellWritten(c, doc) /\ Put(c, doc)
<1> DEFINE new == NewConnection(req[r].tenant, req[r].asked)
<1>1. WellFormed(req[r]) /\ req[r].kind = "create"
  BY CallsWellFormed DEF TypeOK, RequestsOK, At
<1>2. IsValid(new)
  BY DEF ReadInv, At
<1>3. new \in Documents /\ Named(new)
  BY <1>1 DEF WellFormed, NewConnection, Documents, Named
<1>4. ~Duplicate(new.tenant, new.name, c) /\ Put(c, new) /\ SSLKnown(new)
  BY <1>2 DEF InsertOne, IsValid, SSLKnown
<1>5. WellWritten(c, new)
  <2> HIDE DEF new
  <2> QED BY <1>3, <1>4 DEF WellWritten, Absent
<1> QED BY <1>4, <1>5

Written == conns' = conns \/ \E c \in Ids : \E doc : WellWritten(c, doc) /\ Put(c, doc)

(* The steps that write the store, and the rest. *)
Writes(r) ==
    \/ UpdateConnection(r) \/ DeleteConnection(r) \/ AssignConnection(r) \/ CreateConnection(r)

LEMMA OthersKeepStore ==
    ASSUME NEW r \in Requests, Step(r), ~Writes(r)
    PROVE  conns' = conns
BY DEF Step, Writes, FindConnection, CheckActiveJobs, CheckName, GetLimiter, StoreLimiter, Take, ReserveToken,
       CancelReservation, Connect, ResolveForValidation, LookUpRedis, LookUpMemory,
       DiscoverSchema, PutSchemaMemory, PutSchemaRedis, ResolveForJob, TestConnections,
       InsertJob, StartJob, ReadConnections, EndJob

LEMMA EnvironmentLocal ==
    ASSUME Environment
    PROVE  UNCHANGED <<requestVars, conns, limiters>>
BY DEF Environment, Tick, limiterVars

LEMMA StepWrites ==
    ASSUME TypeOK, ReadInv, StoredConnectionsSound, NEW r \in Requests, Step(r)
    PROVE  Written
<1>0. WellFormed(req[r])
  BY CallsWellFormed DEF TypeOK, RequestsOK
<1>1. CASE UpdateConnection(r)
  BY <1>1, WrittenByUpdate, Zenon DEF UpdateConnection, UpdateConnectionByID, Written
<1>2. CASE DeleteConnection(r)
  <2>1. req[r].id \in Ids  BY <1>0, <1>2 DEF DeleteConnection, At, WellFormed
  <2> QED
    BY <1>2, <2>1, WrittenByDelete, Zenon DEF DeleteConnection, DeleteConnectionByID, Written
<1>3. CASE AssignConnection(r)
  <2>1. req[r].id \in Ids /\ req[r].product \in Products
    BY <1>0, <1>3 DEF AssignConnection, At, WellFormed
  <2> QED
    BY <1>3, <2>1, WrittenByAssign, Zenon DEF AssignConnection, Written
<1>4. CASE CreateConnection(r)
  BY <1>4, WrittenByCreate, Zenon DEF CreateConnection, Written
<1> QED BY <1>1, <1>2, <1>3, <1>4, OthersKeepStore DEF Writes, Written

(* Names stay unique, and modes fit, whatever is put in. *)
LEMMA WriteKeepsSound ==
    ASSUME ReadsOK, StoredConnectionsSound, Written
    PROVE  StoredConnectionsSound'
<1>1. CASE conns' = conns
  BY <1>1 DEF StoredConnectionsSound, Live, FindByName
<1>2. ASSUME NEW c \in Ids, NEW doc, WellWritten(c, doc), Put(c, doc)
      PROVE  StoredConnectionsSound'
  <2>1. /\ conns'[c] = doc
        /\ \A d \in Ids \ {c} : conns'[d] = conns[d]
    BY <1>2 DEF Put, ReadsOK
  <2>2. \A d, e \in Ids : /\ conns'[d].state = "live" /\ conns'[e].state = "live"
                          /\ conns'[d].tenant = conns'[e].tenant
                          /\ conns'[d].name = conns'[e].name
                          => d = e
    <3>1. \A d, e \in Ids : /\ conns[d].state = "live" /\ conns[e].state = "live"
                            /\ conns[d].tenant = conns[e].tenant
                            /\ conns[d].name = conns[e].name
                            => d = e
      BY DEF StoredConnectionsSound, FindByName, Live
    <3>2. doc.state = "live" => \A d \in Ids \ {c} :
             ~(conns[d].state = "live" /\ conns[d].tenant = doc.tenant /\ conns[d].name = doc.name)
      BY <1>2 DEF WellWritten, Duplicate, FindByName, Live
    <3> QED BY <2>1, <3>1, <3>2
  <2>3. \A d \in Ids : conns'[d].state = "live" =>
           conns'[d].ssl = "off" \/ ValidateSSLModeForType(conns'[d].type, conns'[d].ssl)
    BY <1>2, <2>1 DEF WellWritten, SSLKnown, StoredConnectionsSound, Live
  <2> QED BY <2>2, <2>3 DEF StoredConnectionsSound, FindByName, Live
<1> QED BY <1>1, <1>2 DEF Written

(* Documents stay documents; one that is there stays, with its tenant, and  *)
(* what is deleted or has a product stays so.                               *)
LEMMA WriteKeeps ==
    ASSUME ReadsOK, \A c \in Ids : Named(conns[c]), Written
    PROVE  /\ conns' \in [Ids -> Documents]
           /\ \A c \in Ids :
                 /\ Named(conns'[c])
                 /\ conns[c].state # "absent" =>
                       conns'[c].state # "absent" /\ conns'[c].tenant = conns[c].tenant
                 /\ conns[c].state = "deleted" => conns'[c].state = "deleted"
                 /\ conns[c].product # None => conns'[c].product # None
<1>1. CASE conns' = conns  BY <1>1 DEF ReadsOK
<1>2. ASSUME NEW c \in Ids, NEW doc, WellWritten(c, doc), Put(c, doc)
      PROVE  /\ conns' \in [Ids -> Documents]
             /\ \A d \in Ids :
                   /\ Named(conns'[d])
                   /\ conns[d].state # "absent" =>
                         conns'[d].state # "absent" /\ conns'[d].tenant = conns[d].tenant
                   /\ conns[d].state = "deleted" => conns'[d].state = "deleted"
                   /\ conns[d].product # None => conns'[d].product # None
  <2>1. /\ conns'[c] = doc /\ conns' \in [Ids -> Documents]
        /\ \A d \in Ids \ {c} : conns'[d] = conns[d]
    BY <1>2 DEF Put, ReadsOK, WellWritten
  <2>2. conns[c].state = "deleted" => FALSE
    BY <1>2 DEF WellWritten
  <2> QED BY <1>2, <2>1, <2>2 DEF WellWritten
<1> QED BY <1>1, <1>2 DEF Written

-----------------------------------------------------------------------------
(* Which steps change what else. *)

Reads(r) == FindConnection(r) \/ ResolveForValidation(r) \/ ResolveForJob(r)

LEMMA OthersKeepSeen ==
    ASSUME NEW r \in Requests, Step(r), ~Reads(r)
    PROVE  seen' = seen
BY DEF Step, Reads, CheckActiveJobs, UpdateConnection, DeleteConnection, AssignConnection,
       CheckName, CreateConnection, GetLimiter, StoreLimiter, Take, ReserveToken, CancelReservation, Connect,
       LookUpRedis, LookUpMemory, DiscoverSchema, PutSchemaMemory, PutSchemaRedis,
       TestConnections, InsertJob, StartJob, ReadConnections, EndJob

UsesSchemas(r) ==
    \/ LookUpRedis(r) \/ LookUpMemory(r) \/ DiscoverSchema(r)
    \/ PutSchemaMemory(r) \/ PutSchemaRedis(r)

LEMMA OthersKeepSchemas ==
    ASSUME NEW r \in Requests, Step(r), ~UsesSchemas(r)
    PROVE  snap' = snap /\ redis' = redis /\ memory' = memory
BY DEF Step, UsesSchemas, FindConnection, CheckActiveJobs, UpdateConnection, DeleteConnection,
       AssignConnection, CheckName, CreateConnection, GetLimiter, StoreLimiter, Take, ReserveToken,
       CancelReservation, Connect, ResolveForValidation, ResolveForJob, TestConnections,
       InsertJob, StartJob, ReadConnections, EndJob, KeepLocals, KeepWorld, cacheVars

UsesLimiter(r) ==
    \/ GetLimiter(r) \/ StoreLimiter(r) \/ Take(r) \/ ReserveToken(r) \/ CancelReservation(r)

LEMMA OthersKeepLimiter ==
    ASSUME NEW r \in Requests, Step(r), ~UsesLimiter(r)
    PROVE  held' = held /\ limiters' = limiters /\ buckets' = buckets
BY DEF Step, UsesLimiter, FindConnection, CheckActiveJobs, UpdateConnection, DeleteConnection,
       AssignConnection, CheckName, CreateConnection, Connect, ResolveForValidation,
       LookUpRedis, LookUpMemory, DiscoverSchema, PutSchemaMemory, PutSchemaRedis,
       ResolveForJob, TestConnections, InsertJob, StartJob, ReadConnections, EndJob,
       KeepLocals, KeepWorld, limiterVars

LEMMA StepKeepsTime ==
    ASSUME NEW r \in Requests, Step(r)
    PROVE  now' = now
BY DEF Step, FindConnection, CheckActiveJobs, UpdateConnection, DeleteConnection,
       AssignConnection, CheckName, CreateConnection, GetLimiter, StoreLimiter, Take, ReserveToken,
       CancelReservation, Connect, ResolveForValidation, LookUpRedis, LookUpMemory,
       DiscoverSchema, PutSchemaMemory, PutSchemaRedis, ResolveForJob, TestConnections,
       InsertJob, StartJob, ReadConnections, EndJob

-----------------------------------------------------------------------------
(* Types. *)

LEMMA InitTypeOK == Init => TypeOK
<1> SUFFICES ASSUME Init PROVE TypeOK  OBVIOUS
<1>1. RequestsOK /\ JobsOK
  BY DEF Init, RequestsOK, JobsOK, Places
<1>2. ReadsOK
  <2>1. Absent \in Documents  BY DEF Absent, Documents, Modes
  <2> QED BY <2>1, StoredAssumption DEF Init, ReadsOK
<1>3. CacheOK
  <2>1. NoEntry \in Entries  BY DEF NoEntry, Entries
  <2> QED BY <2>1 DEF Init, CacheInit, CacheOK
<1>4. LimiterOK
  BY LimiterAssumption DEF Init, LimiterInit, LimiterOK
<1> QED BY <1>1, <1>2, <1>3, <1>4 DEF TypeOK, Init

LEMMA StepRequestsOK ==
    ASSUME TypeOK, NEW r \in Requests, Step(r)
    PROVE  RequestsOK' /\ JobsOK'
<1>0. \A w \in Answers \cup JobStates : w # None  BY CallAssumption
<1> USE <1>0 DEF TypeOK, RequestsOK, JobsOK, Places, Answers, JobStates, KeepLocals, Goto, Answer, At
<1>1. CASE FindConnection(r)
  BY <1>1 DEF FindConnection, HostRefused, DiscoverSchemaViaEngine
<1>2. CASE CheckActiveJobs(r)
  <2>1. gated' \in [Requests -> SUBSET Requests]
    <3>1. {j \in Requests : job[j] # None} \in SUBSET Requests  OBVIOUS
    <3> HIDE <1>0 DEF At, Goto, Answer, Places, Answers, JobStates, RequestsOK
    <3> QED BY <1>2, <3>1 DEF CheckActiveJobs
  <2>2. /\ pc[r] = "gate" /\ UNCHANGED <<req, job, reading>>
        /\ \/ \E a \in Answers : Answer(r, a)
           \/ Goto(r, "write")
    <3> HIDE <1>0
    <3> QED BY <1>2 DEF CheckActiveJobs
  <2>3. CASE Goto(r, "write")  BY <2>1, <2>2, <2>3
  <2>4. ASSUME NEW a \in Answers, Answer(r, a)  PROVE RequestsOK' /\ JobsOK'
    <3> HIDE DEF Answers, JobStates
    <3> QED BY <2>1, <2>2, <2>4
  <2> QED BY <2>2, <2>3, <2>4
<1>3. CASE UpdateConnection(r)    BY <1>3 DEF UpdateConnection, UpdateConnectionByID
<1>4. CASE DeleteConnection(r)    BY <1>4 DEF DeleteConnection, DeleteConnectionByID
<1>5. CASE AssignConnection(r)    BY <1>5 DEF AssignConnection
<1>6. CASE CheckName(r)           BY <1>6 DEF CheckName
<1>7. CASE CreateConnection(r)    BY <1>7 DEF CreateConnection
<1>8. CASE GetLimiter(r)          BY <1>8 DEF GetLimiter
<1>9. CASE StoreLimiter(r)        BY <1>9 DEF StoreLimiter
<1>10. CASE Take(r)               BY <1>10 DEF Take
<1>25. CASE ReserveToken(r)       BY <1>25 DEF ReserveToken
<1>11. CASE CancelReservation(r)  BY <1>11 DEF CancelReservation
<1>12. CASE Connect(r)            BY <1>12 DEF Connect
<1>13. CASE ResolveForValidation(r)
  BY <1>13 DEF ResolveForValidation, HostRefused, DiscoverSchemaViaEngine
<1>14. CASE LookUpRedis(r)        BY <1>14 DEF LookUpRedis
<1>15. CASE LookUpMemory(r)       BY <1>15 DEF LookUpMemory
<1>16. CASE DiscoverSchema(r)     BY <1>16 DEF DiscoverSchema
<1>17. CASE PutSchemaMemory(r)    BY <1>17 DEF PutSchemaMemory
<1>18. CASE PutSchemaRedis(r)     BY <1>18 DEF PutSchemaRedis
<1>19. CASE ResolveForJob(r)      BY <1>19 DEF ResolveForJob
<1>20. CASE TestConnections(r)    BY <1>20 DEF TestConnections
<1>21. CASE InsertJob(r)          BY <1>21 DEF InsertJob
<1>22. CASE StartJob(r)           BY <1>22 DEF StartJob
<1>23. CASE ReadConnections(r)  
  <2>1. \A c \in FindByName(req[r].tenant, req[r].name) : c \in Ids  BY DEF FindByName
  <2> QED BY <1>23, <2>1 DEF ReadConnections
<1>24. CASE EndJob(r)             BY <1>24 DEF EndJob
<1> QED
  BY <1>1, <1>2, <1>3, <1>4, <1>5, <1>6, <1>7, <1>8, <1>9, <1>10, <1>11, <1>12, <1>13,
     <1>14, <1>15, <1>16, <1>17, <1>18, <1>19, <1>20, <1>21, <1>22, <1>23, <1>24, <1>25 DEF Step

LEMMA StepReadsOK ==
    ASSUME TypeOK, ReadInv, StoredConnectionsSound, NEW r \in Requests, Step(r)
    PROVE  ReadsOK'
<1>1. conns' \in [Ids -> Documents]
  BY StepWrites, WriteKeeps DEF TypeOK, ReadInv
<1>2. seen' \in [Requests -> Documents]
  <2> USE DEF TypeOK, ReadsOK, Sees
  <2>0. WellFormed(req[r])  BY CallsWellFormed DEF RequestsOK
  <2>1. CASE FindConnection(r)
    <3>1. req[r].id \in Ids  BY <2>0, <2>1 DEF FindConnection, HostRefused, At, WellFormed
    <3>2. FindByID(req[r].tenant, req[r].id) # Absent =>
             FindByID(req[r].tenant, req[r].id) \in Documents
      BY <3>1 DEF FindByID
    <3> QED BY <2>1, <3>2 DEF FindConnection, HostRefused
  <2>2. \A c \in FindByName(req[r].tenant, req[r].name) : conns[c] \in Documents
    BY DEF FindByName
  <2>3. CASE ResolveForValidation(r)  BY <2>2, <2>3 DEF ResolveForValidation, HostRefused
  <2>4. CASE ResolveForJob(r)         BY <2>2, <2>4 DEF ResolveForJob
  <2> QED BY <2>1, <2>3, <2>4, OthersKeepSeen DEF Reads
<1> QED BY <1>1, <1>2 DEF ReadsOK

(* The key under which a validation looks is one of the cache's. *)
LEMMA KeyInCache ==
    ASSUME TypeOK, ReadInv, NEW r \in Requests, req[r].kind = "validate",
           pc[r] \in {"cache", "memory", "discover", "put", "putRedis"}
    PROVE  SchemaKey(r) \in CacheKeys /\ SchemaKey(r)[1] = req[r].tenant
<1>1. req[r].tenant \in Tenants
  BY CallsWellFormed DEF TypeOK, RequestsOK, WellFormed
<1>2. seen[r].name \in Names
  BY DEF ReadInv, Named
<1> QED BY <1>1, <1>2 DEF SchemaKey, Key, CacheKeys

LEMMA StepCacheOK ==
    ASSUME TypeOK, ReadInv, FreshInv, NEW r \in Requests, Step(r)
    PROVE  CacheOK'
<1> USE DEF TypeOK, CacheOK
<1>1. CASE LookUpRedis(r)
  <2>1. SchemaKey(r) \in CacheKeys  BY <1>1, KeyInCache DEF LookUpRedis, At
  <2>2. RedisGet(SchemaKey(r)) \in Snapshots \cup {None}  BY <2>1 DEF RedisGet, Entries
  <2> QED BY <1>1, <2>2 DEF LookUpRedis, Serves, KeepWorld, cacheVars
<1>2. CASE LookUpMemory(r)
  <2>1. SchemaKey(r) \in CacheKeys  BY <1>2, KeyInCache DEF LookUpMemory, At
  <2>2. MemoryGet(SchemaKey(r)) \in Snapshots \cup {None}  BY <2>1 DEF MemoryGet, Entries
  <2> QED BY <1>2, <2>2 DEF LookUpMemory, Serves, KeepWorld, cacheVars
<1>3. CASE DiscoverSchema(r)
  <2>1. req[r].tenant \in Tenants  BY CallsWellFormed DEF RequestsOK, WellFormed
  <2>2. seen[r].target \in Targets \cup {None}  BY DEF ReadsOK, Documents
  <2>3. Discovered(r) \in Snapshots  BY <2>1, <2>2 DEF Discovered, Snapshots
  <2> QED BY <1>3, <2>3 DEF DiscoverSchema, Serves, KeepWorld, cacheVars
<1>4. now + TTL \in Nat  BY CacheAssumption
<1>5. \A s \in Snapshots \cup {None} : [snapshot |-> s, expires |-> now + TTL] \in Entries
  BY <1>4 DEF Entries
<1>6. CASE PutSchemaMemory(r)
  BY <1>5, <1>6 DEF PutSchemaMemory, SetMemory, KeepLocals
<1>7. CASE PutSchemaRedis(r)
  BY <1>5, <1>7 DEF PutSchemaRedis, SetRedis, KeepLocals
<1> QED BY <1>1, <1>2, <1>3, <1>6, <1>7, OthersKeepSchemas DEF UsesSchemas

LEMMA StepLimiterOK ==
    ASSUME TypeOK, BucketInv, NEW r \in Requests, Step(r)
    PROVE  LimiterOK'
<1> USE DEF TypeOK, LimiterOK
<1>0. WellFormed(req[r])  BY CallsWellFormed DEF RequestsOK
<1>1. req[r].kind = "test" => LimiterKey(r) \in Keys
  BY <1>0, CallAssumption DEF WellFormed, LimiterKey
<1>2. CASE GetLimiter(r)
  BY <1>1, <1>2 DEF GetLimiter, At, Load, KeepWorld, limiterVars
<1>3. CASE StoreLimiter(r)
  BY <1>1, <1>3 DEF StoreLimiter, At, LoadOrStore, Stored
<1>4. CASE Take(r)
  <2>1. held[r].bucket \in Requests  BY <1>4 DEF Take, At, BucketInv
  <2>2. CASE Allow(held[r].bucket) /\ UNCHANGED <<held, limiters>>
    BY <2>1, <2>2 DEF Allow
  <2>3. CASE UNCHANGED <<held, limiters, buckets>>
    BY <2>3
  <2> QED BY <1>4, <2>2, <2>3 DEF Take
<1>6. CASE ReserveToken(r)
  <2>1. held[r].bucket \in Requests  BY <1>6 DEF ReserveToken, At, BucketInv
  <2>2. TimeToAct(held[r].bucket) \in Int  BY <2>1 DEF TimeToAct
  <2> QED BY <1>6, <2>1, <2>2 DEF ReserveToken, Reserve
<1>5. CASE CancelReservation(r)
  <2>1. held[r].bucket \in Requests  BY <1>5 DEF CancelReservation, At, BucketInv
  <2>2. buckets' \in [Requests -> [tokens : Int, last : Int]]
    BY <1>5, <2>1, LimiterAssumption DEF CancelReservation, Cancel
  <2> QED BY <1>5, <2>2 DEF CancelReservation
<1> QED BY <1>2, <1>3, <1>4, <1>5, <1>6, OthersKeepLimiter DEF UsesLimiter

LEMMA StepTypeOK ==
    ASSUME TypeOK, ReadInv, StoredConnectionsSound, FreshInv, BucketInv,
           NEW r \in Requests, Step(r)
    PROVE  TypeOK'
BY StepRequestsOK, StepReadsOK, StepCacheOK, StepLimiterOK, StepKeepsTime DEF TypeOK

LEMMA EnvironmentTypeOK ==
    ASSUME TypeOK, Environment
    PROVE  TypeOK'
<1>1. UNCHANGED <<requestVars, conns, limiters>>  BY EnvironmentLocal
<1>2. RequestsOK' /\ JobsOK' /\ ReadsOK'
  BY <1>1 DEF TypeOK, RequestsOK, JobsOK, ReadsOK, requestVars
<1>3. CASE Tick
  <2>1. CacheOK'  BY <1>3 DEF TypeOK, CacheOK, Tick, cacheVars, requestVars
  <2>2. buckets' \in [Requests -> [tokens : Int, last : Int]]
    BY <1>3 DEF TypeOK, LimiterOK, Tick, Refill, Refilled
  <2>3. LimiterOK'  BY <1>3, <2>2 DEF TypeOK, LimiterOK, Tick, requestVars
  <2> QED BY <1>2, <1>3, <2>1, <2>3 DEF TypeOK, Tick
<1>4. CASE ~Tick
  <2>1. NoEntry \in Entries  BY DEF NoEntry, Entries
  <2>2. CacheOK'
    BY <1>1, <1>4, <2>1 DEF TypeOK, CacheOK, Environment, MonitorRedisHealth, CleanupExpired,
                            RedisChanges, requestVars
  <2>3. LimiterOK' /\ now' = now
    BY <1>1, <1>4 DEF TypeOK, LimiterOK, Environment, requestVars, limiterVars
  <2> QED BY <1>2, <2>2, <2>3 DEF TypeOK
<1> QED BY <1>3, <1>4

-----------------------------------------------------------------------------
(* What has been read. *)

Read(r) ==
    /\ Named(seen[r])
    /\ At(r, {"update", "delete"}, "gate") \/ At(r, {"update", "delete"}, "write") =>
          /\ seen[r].state = "live" /\ seen[r].tenant = req[r].tenant
          /\ conns[req[r].id].state # "absent"
          /\ conns[req[r].id].tenant = req[r].tenant
    /\ req[r].kind = "validate" /\ pc[r] \in {"cache", "memory", "discover", "put", "putRedis"}
          => seen[r].state = "live"
    /\ At(r, {"create"}, "insert") => IsValid(NewConnection(req[r].tenant, req[r].asked))

LEMMA ReadInvParts == ReadInv <=> (\A c \in Ids : Named(conns[c])) /\ \A r \in Requests : Read(r)
BY DEF ReadInv, Read

LEMMA InitReadInv == Init => ReadInv
<1> SUFFICES ASSUME Init PROVE ReadInv  OBVIOUS
<1>1. \A c \in Ids : Named(conns[c])
  BY StoredAssumption DEF Init, Named
<1>2. \A r \in Requests : pc[r] = "start" /\ seen[r] = Absent
  BY DEF Init
<1>3. Named(Absent)  BY DEF Named, Absent
<1> QED BY <1>1, <1>2, <1>3 DEF ReadInv, At

(* A request that has ended, and one that did not move, says no more. *)
LEMMA ReadAtEnd ==
    ASSUME TypeOK, NEW r \in Requests, Read(r), req' = req, seen' = seen, pc'[r] = "done"
    PROVE  Read(r)'
BY DEF Read, At

LEMMA StepReadSelf ==
    ASSUME TypeOK, ReadInv, StoredConnectionsSound, NEW r \in Requests, Step(r)
    PROVE  Read(r)'
<1> USE DEF TypeOK, RequestsOK, At, Goto, Answer, Sees
<1>0. Read(r) /\ req' = req /\ WellFormed(req[r])
  BY ReadInvParts, StepLocal, CallsWellFormed
<1>1. \A c \in Ids : Named(conns[c])  BY ReadInvParts
<1>2. CASE FindConnection(r)
  <2> DEFINE doc == FindByID(req[r].tenant, req[r].id)
  <2>1. req[r].id \in Ids  BY <1>0, <1>2 DEF FindConnection, HostRefused, WellFormed
  <2>2. doc # Absent => doc = conns[req[r].id] /\ doc.state = "live"
                        /\ doc.tenant = req[r].tenant /\ Named(doc)
    BY <1>1, <2>1 DEF FindByID, Live
  <2>3. req[r].kind # "validate" /\ req[r].kind # "create"  BY <1>2 DEF FindConnection, HostRefused
  <2>4. CASE pc'[r] = "done" /\ seen' = seen  BY <1>0, <2>4, ReadAtEnd
  <2>5. CASE doc # Absent /\ Sees(r, doc)
    <3>1. seen'[r] = doc /\ conns' = conns  BY <1>2, <2>5 DEF ReadsOK, FindConnection
    <3> HIDE DEF doc
    <3> QED BY <1>0, <2>2, <2>3, <2>5, <3>1 DEF Read, Named
  <2> QED BY <1>2, <2>4, <2>5 DEF FindConnection, HostRefused
<1>3. CASE CheckActiveJobs(r)
  <2>1. seen' = seen /\ conns' = conns /\ pc[r] = "gate" /\ pc'[r] \in {"done", "write"}
    BY <1>3 DEF CheckActiveJobs
  <2> QED BY <1>0, <1>3, <2>1 DEF Read, CheckActiveJobs
<1>4. CASE ResolveForValidation(r)
  <2>1. \A c \in FindByName(req[r].tenant, req[r].name) : conns[c].state = "live" /\ Named(conns[c])
    BY <1>1 DEF FindByName, Live
  <2>2. CASE pc'[r] = "done" /\ seen' = seen  BY <1>0, <2>2, ReadAtEnd
  <2>3. ASSUME NEW c \in FindByName(req[r].tenant, req[r].name), Sees(r, conns[c])
        PROVE  Read(r)'
    <3>1. seen'[r] = conns[c] /\ req[r].kind = "validate"
      BY <1>4, <2>3 DEF ReadsOK, ResolveForValidation
    <3> QED BY <1>0, <2>1, <3>1 DEF Read, Named
  <2> QED BY <1>4, <2>2, <2>3 DEF ResolveForValidation, HostRefused
<1>5. CASE ResolveForJob(r)
  <2>1. \A c \in FindByName(req[r].tenant, req[r].name) : Named(conns[c])
    BY <1>1 DEF FindByName
  <2>2. CASE pc'[r] = "done" /\ seen' = seen  BY <1>0, <2>2, ReadAtEnd
  <2>3. ASSUME NEW c \in FindByName(req[r].tenant, req[r].name), Sees(r, conns[c])
        PROVE  Read(r)'
    <3>1. seen'[r] = conns[c] /\ req[r].kind = "submit"
      BY <1>5, <2>3 DEF ReadsOK, ResolveForJob
    <3> QED BY <1>0, <2>1, <3>1 DEF Read, Named
  <2> QED BY <1>5, <2>2, <2>3 DEF ResolveForJob
<1>6. CASE CheckName(r)
  <2>1. seen' = seen /\ req[r].kind = "create"  BY <1>6 DEF CheckName
  <2>2. pc'[r] = "insert" => IsValid(NewConnection(req[r].tenant, req[r].asked))
    BY <1>6 DEF CheckName
  <2>3. IsValid(NewConnection(req[r].tenant, req[r].asked))' = IsValid(NewConnection(req[r].tenant, req[r].asked))
    BY <1>0
  <2> QED BY <1>0, <2>1, <2>2, <2>3 DEF Read
<1>7. CASE Writes(r) \/ Connect(r) \/ CancelReservation(r) \/ PutSchemaRedis(r) \/ InsertJob(r)
  <2>1. pc'[r] = "done" /\ seen' = seen
    BY <1>7 DEF Writes, UpdateConnection, UpdateConnectionByID, DeleteConnection,
                DeleteConnectionByID, AssignConnection, CreateConnection, Connect,
                CancelReservation, PutSchemaRedis, InsertJob
  <2> QED BY <1>0, <2>1, ReadAtEnd
<1>8. CASE GetLimiter(r) \/ StoreLimiter(r) \/ Take(r) \/ ReserveToken(r)
  <2>1. req[r].kind = "test" /\ seen' = seen
    BY <1>8 DEF GetLimiter, StoreLimiter, Take, ReserveToken
  <2> QED BY <1>0, <2>1 DEF Read
<1>9. CASE TestConnections(r)
  <2>1. req[r].kind = "submit" /\ seen' = seen  BY <1>9 DEF TestConnections
  <2> QED BY <1>0, <2>1 DEF Read
<1>10. CASE LookUpRedis(r) \/ LookUpMemory(r) \/ PutSchemaMemory(r)
  <2>1. /\ req[r].kind = "validate" /\ seen' = seen
        /\ pc[r] \in {"cache", "memory", "discover", "put", "putRedis"}
    BY <1>10 DEF LookUpRedis, LookUpMemory, PutSchemaMemory
  <2> QED BY <1>0, <2>1 DEF Read
<1>11. CASE DiscoverSchema(r)
  <2>1. req[r].kind \in {"validate", "schema"} /\ seen' = seen /\ pc[r] = "discover"
    BY <1>11 DEF DiscoverSchema
  <2> QED BY <1>0, <2>1 DEF Read
<1>12. CASE StartJob(r) \/ ReadConnections(r) \/ EndJob(r)
  <2>1. pc' = pc /\ seen' = seen /\ conns' = conns
    BY <1>12 DEF StartJob, ReadConnections, EndJob
  <2>2. IsValid(NewConnection(req[r].tenant, req[r].asked))' = IsValid(NewConnection(req[r].tenant, req[r].asked))
    BY <1>0
  <2> QED BY <1>0, <2>1, <2>2 DEF Read
<1> QED
  BY <1>2, <1>3, <1>4, <1>5, <1>6, <1>7, <1>8, <1>9, <1>10, <1>11, <1>12 DEF Step, Writes

LEMMA StepReadInv ==
    ASSUME TypeOK, ReadInv, StoredConnectionsSound, NEW r \in Requests, Step(r)
    PROVE  ReadInv'
<1>1. req' = req /\ Others(r) /\ Written  BY StepLocal, StepWrites
<1>2. ReadsOK /\ \A c \in Ids : Named(conns[c])  BY ReadInvParts DEF TypeOK
<1>3. \A c \in Ids :
         /\ Named(conns'[c])
         /\ conns[c].state # "absent" =>
               conns'[c].state # "absent" /\ conns'[c].tenant = conns[c].tenant
  BY <1>1, <1>2, WriteKeeps
<1>4. ASSUME NEW s \in Requests \ {r}  PROVE Read(s)'
  <2>1. Read(s) /\ WellFormed(req[s])
    BY ReadInvParts, CallsWellFormed DEF TypeOK, RequestsOK
  <2>2. pc'[s] = pc[s] /\ seen'[s] = seen[s]  BY <1>1 DEF Others
  <2>3. IsValid(NewConnection(req[s].tenant, req[s].asked))' = IsValid(NewConnection(req[s].tenant, req[s].asked))
    BY <1>1
  <2>4. req[s].kind \in {"update", "delete"} => req[s].id \in Ids  BY <2>1 DEF WellFormed
  <2> QED BY <1>1, <1>3, <2>1, <2>2, <2>3, <2>4 DEF Read, At, Named
<1>5. Read(r)'  BY StepReadSelf
<1> QED BY <1>3, <1>4, <1>5, ReadInvParts DEF ReadInv, Read, Named

-----------------------------------------------------------------------------
(* Who wins. *)

(* A request is told it deleted or assigned a connection by a step that     *)
(* found it not deleted, or without a product, and left its mark.           *)
LEMMA WinsNow ==
    ASSUME TypeOK, NEW r \in Requests, Step(r), reply[r] # "ok", reply'[r] = "ok"
    PROVE  /\ req[r].kind = "delete" =>
                 conns[req[r].id].state = "live" /\ conns'[req[r].id].state = "deleted"
           /\ req[r].kind = "assign" =>
                 conns[req[r].id].product = None /\ conns'[req[r].id].product # None
<1> USE DEF TypeOK, RequestsOK, At, Goto, Answer
<1>0. WellFormed(req[r])  BY CallsWellFormed
<1>1. CASE DeleteConnection(r)
  <2>1. req[r].id \in Ids /\ req[r].kind = "delete"  BY <1>0, <1>1 DEF DeleteConnection, WellFormed
  <2>2. SoftDelete(req[r].id)
    BY <1>1 DEF DeleteConnection, DeleteConnectionByID
  <2> QED BY <2>1, <2>2 DEF SoftDelete, CanDelete, Live, Put, ReadsOK, Documents
<1>2. CASE AssignConnection(r)
  <2>1. req[r].id \in Ids /\ req[r].product \in Products /\ req[r].kind = "assign"
    BY <1>0, <1>2 DEF AssignConnection, WellFormed
  <2>2. AssignProductName(req[r].id, req[r].product)
    BY <1>2 DEF AssignConnection
  <2> QED
    BY <2>1, <2>2, CallAssumption DEF AssignProductName, CanAssign, Put, ReadsOK, Documents
<1>3. CASE FindConnection(r)      BY <1>3 DEF FindConnection, HostRefused
<1>4. CASE CheckActiveJobs(r)     BY <1>4 DEF CheckActiveJobs
<1>5. CASE req[r].kind \notin {"delete", "assign"}  BY <1>5
<1>6. CASE StartJob(r) \/ ReadConnections(r) \/ EndJob(r)
  BY <1>6 DEF StartJob, ReadConnections, EndJob
<1>7. req[r].kind \in {"delete", "assign"} =>
         \/ FindConnection(r) \/ CheckActiveJobs(r) \/ DeleteConnection(r) \/ AssignConnection(r)
         \/ StartJob(r) \/ ReadConnections(r) \/ EndJob(r)
  BY DEF Step, UpdateConnection, CheckName, CreateConnection, GetLimiter, StoreLimiter, Take, ReserveToken,
         CancelReservation, Connect, ResolveForValidation, LookUpRedis, LookUpMemory,
         DiscoverSchema, PutSchemaMemory, PutSchemaRedis, ResolveForJob, TestConnections, InsertJob
<1> QED BY <1>1, <1>2, <1>3, <1>4, <1>5, <1>6, <1>7

LEMMA StepWonInv ==
    ASSUME TypeOK, ReadInv, StoredConnectionsSound, WonInv, OneWinner,
           NEW r \in Requests, Step(r)
    PROVE  WonInv' /\ OneWinner'
<1>1. req' = req /\ Others(r) /\ Written  BY StepLocal, StepWrites
<1>2. \A c \in Ids :
         /\ conns[c].state = "deleted" => conns'[c].state = "deleted"
         /\ conns[c].product # None => conns'[c].product # None
  BY <1>1, WriteKeeps, ReadInvParts DEF TypeOK
<1>3. \A s \in Requests : req[s].kind \in {"delete", "assign"} => req[s].id \in Ids
  BY CallsWellFormed DEF TypeOK, RequestsOK, WellFormed
<1>4. \A s \in Requests : reply[s] # "ok" /\ reply'[s] = "ok" =>
         /\ req[s].kind = "delete" =>
               conns[req[s].id].state = "live" /\ conns'[req[s].id].state = "deleted"
         /\ req[s].kind = "assign" =>
               conns[req[s].id].product = None /\ conns'[req[s].id].product # None
  BY <1>1, WinsNow DEF Others
<1>5. \A s \in Requests \ {r} : reply'[s] = reply[s]  BY <1>1 DEF Others
<1>6. WonInv'
  BY <1>1, <1>2, <1>3, <1>4 DEF WonInv
<1>7. OneWinner'
  BY <1>1, <1>4, <1>5 DEF WonInv, OneWinner
<1> QED BY <1>6, <1>7

-----------------------------------------------------------------------------
(* The gate. *)

(* A job runs on, or stops for good, once it exists. *)
LEMMA JobsMoveOn ==
    ASSUME TypeOK, NEW r \in Requests, Step(r), NEW j \in Requests, job[j] # None
    PROVE  job'[j] # None /\ (job'[j] \in {"pending", "processing"} => job[j] \in {"pending", "processing"})
<1> USE DEF TypeOK, RequestsOK, JobsOK
<1>0. \A w \in JobStates : w # None  BY CallAssumption
<1>1. CASE j # r  BY <1>1, StepLocal DEF Others
<1>2. CASE j = r
  <2>1. pc[r] = "done"  BY <1>2
  <2>2. StartJob(r) \/ ReadConnections(r) \/ EndJob(r)
    BY <2>1 DEF Step, At, FindConnection, CheckActiveJobs, UpdateConnection, DeleteConnection,
           AssignConnection, CheckName, CreateConnection, GetLimiter, StoreLimiter, Take, ReserveToken,
           CancelReservation, Connect, ResolveForValidation, LookUpRedis, LookUpMemory,
           DiscoverSchema, PutSchemaMemory, PutSchemaRedis, ResolveForJob, TestConnections,
           InsertJob
  <2>3. CASE StartJob(r)  BY <1>0, <1>2, <2>3 DEF StartJob, JobStates
  <2>4. CASE ReadConnections(r)  BY <1>0, <1>2, <2>4 DEF ReadConnections, JobStates
  <2>5. CASE EndJob(r)  BY <1>0, <1>2, <2>5 DEF EndJob, JobStates
  <2> QED BY <2>2, <2>3, <2>4, <2>5
<1> QED BY <1>1, <1>2

(* Where a request comes from that may write: the gate, just now. *)
LEMMA ThroughTheGate ==
    ASSUME TypeOK, NEW r \in Requests, Step(r), req[r].kind \in {"update", "delete"},
           pc'[r] = "write"
    PROVE  \/ /\ CheckActiveJobs(r) /\ Running(req[r].tenant, seen[r].name) = {}
              /\ gated'[r] = {j \in Requests : job[j] # None}
           \/ pc[r] = "write" /\ UNCHANGED <<seen, gated>>
<1> USE DEF TypeOK, RequestsOK, At, Goto, Answer
<1>1. CASE FindConnection(r)      BY <1>1 DEF FindConnection, HostRefused
<1>2. CASE CheckActiveJobs(r)
  BY <1>2 DEF CheckActiveJobs, JobsOK
<1>3. CASE UpdateConnection(r)    BY <1>3 DEF UpdateConnection, UpdateConnectionByID
<1>4. CASE DeleteConnection(r)    BY <1>4 DEF DeleteConnection, DeleteConnectionByID
<1>5. CASE StartJob(r) \/ ReadConnections(r) \/ EndJob(r)
  BY <1>5 DEF StartJob, ReadConnections, EndJob
<1>6. \/ FindConnection(r) \/ CheckActiveJobs(r) \/ UpdateConnection(r) \/ DeleteConnection(r)
      \/ StartJob(r) \/ ReadConnections(r) \/ EndJob(r)
  BY DEF Step, AssignConnection, CheckName, CreateConnection, GetLimiter, StoreLimiter, Take, ReserveToken,
         CancelReservation, Connect, ResolveForValidation, LookUpRedis, LookUpMemory,
         DiscoverSchema, PutSchemaMemory, PutSchemaRedis, ResolveForJob, TestConnections, InsertJob
<1> QED BY <1>1, <1>2, <1>3, <1>4, <1>5, <1>6

LEMMA StepGateInv ==
    ASSUME TypeOK, GateInv, NEW r \in Requests, Step(r)
    PROVE  GateInv'
<1>1. req' = req /\ Others(r)  BY StepLocal
<1>2. \A j \in Requests : job[j] # None =>
         job'[j] # None /\ (job'[j] \in {"pending", "processing"} => job[j] \in {"pending", "processing"})
  BY JobsMoveOn
<1>3. gated \in [Requests -> SUBSET Requests]  BY DEF TypeOK, JobsOK
<1>4. ASSUME NEW s \in Requests, req[s].kind \in {"update", "delete"}, pc[s] = "write",
             seen'[s] = seen[s], gated'[s] = gated[s], NEW j \in gated'[s]
      PROVE  /\ job'[j] # None
             /\ ~( /\ job'[j] \in {"pending", "processing"}
                   /\ req[j].tenant = req[s].tenant /\ req[j].name = seen'[s].name )
  <2>1. j \in Requests /\ j \in gated[s]  BY <1>3, <1>4
  <2> QED BY <1>2, <1>4, <2>1 DEF GateInv, At
<1>5. ASSUME CheckActiveJobs(r), Running(req[r].tenant, seen[r].name) = {},
             gated'[r] = {j \in Requests : job[j] # None}, NEW j \in gated'[r]
      PROVE  /\ job'[j] # None
             /\ ~( /\ job'[j] \in {"pending", "processing"}
                   /\ req[j].tenant = req[r].tenant /\ req[j].name = seen'[r].name )
  <2>1. seen' = seen /\ job' = job  BY <1>5 DEF CheckActiveJobs
  <2> QED BY <1>5, <2>1 DEF Running
<1> QED BY <1>1, <1>4, <1>5, ThroughTheGate DEF GateInv, At, Others

-----------------------------------------------------------------------------
(* The cache. *)

LEMMA StepFreshInv ==
    ASSUME TypeOK, ReadInv, FreshInv, NEW r \in Requests, Step(r)
    PROVE  FreshInv'
<1> USE DEF TypeOK, RequestsOK, CacheOK
<1>1. req' = req /\ Others(r) /\ now' = now  BY StepLocal, StepKeepsTime
<1>2. ASSUME \A k \in CacheKeys : EntryOK(k, redis'[k]) /\ EntryOK(k, memory'[k]),
             req[r].kind = "validate" /\ pc'[r] \in {"put", "putRedis"} =>
                snap'[r].tenant = req[r].tenant /\ snap'[r].at = now
      PROVE  FreshInv'
  <2>1. \A s \in Requests : req[s].kind = "validate" /\ pc'[s] \in {"put", "putRedis"} =>
           snap'[s].tenant = req[s].tenant /\ snap'[s].at = now
    BY <1>1, <1>2 DEF FreshInv, Others
  <2> QED BY <1>1, <1>2, <2>1 DEF FreshInv, EntryOK
<1>3. \A k \in CacheKeys : EntryOK(k, redis[k]) /\ EntryOK(k, memory[k])  BY DEF FreshInv
<1>4. CASE LookUpRedis(r) \/ LookUpMemory(r)
  <2>1. redis' = redis /\ memory' = memory /\ pc'[r] \in {"memory", "discover", "done"}
    BY <1>4 DEF LookUpRedis, LookUpMemory, KeepWorld, cacheVars, Goto, Answer
  <2> QED BY <1>2, <1>3, <2>1
<1>5. CASE DiscoverSchema(r)
  <2>1. redis' = redis /\ memory' = memory  BY <1>5 DEF DiscoverSchema, KeepWorld, cacheVars
  <2>2. pc'[r] \in {"put", "putRedis"} => snap'[r] = Discovered(r)
    BY <1>5 DEF DiscoverSchema, Serves, Goto, Answer
  <2>3. Discovered(r).tenant = req[r].tenant /\ Discovered(r).at = now
    BY DEF Discovered
  <2> QED BY <1>2, <1>3, <2>1, <2>2, <2>3
<1>6. ASSUME pc[r] \in {"put", "putRedis"}, req[r].kind = "validate"
      PROVE  /\ SchemaKey(r) \in CacheKeys
             /\ EntryOK(SchemaKey(r), [snapshot |-> snap[r], expires |-> now + TTL])
             /\ snap[r].tenant = req[r].tenant /\ snap[r].at = now
  BY <1>6, KeyInCache DEF FreshInv, EntryOK
<1>7. CASE PutSchemaMemory(r)
  <2>1. /\ redis' = redis /\ snap' = snap /\ pc[r] = "put" /\ req[r].kind = "validate"
        /\ memory' = [memory EXCEPT ![SchemaKey(r)] = [snapshot |-> snap[r], expires |-> now + TTL]]
    BY <1>7 DEF PutSchemaMemory, At, SetMemory, KeepLocals
  <2>2. \A k \in CacheKeys : EntryOK(k, memory'[k])
    BY <1>3, <1>6, <2>1
  <2> QED BY <1>2, <1>3, <1>6, <2>1, <2>2
<1>8. CASE PutSchemaRedis(r)
  <2>1. /\ memory' = memory /\ snap' = snap /\ pc[r] = "putRedis" /\ req[r].kind = "validate"
        /\ \/ redis' = redis
           \/ redis' = [redis EXCEPT ![SchemaKey(r)] = [snapshot |-> snap[r], expires |-> now + TTL]]
    BY <1>8 DEF PutSchemaRedis, At, SetRedis, KeepLocals
  <2>2. \A k \in CacheKeys : EntryOK(k, redis'[k])
    BY <1>3, <1>6, <2>1
  <2> QED BY <1>2, <1>3, <1>6, <2>1, <2>2
<1>9. CASE ~UsesSchemas(r)
  <2>1. snap' = snap /\ redis' = redis /\ memory' = memory  BY <1>9, OthersKeepSchemas
  <2>2. req[r].kind = "validate" /\ pc'[r] \in {"put", "putRedis"} => pc[r] \in {"put", "putRedis"}
    BY <1>9 DEF Step, UsesSchemas, At, Goto, Answer, HostRefused, DiscoverSchemaViaEngine, UsesCache,
           FindConnection, CheckActiveJobs, UpdateConnection, DeleteConnection,
           AssignConnection, CheckName, CreateConnection, GetLimiter, StoreLimiter, Take, ReserveToken,
           CancelReservation, Connect, ResolveForValidation, ResolveForJob, TestConnections,
           InsertJob, StartJob, ReadConnections, EndJob
  <2> QED BY <1>2, <1>3, <1>6, <2>1, <2>2
<1> QED BY <1>4, <1>5, <1>7, <1>8, <1>9 DEF UsesSchemas

-----------------------------------------------------------------------------
(* The limiter. *)

Grant(r) == pc[r] \in {"find", "connect"} \/ reply[r] \notin {None, "limited"}

LEMMA KeyOfTest ==
    ASSUME TypeOK, NEW r \in Requests, req[r].kind = "test"
    PROVE  LimiterKey(r) \in Keys
BY CallsWellFormed, CallAssumption DEF TypeOK, RequestsOK, WellFormed, LimiterKey

(* A step that does not use the limiter leaves a test where the limiter     *)
(* put it: granted, waiting, or about to ask.                               *)
LEMMA OthersKeepGrants ==
    ASSUME TypeOK, NEW r \in Requests, Step(r), ~UsesLimiter(r), req[r].kind = "test"
    PROVE  /\ Grant(r)' <=> Grant(r)
           /\ pc'[r] = "cancel" <=> pc[r] = "cancel"
           /\ pc'[r] \in {"take", "reserve"} <=> pc[r] \in {"take", "reserve"}
<1> USE DEF TypeOK, RequestsOK, At, Goto, Answer, Grant
<1>0. \A w \in Answers : w # None  BY CallAssumption
<1>1. CASE FindConnection(r)  BY <1>0, <1>1 DEF FindConnection, HostRefused, Answers
<1>2. CASE Connect(r)         BY <1>0, <1>2 DEF Connect, Answers
<1>3. CASE StartJob(r) \/ ReadConnections(r) \/ EndJob(r)
  BY <1>3 DEF StartJob, ReadConnections, EndJob
<1>4. FindConnection(r) \/ Connect(r) \/ StartJob(r) \/ ReadConnections(r) \/ EndJob(r)
  BY DEF Step, UsesLimiter, CheckActiveJobs, UpdateConnection, DeleteConnection,
         AssignConnection, CheckName, CreateConnection, ResolveForValidation, LookUpRedis,
         LookUpMemory, DiscoverSchema, PutSchemaMemory, PutSchemaRedis, ResolveForJob,
         TestConnections, InsertJob
<1> QED BY <1>1, <1>2, <1>3, <1>4

LEMMA StepBucketInv ==
    ASSUME TypeOK, BucketInv, NEW r \in Requests, Step(r)
    PROVE  BucketInv'
<1> USE DEF TypeOK, LimiterOK
<1>1. req' = req /\ Others(r)  BY StepLocal
<1>2. \A s \in Requests : LimiterKey(s)' = LimiterKey(s)  BY <1>1 DEF LimiterKey
<1>3. req[r].kind = "test" => LimiterKey(r) \in Keys  BY KeyOfTest
<1>4. CASE GetLimiter(r)
  <2>1. /\ limiters' = limiters /\ buckets' = buckets /\ req[r].kind = "test"
        /\ pc'[r] \in {"take", "reserve", "cancel"} =>
              held'[r].bucket = limiters[LimiterKey(r)] /\ limiters[LimiterKey(r)] # None
    BY <1>4 DEF GetLimiter, At, Goto, Load, KeepWorld, limiterVars, RequestsOK
  <2> QED BY <1>1, <1>2, <2>1 DEF BucketInv, Others
<1>5. CASE StoreLimiter(r)
  <2> DEFINE k == LimiterKey(r)
  <2>1. /\ buckets' = buckets /\ req[r].kind = "test" /\ k \in Keys
        /\ limiters' = [limiters EXCEPT ![k] = IF @ = None THEN r ELSE @]
        /\ held' = [held EXCEPT ![r].bucket = IF limiters[k] = None THEN r ELSE limiters[k]]
    BY <1>3, <1>5 DEF StoreLimiter, At, LoadOrStore, Stored
  <2>2. /\ limiters'[k] # None /\ held'[r].bucket = limiters'[k]
        /\ \A x \in Keys : x # k \/ limiters[x] # None => limiters'[x] = limiters[x]
        /\ limiters[k] = None => limiters'[k] = r
    BY <2>1, CallAssumption
  <2>3. \A x \in Keys : limiters'[x] # None => LimiterKey(limiters'[x]) = x
    BY <2>2 DEF BucketInv
  <2>4. \A s \in Requests \ {r} : req[s].kind = "test" /\ pc[s] \in {"take", "reserve", "cancel"} =>
           held[s].bucket # None /\ held[s].bucket = limiters'[LimiterKey(s)]
    BY <2>2, KeyOfTest DEF BucketInv
  <2>5. \A s \in Requests : req'[s].kind = "test" /\ pc'[s] \in {"take", "reserve", "cancel"} =>
           held'[s].bucket # None /\ held'[s].bucket = limiters'[LimiterKey(s)]
    BY <1>1, <2>2, <2>4 DEF Others
  <2>6. \A s \in Requests : buckets'[s].tokens <= Tokens  BY <2>1 DEF BucketInv
  <2> QED
    <3> HIDE DEF k, TypeOK
    <3> QED BY <1>1, <2>3, <2>5, <2>6 DEF BucketInv, LimiterKey
<1>6. CASE Take(r)
  <2>1. /\ limiters' = limiters /\ held'[r].bucket = held[r].bucket /\ pc[r] = "take"
        /\ req[r].kind = "test" /\ held[r].bucket \in Requests
    BY <1>6 DEF Take, At, BucketInv
  <2>2. \A s \in Requests : buckets'[s].tokens <= Tokens
    <3>1. \A s \in Requests : buckets'[s].tokens <= buckets[s].tokens
      BY <1>6, <2>1 DEF Take, Allow
    <3>2. \A s \in Requests : buckets'[s].tokens \in Int
      BY <1>6, <2>1 DEF Take, Allow
    <3> QED BY <3>1, <3>2, LimiterAssumption DEF BucketInv
  <2> QED BY <1>1, <1>2, <2>1, <2>2 DEF BucketInv, Others
<1>9. CASE ReserveToken(r)
  <2>1. /\ limiters' = limiters /\ held'[r].bucket = held[r].bucket /\ pc[r] = "reserve"
        /\ req[r].kind = "test" /\ held[r].bucket \in Requests
    BY <1>9 DEF ReserveToken, At, BucketInv
  <2>2. \A s \in Requests : buckets'[s].tokens <= Tokens
    <3>1. \A s \in Requests : buckets'[s].tokens <= buckets[s].tokens /\ buckets'[s].tokens \in Int
      BY <1>9, <2>1 DEF ReserveToken, Reserve
    <3> QED BY <3>1, LimiterAssumption DEF BucketInv
  <2> QED BY <1>1, <1>2, <2>1, <2>2 DEF BucketInv, Others
<1>7. CASE CancelReservation(r)
  <2>1. /\ limiters' = limiters /\ held' = held /\ pc[r] = "cancel" /\ pc'[r] = "done"
        /\ req[r].kind = "test" /\ held[r].bucket \in Requests
    BY <1>7 DEF CancelReservation, At, Answer, BucketInv, RequestsOK
  <2>2. \A s \in Requests : buckets'[s].tokens <= Tokens
    BY <1>7, <2>1, LimiterAssumption DEF CancelReservation, Cancel, BucketInv
  <2> QED BY <1>1, <1>2, <2>1, <2>2 DEF BucketInv, Others
<1>8. CASE ~UsesLimiter(r)
  BY <1>1, <1>2, <1>8, OthersKeepLimiter, OthersKeepGrants DEF BucketInv, Others
<1> QED BY <1>4, <1>5, <1>6, <1>7, <1>8, <1>9 DEF UsesLimiter

LEMMA Earlier ==
    ASSUME NEW l \in Int, NEW a \in Int, a <= l
    PROVE  (1 - (l - a) > 0 => a = l) /\ (a # l => a <= l - 1)
OBVIOUS

(* What the operations do to the one bucket they are about. *)
LEMMA TakeCases ==
    ASSUME TypeOK, BucketInv, NEW r \in Requests, Take(r)
    PROVE  LET b == held[r].bucket IN
           /\ b \in Requests /\ req[r].kind = "test" /\ pc[r] = "take"
           /\ UNCHANGED <<req, limiters, now, reply, held>>
           /\ \A s \in Requests \ {b} : buckets'[s] = buckets[s]
           /\ \/ /\ buckets[b].tokens >= 1 /\ buckets'[b].tokens = buckets[b].tokens - 1
                 /\ buckets'[b].last = now /\ pc'[r] = "find"
              \/ buckets' = buckets /\ pc'[r] = "reserve"
<1> USE DEF TypeOK, LimiterOK, RequestsOK, At, Goto
<1> DEFINE b == held[r].bucket
<1>1. b \in Requests /\ req[r].kind = "test" /\ pc[r] = "take"  BY DEF Take, BucketInv
<1>2. CASE Allows(b)   BY <1>1, <1>2 DEF Take, Allows, Allow
<1>3. CASE ~Allows(b)  BY <1>1, <1>3 DEF Take
<1> QED BY <1>2, <1>3

LEMMA ReserveCases ==
    ASSUME TypeOK, BucketInv, NEW r \in Requests, ReserveToken(r)
    PROVE  LET b == held[r].bucket IN
           /\ b \in Requests /\ req[r].kind = "test" /\ pc[r] = "reserve" /\ pc'[r] = "cancel"
           /\ UNCHANGED <<req, limiters, now, reply>>
           /\ \A s \in Requests \ {b} : buckets'[s] = buckets[s]
           /\ buckets'[b].tokens = buckets[b].tokens - 1
           /\ held'[r].bucket = b /\ held'[r].at = buckets'[b].last
           /\ buckets'[b].last = IF buckets[b].tokens >= 1 THEN now ELSE now + (1 - buckets[b].tokens)
<1> USE DEF TypeOK, LimiterOK, RequestsOK, At, Goto
<1> DEFINE b == held[r].bucket
           at == TimeToAct(b)
<1>1. b \in Requests /\ req[r].kind = "test" /\ pc[r] = "reserve"  BY DEF ReserveToken, BucketInv
<1>2. at = IF buckets[b].tokens >= 1 THEN now ELSE now + (1 - buckets[b].tokens)  BY DEF TimeToAct
<1>3. /\ buckets' = [buckets EXCEPT ![b] = [tokens |-> @.tokens - 1, last |-> at]]
      /\ held' = [held EXCEPT ![r].at = at] /\ pc' = [pc EXCEPT ![r] = "cancel"]
      /\ UNCHANGED <<req, limiters, now, reply>>
  BY DEF ReserveToken, Reserve
<1> HIDE DEF at
<1> QED BY <1>1, <1>2, <1>3

(* Cancelling gives back a token only for the reservation its bucket's      *)
(* latest event is.                                                         *)
LEMMA CancelCases ==
    ASSUME TypeOK, BucketInv, ReservationInv, NEW r \in Requests, CancelReservation(r)
    PROVE  LET b == held[r].bucket IN
           /\ b \in Requests /\ req[r].kind = "test" /\ pc[r] = "cancel"
           /\ UNCHANGED <<req, limiters, now, held>>
           /\ pc'[r] = "done" /\ reply[r] = None /\ reply'[r] = "limited"
           /\ \A s \in Requests \ {b} : buckets'[s] = buckets[s]
           /\ \/ buckets' = buckets
              \/ /\ held[r].at = buckets[b].last
                 /\ buckets'[b].tokens <= buckets[b].tokens + 1
                 /\ held[r].at >= now
                 /\ \/ buckets'[b].last = buckets[b].last
                    \/ buckets'[b].last = buckets[b].last - 1 /\ buckets[b].last - 1 >= now
<1> USE DEF TypeOK, LimiterOK, RequestsOK, At, Answer
<1> DEFINE b == held[r].bucket
           at == held[r].at
           restore == 1 - (buckets[b].last - at)
<1>1. /\ b \in Requests /\ req[r].kind = "test" /\ pc[r] = "cancel" /\ reply[r] = None
      /\ UNCHANGED <<req, limiters, now, held>> /\ pc'[r] = "done" /\ reply'[r] = "limited"
  BY DEF CancelReservation, BucketInv
<1>2. buckets[b].tokens \in Int /\ buckets[b].last \in Int /\ at \in Int /\ Tokens \in Int
  BY <1>1, LimiterAssumption
<1>3. at <= buckets[b].last  BY <1>1 DEF ReservationInv, Waiting
<1>4. CASE buckets' = buckets  BY <1>1, <1>4
<1>5. CASE buckets' # buckets
  <2>1. Cancel(b, at)  BY DEF CancelReservation
  <2>2. /\ restore > 0 /\ at >= now
        /\ buckets' = [buckets EXCEPT ![b] =
              [tokens |-> IF @.tokens + restore > Tokens THEN Tokens ELSE @.tokens + restore,
               last |-> IF at = @.last /\ at - 1 >= now THEN at - 1 ELSE @.last]]
    <3> HIDE DEF b, at
    <3> QED BY <1>2, <1>5, <2>1 DEF Cancel
  <2>3. restore = 1 /\ at = buckets[b].last
    <3>1. at = buckets[b].last
      <4> HIDE DEF b, at
      <4> QED BY <1>2, <1>3, <2>2, Earlier
    <3> QED BY <1>2, <3>1
  <2>4. /\ buckets'[b].tokens =
             IF buckets[b].tokens + 1 > Tokens THEN Tokens ELSE buckets[b].tokens + 1
        /\ \/ buckets'[b].last = buckets[b].last
           \/ buckets'[b].last = buckets[b].last - 1 /\ buckets[b].last - 1 >= now
        /\ \A s \in Requests \ {b} : buckets'[s] = buckets[s]
    <3> HIDE DEF b, at, restore
    <3> QED BY <1>1, <2>2, <2>3
  <2>5. buckets'[b].tokens <= buckets[b].tokens + 1
    <3> HIDE DEF b, at, restore
    <3> QED BY <1>2, <2>4
  <2> QED BY <1>1, <2>2, <2>3, <2>4, <2>5
<1> QED BY <1>4, <1>5

LEMMA StepReservationInv ==
    ASSUME TypeOK, BucketInv, ReservationInv, NEW r \in Requests, Step(r), TypeOK'
    PROVE  ReservationInv'
<1> USE DEF TypeOK, LimiterOK
<1>1. req' = req /\ Others(r) /\ now' = now  BY StepLocal, StepKeepsTime
<1>2. ASSUME \A s \in Requests : Waiting(s)' => Waiting(s) /\ held'[s] = held[s],
             buckets' = buckets
      PROVE  ReservationInv'
  BY <1>1, <1>2 DEF ReservationInv, Ahead
<1>3. CASE GetLimiter(r) \/ StoreLimiter(r)
  <2>1. pc'[r] # "cancel" /\ buckets' = buckets
    BY <1>3 DEF GetLimiter, StoreLimiter, Goto, KeepWorld, limiterVars, RequestsOK
  <2> QED BY <1>1, <1>2, <2>1 DEF Waiting, At, Others
<1>4. CASE ~UsesLimiter(r)
  <2>1. held' = held /\ buckets' = buckets  BY <1>4, OthersKeepLimiter
  <2>2. \A s \in Requests : Waiting(s)' => Waiting(s)
    BY <1>1, <1>4, OthersKeepGrants DEF Waiting, At, Others
  <2> QED BY <1>2, <2>1, <2>2
<1>7. \A s \in Requests : Waiting(s) =>
         held[s].at \in Int /\ held[s].bucket \in Requests /\ buckets[held[s].bucket].tokens \in Int
  BY DEF BucketInv, Waiting, At
<1>8. now \in Int /\ \A b \in Requests : /\ buckets[b].tokens \in Int /\ buckets[b].last \in Int
                                         /\ buckets'[b].tokens \in Int /\ buckets'[b].last \in Int
  OBVIOUS
<1>5. CASE Take(r)
  <2>1. PICK b \in Requests : b = held[r].bucket  BY <1>5, TakeCases
  <2>2. /\ pc'[r] # "cancel" /\ held' = held
        /\ \A s \in Requests \ {b} : buckets'[s] = buckets[s]
        /\ \/ /\ buckets[b].tokens >= 1 /\ buckets'[b].tokens = buckets[b].tokens - 1
              /\ buckets'[b].last = now
           \/ buckets' = buckets
    BY <1>5, <2>1, TakeCases
  <2>3. \A s \in Requests : Waiting(s)' => Waiting(s)
    BY <1>1, <2>2 DEF Waiting, At, Others
  <2>4. CASE buckets' = buckets  BY <1>2, <2>2, <2>3, <2>4
  <2>5. CASE buckets' # buckets
    <3>1. buckets[b].tokens >= 1 /\ buckets'[b].tokens = buckets[b].tokens - 1 /\ buckets'[b].last = now
      BY <2>2, <2>5
    <3>2. ASSUME NEW s \in Requests, Waiting(s), held[s].bucket = b
          PROVE  held[s].at <= now
      <4>1. held[s].at <= now \/ held[s].at <= now - buckets[b].tokens
        BY <3>2 DEF ReservationInv, Ahead
      <4>2. held[s].at \in Int  BY <1>7, <3>2
      <4> QED BY <1>8, <3>1, <4>1, <4>2
    <3>3. ASSUME NEW s \in Requests, Waiting(s), held[s].bucket # b
          PROVE  Ahead(s)' /\ held[s].at <= buckets'[held[s].bucket].last
      BY <1>1, <1>7, <2>2, <3>3 DEF ReservationInv, Ahead
    <3>4. \A s \in Requests : Waiting(s)' => Ahead(s)' /\ held'[s].at <= buckets'[held'[s].bucket].last
      BY <1>1, <2>2, <2>3, <3>1, <3>2, <3>3 DEF Ahead
    <3> QED BY <1>1, <2>2, <2>3, <3>4 DEF ReservationInv
  <2> QED BY <2>4, <2>5
<1>9. CASE ReserveToken(r)
  <2>1. PICK b \in Requests : b = held[r].bucket  BY <1>9, ReserveCases
  <2>2. /\ pc[r] = "reserve" /\ held'[r].bucket = b /\ held'[r].at = buckets'[b].last
        /\ \A s \in Requests \ {b} : buckets'[s] = buckets[s]
        /\ buckets'[b].tokens = buckets[b].tokens - 1
        /\ buckets'[b].last = IF buckets[b].tokens >= 1 THEN now ELSE now + (1 - buckets[b].tokens)
    BY <1>9, <2>1, ReserveCases
  <2>3. \A s \in Requests \ {r} : (Waiting(s)' <=> Waiting(s)) /\ held'[s] = held[s]
    BY <1>1 DEF Others, Waiting, At
  <2>4. ASSUME NEW s \in Requests \ {r}, Waiting(s), held[s].bucket = b
        PROVE  /\ held[s].at <= now \/ held[s].at <= now - buckets'[b].tokens
               /\ held[s].at <= buckets'[b].last
               /\ held[s].at # held'[r].at \/ held'[r].at <= now
    <3>1. held[s].at <= now \/ held[s].at <= now - buckets[b].tokens
      BY <2>4 DEF ReservationInv, Ahead
    <3>2. held[s].at \in Int  BY <1>7, <2>4
    <3>3. PICK t, a \in Int : t = buckets[b].tokens /\ a = held[s].at  BY <1>8, <3>2
    <3>4. /\ buckets'[b].tokens = t - 1
          /\ a <= now \/ a <= now - t
          /\ buckets'[b].last = IF t >= 1 THEN now ELSE now + (1 - t)
      BY <2>2, <3>1, <3>3
    <3> QED BY <1>8, <2>2, <3>3, <3>4
  <2>5. /\ held'[r].at <= now \/ held'[r].at <= now - buckets'[b].tokens
        /\ held'[r].at <= buckets'[b].last
    BY <1>8, <2>2
  <2>6. ASSUME NEW s \in Requests \ {r}, Waiting(s), held[s].bucket # b
        PROVE  Ahead(s)' /\ held[s].at <= buckets'[held[s].bucket].last
    BY <1>1, <1>7, <2>2, <2>3, <2>6 DEF ReservationInv, Ahead
  <2>7. \A s \in Requests : Waiting(s)' => Ahead(s)' /\ held'[s].at <= buckets'[held'[s].bucket].last
    <3>1. SUFFICES ASSUME NEW s \in Requests, Waiting(s)'
                   PROVE  Ahead(s)' /\ held'[s].at <= buckets'[held'[s].bucket].last
      OBVIOUS
    <3>2. CASE s = r  BY <1>1, <2>2, <2>5, <3>2 DEF Ahead
    <3>3. CASE s # r /\ held[s].bucket = b  BY <1>1, <2>3, <2>4, <3>1, <3>3 DEF Ahead
    <3>4. CASE s # r /\ held[s].bucket # b  BY <2>3, <2>6, <3>1, <3>4
    <3> QED BY <3>2, <3>3, <3>4
  <2>8. \A s, t \in Requests :
           Waiting(s)' /\ Waiting(t)' /\ s # t /\ held'[s].bucket = held'[t].bucket
              => held'[s].at # held'[t].at \/ held'[s].at <= now
    <3> SUFFICES ASSUME NEW s \in Requests, NEW t \in Requests, Waiting(s)', Waiting(t)',
                        s # t, held'[s].bucket = held'[t].bucket
                 PROVE  held'[s].at # held'[t].at \/ held'[s].at <= now
      OBVIOUS
    <3>1. CASE s = r  BY <2>2, <2>3, <2>4, <3>1
    <3>2. CASE t = r  BY <2>2, <2>3, <2>4, <3>2
    <3>3. CASE s # r /\ t # r  BY <2>3, <3>3 DEF ReservationInv
    <3> QED BY <3>1, <3>2, <3>3
  <2> QED BY <1>1, <2>7, <2>8 DEF ReservationInv
<1>6. CASE CancelReservation(r)
  <2>1. PICK b \in Requests : b = held[r].bucket  BY <1>6, CancelCases
  <2>2. /\ pc'[r] = "done" /\ held' = held /\ Waiting(r)
        /\ \A s \in Requests \ {b} : buckets'[s] = buckets[s]
        /\ \/ buckets' = buckets
           \/ /\ held[r].at = buckets[b].last
              /\ buckets'[b].tokens <= buckets[b].tokens + 1
              /\ held[r].at >= now
              /\ \/ buckets'[b].last = buckets[b].last
                 \/ buckets'[b].last = buckets[b].last - 1 /\ buckets[b].last - 1 >= now
    BY <1>6, <2>1, CancelCases DEF Waiting, At
  <2>3. \A s \in Requests : Waiting(s)' => Waiting(s) /\ s # r
    BY <1>1, <2>2 DEF Waiting, At, Others
  <2>4. CASE buckets' = buckets  BY <1>2, <2>2, <2>3, <2>4
  <2>5. CASE buckets' # buckets
    <3>1. /\ held[r].at = buckets[b].last /\ buckets'[b].tokens <= buckets[b].tokens + 1
          /\ \/ buckets'[b].last = buckets[b].last
             \/ buckets'[b].last = buckets[b].last - 1 /\ buckets[b].last - 1 >= now
          /\ held[r].at <= now \/ held[r].at <= now - buckets[b].tokens
          /\ held[r].at \in Int
      BY <1>7, <2>1, <2>2, <2>5 DEF ReservationInv, Ahead
    <3>2. ASSUME NEW s \in Requests, Waiting(s), s # r, held[s].bucket = b
          PROVE  /\ held[s].at <= now \/ held[s].at <= now - buckets'[b].tokens
                 /\ held[s].at <= buckets'[b].last
      <4>1. /\ held[s].at # held[r].at \/ held[s].at <= now
            /\ held[s].at <= buckets[b].last /\ held[s].at \in Int
        BY <1>7, <2>1, <2>2, <3>2 DEF ReservationInv
      <4>2. CASE held[s].at <= now
        BY <1>8, <3>1, <4>1, <4>2
      <4>3. CASE ~(held[s].at <= now)
        <5>1. held[s].at <= held[r].at - 1  BY <1>8, <3>1, <4>1, <4>3, Earlier
        <5>2. held[r].at <= now - buckets[b].tokens  BY <1>8, <3>1, <4>1, <4>3, <5>1
        <5> QED BY <1>8, <3>1, <4>1, <5>1, <5>2
      <4> QED BY <4>2, <4>3
    <3>3. ASSUME NEW s \in Requests, Waiting(s), held[s].bucket # b
          PROVE  Ahead(s)' /\ held[s].at <= buckets'[held[s].bucket].last
      BY <1>1, <1>7, <2>2, <3>3 DEF ReservationInv, Ahead
    <3>4. \A s \in Requests : Waiting(s)' => Ahead(s)' /\ held'[s].at <= buckets'[held'[s].bucket].last
      BY <1>1, <2>2, <2>3, <3>2, <3>3 DEF Ahead
    <3> QED BY <1>1, <2>2, <2>3, <3>4 DEF ReservationInv
  <2> QED BY <2>4, <2>5
<1> QED BY <1>3, <1>4, <1>5, <1>6, <1>9 DEF UsesLimiter

LEMMA GrantedReserved ==
    ASSUME NEW k
    PROVE  /\ IsFiniteSet(Granted(k)) /\ Cardinality(Granted(k)) \in Nat
           /\ IsFiniteSet(Reserved(k)) /\ Cardinality(Reserved(k)) \in Nat
           /\ \A r \in Requests :
                 /\ r \in Granted(k) <=> req[r].kind = "test" /\ LimiterKey(r) = k /\ Grant(r)
                 /\ r \in Reserved(k) <=> req[r].kind = "test" /\ LimiterKey(r) = k /\ pc[r] = "cancel"
<1>1. Granted(k) \in SUBSET Requests /\ Reserved(k) \in SUBSET Requests
  BY DEF Granted, Reserved, Tests
<1>2. IsFiniteSet(Granted(k)) /\ IsFiniteSet(Reserved(k))
  BY <1>1, CallAssumption, FS_Subset
<1> QED BY <1>2, FS_CardinalityType DEF Granted, Reserved, Tests, Grant

(* The sets of a key change only with the requests of that key. *)
LEMMA SameSets ==
    ASSUME req' = req, NEW k,
           \A s \in Requests : req[s].kind = "test" /\ LimiterKey(s) = k =>
               (Grant(s)' <=> Grant(s)) /\ (pc'[s] = "cancel" <=> pc[s] = "cancel")
    PROVE  Granted(k)' = Granted(k) /\ Reserved(k)' = Reserved(k)
BY DEF Granted, Reserved, Tests, Grant, LimiterKey

LEMMA OneElement ==
    ASSUME NEW U, NEW r \in U, NEW A \in SUBSET U, NEW B \in SUBSET U,
           \A s \in U \ {r} : s \in A <=> s \in B
    PROVE  /\ r \in A /\ r \notin B => A = B \cup {r}
           /\ r \notin A /\ r \in B => A = B \ {r}
           /\ (r \in A <=> r \in B) => A = B
OBVIOUS

LEMMA TokenSums ==
    ASSUME NEW g \in Nat, NEW h \in Nat, NEW t \in Int, NEW n \in Nat, g + h + t <= n, g <= n
    PROVE  /\ t >= 1 => (g + 1) + h + (t - 1) <= n /\ g + 1 <= n
           /\ g + (h + 1) + (t - 1) <= n
           /\ \A u \in Int : u <= t + 1 => g + (h - 1) + u <= n
OBVIOUS

LEMMA StepTokenInv ==
    ASSUME TypeOK, BucketInv, ReservationInv, TokenInv, NEW r \in Requests, Step(r),
           TypeOK', BucketInv'
    PROVE  TokenInv'
<1> USE DEF TypeOK, LimiterOK
<1>1. req' = req /\ Others(r) /\ now' = now  BY StepLocal, StepKeepsTime
<1>2. \A s \in Requests \ {r} : (Grant(s)' <=> Grant(s)) /\ pc'[s] = pc[s]
  BY <1>1 DEF Others, Grant
<1>3. \A s \in Requests : LimiterKey(s)' = LimiterKey(s)  BY <1>1 DEF LimiterKey
<1>4. Tokens \in Nat /\ now \in Nat  BY LimiterAssumption
<1>5. ASSUME NEW k \in Keys, limiters'[k] = limiters[k],
             limiters[k] # None => buckets'[limiters[k]] = buckets[limiters[k]],
             \/ k # LimiterKey(r) \/ req[r].kind # "test"
             \/ (Grant(r)' <=> Grant(r)) /\ (pc'[r] = "cancel" <=> pc[r] = "cancel")
      PROVE  TokensOf(k)'
  <2>1. Granted(k)' = Granted(k) /\ Reserved(k)' = Reserved(k)
    BY <1>1, <1>2, <1>5, SameSets
  <2>2. TokensOf(k)  BY DEF TokenInv
  <2> QED BY <1>1, <1>5, <2>1, <2>2 DEF TokensOf
<1>6. CASE ~UsesLimiter(r)
  <2>1. limiters' = limiters /\ buckets' = buckets  BY <1>6, OthersKeepLimiter
  <2>2. req[r].kind = "test" =>
           (Grant(r)' <=> Grant(r)) /\ (pc'[r] = "cancel" <=> pc[r] = "cancel")
    BY <1>6, OthersKeepGrants
  <2> QED BY <1>5, <2>1, <2>2 DEF TokenInv
<1>7. CASE GetLimiter(r)
  <2>1. limiters' = limiters /\ buckets' = buckets
    BY <1>7 DEF GetLimiter, KeepWorld, limiterVars
  <2>2. (Grant(r)' <=> Grant(r)) /\ (pc'[r] = "cancel" <=> pc[r] = "cancel")
    BY <1>7 DEF GetLimiter, At, Goto, Grant, RequestsOK
  <2> QED BY <1>5, <2>1, <2>2 DEF TokenInv
<1>8. CASE StoreLimiter(r)
  <2>0. PICK kr \in Keys : kr = LimiterKey(r)  BY <1>8, KeyOfTest DEF StoreLimiter, At
  <2>1. /\ buckets' = buckets
        /\ limiters' = [limiters EXCEPT ![kr] = IF @ = None THEN r ELSE @]
    BY <1>8, <2>0 DEF StoreLimiter, LoadOrStore
  <2>2. (Grant(r)' <=> Grant(r)) /\ (pc'[r] = "cancel" <=> pc[r] = "cancel")
    BY <1>8 DEF StoreLimiter, At, Goto, Grant, RequestsOK
  <2>3. ASSUME NEW k \in Keys, limiters'[k] = limiters[k]  PROVE TokensOf(k)'
    BY <1>5, <2>1, <2>2, <2>3
  <2>4. CASE limiters[kr] = None
    <3>1. limiters'[kr] = r /\ r # None  BY <2>1, <2>4, CallAssumption
    <3>2. Granted(kr)' = {} /\ Reserved(kr)' = {}
      <4>1. Granted(kr)' = Granted(kr) /\ Reserved(kr)' = Reserved(kr)
        BY <1>1, <1>2, <2>2, SameSets
      <4>2. TokensOf(kr)  BY DEF TokenInv
      <4> QED BY <2>4, <4>1, <4>2 DEF TokensOf
    <3>3. buckets'[r].tokens \in Int /\ buckets'[r].tokens <= Tokens  BY DEF BucketInv
    <3>4. Cardinality(Granted(kr)') = 0 /\ Cardinality(Reserved(kr)') = 0
      BY <3>2, FS_EmptySet
    <3>5. TokensOf(kr)'
      BY <1>1, <1>4, <3>1, <3>2, <3>3, <3>4 DEF TokensOf
    <3>6. ASSUME NEW k \in Keys, k # kr  PROVE TokensOf(k)'
      BY <2>1, <2>3, <3>6
    <3> QED BY <3>5, <3>6 DEF TokenInv
  <2>5. CASE limiters[kr] # None
    <3>1. limiters' = limiters  BY <2>1, <2>5
    <3> QED BY <2>3, <3>1 DEF TokenInv
  <2> QED BY <2>4, <2>5
<1>10. CASE Take(r) /\ pc'[r] # "find"
  <2>1. /\ limiters' = limiters /\ buckets' = buckets /\ reply' = reply
        /\ pc[r] = "take" /\ pc'[r] = "reserve"
    BY <1>10, TakeCases
  <2>2. (Grant(r)' <=> Grant(r)) /\ (pc'[r] = "cancel" <=> pc[r] = "cancel")
    BY <2>1 DEF Grant
  <2> QED BY <1>5, <2>1, <2>2 DEF TokenInv
<1>9. CASE (Take(r) /\ pc'[r] = "find") \/ ReserveToken(r) \/ CancelReservation(r)
  <2>0. PICK kr \in Keys : kr = LimiterKey(r)
    BY <1>9, KeyOfTest DEF Take, ReserveToken, CancelReservation, At
  <2>1. PICK b \in Requests : b = held[r].bucket  BY <1>9, TakeCases, ReserveCases, CancelCases
  <2>2. /\ req[r].kind = "test" /\ limiters[kr] = b /\ b # None
        /\ limiters' = limiters /\ \A s \in Requests \ {b} : buckets'[s] = buckets[s]
    BY <1>9, <2>0, <2>1, TakeCases, ReserveCases, CancelCases DEF BucketInv
  <2>3. ASSUME NEW k \in Keys, k # kr  PROVE TokensOf(k)'
    <3>1. limiters[k] # b  BY <2>0, <2>2, <2>3 DEF BucketInv
    <3> QED BY <1>5, <2>0, <2>2, <2>3, <3>1
  <2>4. /\ buckets[b].tokens \in Int /\ buckets'[b].tokens \in Int
        /\ Cardinality(Granted(kr)) \in Nat /\ Cardinality(Reserved(kr)) \in Nat
        /\ IsFiniteSet(Granted(kr)) /\ IsFiniteSet(Reserved(kr))
        /\ Cardinality(Granted(kr)) + Cardinality(Reserved(kr)) + buckets[b].tokens <= Tokens + now
        /\ Cardinality(Granted(kr)) <= Tokens + now
    BY <2>2, GrantedReserved DEF TokenInv, TokensOf
  <2>5. \A s \in Requests \ {r} :
           (s \in Granted(kr)' <=> s \in Granted(kr)) /\ (s \in Reserved(kr)' <=> s \in Reserved(kr))
    BY <1>1, <1>2 DEF Granted, Reserved, Tests, Grant, LimiterKey
  <2>6. /\ r \in Granted(kr) <=> Grant(r)
        /\ r \in Reserved(kr) <=> pc[r] = "cancel"
        /\ r \in Granted(kr)' <=> Grant(r)'
        /\ r \in Reserved(kr)' <=> pc'[r] = "cancel"
    BY <1>1, <2>0, <2>2 DEF Granted, Reserved, Tests, Grant, LimiterKey
  <2>7. /\ Granted(kr) \subseteq Requests /\ Reserved(kr) \subseteq Requests
        /\ Granted(kr)' \subseteq Requests /\ Reserved(kr)' \subseteq Requests
    BY DEF Granted, Reserved, Tests
  <2>8. CASE Take(r) /\ pc'[r] = "find"
    <3>1. /\ pc[r] = "take" /\ reply[r] = None /\ buckets[b].tokens >= 1
          /\ buckets'[b].tokens = buckets[b].tokens - 1
      BY <2>1, <2>8, TakeCases DEF RequestsOK
    <3>2. Granted(kr)' = Granted(kr) \cup {r} /\ r \notin Granted(kr) /\ Reserved(kr)' = Reserved(kr)
      <4>1. ~Grant(r) /\ Grant(r)' /\ pc[r] # "cancel" /\ pc'[r] # "cancel"
        BY <2>8, <3>1 DEF Grant
      <4> HIDE DEF TypeOK, LimiterOK
      <4> QED BY <2>5, <2>6, <2>7, <4>1, OneElement
    <3>3. Cardinality(Granted(kr)') = Cardinality(Granted(kr)) + 1
      BY <2>4, <3>2, FS_AddElement
    <3>4. /\ Cardinality(Granted(kr)') + Cardinality(Reserved(kr)') + buckets'[b].tokens
                <= Tokens + now
          /\ Cardinality(Granted(kr)') <= Tokens + now
      <4>1. Tokens + now \in Nat  BY <1>4
      <4> HIDE DEF TypeOK, LimiterOK
      <4> QED BY <2>4, <3>1, <3>2, <3>3, <4>1, TokenSums
    <3>5. TokensOf(kr)'
      <4>1. limiters'[kr] = b /\ b # None /\ now' = now  BY <1>1, <2>2
      <4> HIDE DEF TypeOK, LimiterOK
      <4> QED BY <3>4, <4>1 DEF TokensOf
    <3> QED BY <2>3, <3>5 DEF TokenInv
  <2>9. CASE ReserveToken(r)
    <3>1. /\ pc[r] = "reserve" /\ pc'[r] = "cancel" /\ reply'[r] = None /\ reply[r] = None
          /\ buckets'[b].tokens = buckets[b].tokens - 1
      BY <2>1, <2>9, ReserveCases DEF RequestsOK
    <3>2. Reserved(kr)' = Reserved(kr) \cup {r} /\ r \notin Reserved(kr) /\ Granted(kr)' = Granted(kr)
      <4>1. ~Grant(r) /\ ~Grant(r)' /\ pc[r] # "cancel" /\ pc'[r] = "cancel"
        BY <3>1 DEF Grant
      <4> HIDE DEF TypeOK, LimiterOK
      <4> QED BY <2>5, <2>6, <2>7, <4>1, OneElement
    <3>3. Cardinality(Reserved(kr)') = Cardinality(Reserved(kr)) + 1
      BY <2>4, <3>2, FS_AddElement
    <3>4. /\ Cardinality(Granted(kr)') + Cardinality(Reserved(kr)') + buckets'[b].tokens
                <= Tokens + now
          /\ Cardinality(Granted(kr)') <= Tokens + now
      <4>1. Tokens + now \in Nat  BY <1>4
      <4> HIDE DEF TypeOK, LimiterOK
      <4> QED BY <2>4, <3>1, <3>2, <3>3, <4>1, TokenSums
    <3>5. TokensOf(kr)'
      <4>1. limiters'[kr] = b /\ b # None /\ now' = now  BY <1>1, <2>2
      <4> HIDE DEF TypeOK, LimiterOK
      <4> QED BY <3>4, <4>1 DEF TokensOf
    <3> QED BY <2>3, <3>5 DEF TokenInv
  <2>10. CASE CancelReservation(r)
    <3>1. /\ pc[r] = "cancel" /\ pc'[r] = "done" /\ reply[r] = None /\ reply'[r] = "limited"
          /\ buckets'[b].tokens <= buckets[b].tokens + 1
      BY <2>1, <2>4, <2>10, CancelCases
    <3>2. Reserved(kr)' = Reserved(kr) \ {r} /\ r \in Reserved(kr) /\ Granted(kr)' = Granted(kr)
      <4>1. ~Grant(r) /\ ~Grant(r)' /\ pc[r] = "cancel" /\ pc'[r] # "cancel"
        BY <3>1 DEF Grant
      <4> HIDE DEF TypeOK, LimiterOK
      <4> QED BY <2>5, <2>6, <2>7, <4>1, OneElement
    <3>3. Cardinality(Reserved(kr)') = Cardinality(Reserved(kr)) - 1
      BY <2>4, <3>2, FS_RemoveElement
    <3>4. /\ Cardinality(Granted(kr)') + Cardinality(Reserved(kr)') + buckets'[b].tokens
                <= Tokens + now
          /\ Cardinality(Granted(kr)') <= Tokens + now
      <4>1. Tokens + now \in Nat  BY <1>4
      <4> HIDE DEF TypeOK, LimiterOK
      <4> QED BY <2>4, <3>1, <3>2, <3>3, <4>1, TokenSums
    <3>5. TokensOf(kr)'
      <4>1. limiters'[kr] = b /\ b # None /\ now' = now  BY <1>1, <2>2
      <4> HIDE DEF TypeOK, LimiterOK
      <4> QED BY <3>4, <4>1 DEF TokensOf
    <3> QED BY <2>3, <3>5 DEF TokenInv
  <2> QED BY <1>9, <2>8, <2>9, <2>10
<1> QED BY <1>6, <1>7, <1>8, <1>9, <1>10 DEF UsesLimiter

-----------------------------------------------------------------------------
(* The environment, and the start. *)

LEMMA EnvironmentKeeps ==
    ASSUME IInv, Environment
    PROVE  IInv'
<1> USE DEF IInv
<1>1. UNCHANGED <<requestVars, conns, limiters>>  BY EnvironmentLocal
<1>2. TypeOK'  BY EnvironmentTypeOK
<1>3. ReadInv' /\ StoredConnectionsSound' /\ WonInv' /\ OneWinner' /\ GateInv'
  <2> USE <1>1 DEF requestVars
  <2>1. ReadInv'
    <3>1. \A r \in Requests : IsValid(NewConnection(req[r].tenant, req[r].asked))'
                                = IsValid(NewConnection(req[r].tenant, req[r].asked))
      OBVIOUS
    <3> QED BY <3>1 DEF ReadInv, At, Named
  <2>2. StoredConnectionsSound'  BY DEF StoredConnectionsSound, Live, FindByName
  <2>3. WonInv' /\ OneWinner'  BY DEF WonInv, OneWinner
  <2>4. GateInv'  BY DEF GateInv, At
  <2> QED BY <2>1, <2>2, <2>3, <2>4
<1>4. FreshInv'
  <2>1. CASE Tick
    <3>1. /\ redis' = redis /\ memory' = memory
          /\ \A r \in Requests : pc[r] \notin {"put", "putRedis"}
      BY <2>1 DEF Tick, cacheVars
    <3> QED BY <1>1, <3>1 DEF FreshInv, EntryOK, requestVars
  <2>2. CASE ~Tick
    <3>1. /\ redis' = redis /\ now' = now
          /\ \A k \in CacheKeys : memory'[k] \in {memory[k], NoEntry}
      BY <2>2 DEF Environment, MonitorRedisHealth, CleanupExpired, RedisChanges, cacheVars,
                  limiterVars, TypeOK, CacheOK
    <3>2. \A k \in CacheKeys : EntryOK(k, NoEntry)  BY DEF EntryOK, NoEntry
    <3>3. \A k \in CacheKeys : EntryOK(k, redis'[k]) /\ EntryOK(k, memory'[k])
      BY <3>1, <3>2 DEF FreshInv
    <3> QED BY <1>1, <3>1, <3>3 DEF FreshInv, EntryOK, requestVars
  <2> QED BY <2>1, <2>2
<1>5. BucketInv' /\ ReservationInv' /\ TokenInv'
  <2>1. CASE Tick
    <3>1. now' = now + 1 /\ now \in Int  BY <2>1 DEF Tick, TypeOK
    <3>2. ASSUME NEW s \in Requests
          PROVE  /\ buckets'[s].last = buckets[s].last
                 /\ buckets[s].tokens \in Int /\ buckets'[s].tokens \in Int
                 /\ buckets'[s].tokens <= buckets[s].tokens + 1
                 /\ buckets'[s].tokens <= Tokens
      <4>1. buckets[s] \in [tokens : Int, last : Int] /\ buckets[s].tokens <= Tokens
        BY DEF TypeOK, LimiterOK, BucketInv
      <4>2. buckets'[s] = Refilled(buckets[s])  BY <2>1 DEF Tick, Refill
      <4> QED BY <4>1, <4>2, LimiterAssumption DEF Refilled
    <3>3. BucketInv'
      BY <1>1, <3>2 DEF BucketInv, requestVars, LimiterKey
    <3>4. ASSUME NEW r \in Requests, Waiting(r)
          PROVE  /\ held[r].at <= now' \/ held[r].at <= now' - buckets'[held[r].bucket].tokens
                 /\ held[r].at <= buckets'[held[r].bucket].last
                 /\ held[r].at <= now => held[r].at <= now'
      <4>1. PICK b \in Requests : b = held[r].bucket
        BY <3>4 DEF BucketInv, TypeOK, LimiterOK, Waiting, At
      <4>2. /\ held[r].at <= now \/ held[r].at <= now - buckets[b].tokens
            /\ held[r].at <= buckets[b].last
        BY <3>4, <4>1 DEF ReservationInv, Ahead
      <4>3. held[r].at \in Int  BY DEF TypeOK, LimiterOK
      <4> QED BY <3>1, <3>2, <4>1, <4>2, <4>3
    <3>5. ReservationInv'
      BY <1>1, <3>4 DEF ReservationInv, Ahead, Waiting, At, requestVars
    <3>6. ASSUME NEW k \in Keys  PROVE TokensOf(k)'
      <4>1. Granted(k)' = Granted(k) /\ Reserved(k)' = Reserved(k) /\ limiters'[k] = limiters[k]
        BY <1>1 DEF Granted, Reserved, Tests, LimiterKey, requestVars
      <4>2. TokensOf(k)  BY DEF TokenInv
      <4>3. Cardinality(Granted(k)) \in Nat /\ Cardinality(Reserved(k)) \in Nat
        BY GrantedReserved
      <4>4. limiters[k] # None => limiters[k] \in Requests  BY DEF TypeOK, LimiterOK
      <4> QED BY <3>1, <3>2, <4>1, <4>2, <4>3, <4>4, LimiterAssumption DEF TokensOf
    <3> QED BY <3>3, <3>5, <3>6 DEF TokenInv
  <2>2. CASE ~Tick
    <3>1. buckets' = buckets /\ now' = now  BY <2>2 DEF Environment, limiterVars
    <3>2. BucketInv'  BY <1>1, <3>1 DEF BucketInv, requestVars, LimiterKey
    <3>3. ReservationInv'
      BY <1>1, <3>1 DEF ReservationInv, Ahead, Waiting, At, requestVars
    <3>4. TokenInv'
      BY <1>1, <3>1 DEF TokenInv, TokensOf, Granted, Reserved, Tests, LimiterKey, requestVars
    <3> QED BY <3>2, <3>3, <3>4
  <2> QED BY <2>1, <2>2
<1> QED BY <1>2, <1>3, <1>4, <1>5

LEMMA InitInv == Init => IInv
<1> SUFFICES ASSUME Init PROVE IInv  OBVIOUS
<1>1. TypeOK /\ ReadInv  BY InitTypeOK, InitReadInv
<1>2. \A r \in Requests : pc[r] = "start" /\ reply[r] = None  BY DEF Init
<1>3. StoredConnectionsSound
  <2>1. conns = StoredFirst  BY DEF Init
  <2> QED BY <2>1, StoredAssumption DEF StoredConnectionsSound, Live, FindByName
<1>4. WonInv /\ OneWinner /\ GateInv
  <2>1. None # "ok"  BY CallAssumption DEF Answers
  <2> QED BY <1>2, <2>1 DEF WonInv, OneWinner, GateInv, At
<1>5. FreshInv
  BY <1>2 DEF Init, CacheInit, FreshInv, EntryOK, NoEntry
<1>6. BucketInv
  BY <1>2, LimiterAssumption DEF Init, LimiterInit, BucketInv
<1>7. ReservationInv
  BY <1>2 DEF ReservationInv, Waiting, At
<1>8. ASSUME NEW k \in Keys  PROVE TokensOf(k)
  <2>1. limiters[k] = None /\ now = 0  BY DEF Init, LimiterInit
  <2>2. Granted(k) = {} /\ Reserved(k) = {}  BY <1>2 DEF Granted, Reserved, Tests
  <2> QED BY <2>1, <2>2, FS_EmptySet, LimiterAssumption DEF TokensOf
<1> QED BY <1>1, <1>3, <1>4, <1>5, <1>6, <1>7, <1>8 DEF IInv, TokenInv

LEMMA NextInv == IInv /\ [Next]_vars => IInv'
<1> SUFFICES ASSUME IInv, [Next]_vars PROVE IInv'  OBVIOUS
<1>1. CASE Environment  BY <1>1, EnvironmentKeeps
<1>2. ASSUME NEW r \in Requests, Step(r)  PROVE IInv'
  <2> USE <1>2 DEF IInv
  <2>1. TypeOK'  BY StepTypeOK
  <2>2. ReadInv'  BY StepReadInv
  <2>3. StoredConnectionsSound'  BY StepWrites, WriteKeepsSound DEF TypeOK
  <2>4. WonInv' /\ OneWinner'  BY StepWonInv
  <2>5. GateInv'  BY StepGateInv
  <2>6. FreshInv'  BY StepFreshInv
  <2>7. BucketInv'  BY StepBucketInv
  <2>8. ReservationInv'  BY <2>1, StepReservationInv
  <2>9. TokenInv'  BY <2>1, <2>7, StepTokenInv
  <2> QED BY <2>1, <2>2, <2>3, <2>4, <2>5, <2>6, <2>7, <2>8, <2>9
<1>3. CASE UNCHANGED vars
  <2> USE <1>3 DEF vars, requestVars, cacheVars, limiterVars, IInv
  <2>1. TypeOK'  BY DEF TypeOK, RequestsOK, ReadsOK, JobsOK, CacheOK, LimiterOK
  <2>2. ReadInv'
    <3>1. \A r \in Requests : IsValid(NewConnection(req[r].tenant, req[r].asked))'
                                = IsValid(NewConnection(req[r].tenant, req[r].asked))
      OBVIOUS
    <3> QED BY <3>1 DEF ReadInv, At, Named
  <2>3. StoredConnectionsSound'  BY DEF StoredConnectionsSound, Live, FindByName
  <2>4. WonInv' /\ OneWinner' /\ GateInv'  BY DEF WonInv, OneWinner, GateInv, At
  <2>5. FreshInv'  BY DEF FreshInv, EntryOK
  <2>6. BucketInv' /\ ReservationInv'  BY DEF BucketInv, LimiterKey, ReservationInv, Ahead, Waiting, At
  <2>7. TokenInv'  BY DEF TokenInv, TokensOf, Granted, Reserved, Tests, LimiterKey
  <2> QED BY <2>1, <2>2, <2>3, <2>4, <2>5, <2>6, <2>7
<1> QED BY <1>1, <1>2, <1>3 DEF Next

-----------------------------------------------------------------------------
(* The inductive invariant: what every request has read, been told, been    *)
(* let through to and been granted agrees with the store, the jobs, the     *)
(* cache and the buckets.                                                   *)
THEOREM ConnectionsInvariant == Spec => []IInv
<1> QED BY InitInv, NextInv, PTL DEF Spec

(* What is live is sound: unique names and SSL modes that the type knows,   *)
(* however many updates, creates and deletes overlap                        *)
(* (ConnectionMongoDBRepository.Update and its unique index).               *)
THEOREM ConnectionsSound == Spec => []StoredConnectionsSound
<1>1. IInv => StoredConnectionsSound  BY DEF IInv
<1> QED BY <1>1, ConnectionsInvariant, PTL

(* Deletes and assignments of one connection have one winner                *)
(* (ConnectionMongoDBRepository.Delete, AssignProductName).                 *)
THEOREM SingleWinner == Spec => []OneWinner
<1>1. IInv => OneWinner  BY DEF IInv
<1> QED BY <1>1, ConnectionsInvariant, PTL

(* A write past the gate is of a request no running job of that name was    *)
(* hidden from (checkActiveJobsViaEngine).                                  *)
THEOREM GateIsKept == Spec => GateProtectsJobs
<1>1. ASSUME IInv,
             NEW r \in Requests, NEW j \in Requests, req[r].kind \in {"update", "delete"},
             pc[r] = "write", ActiveOver(j, conns[req[r].id])
      PROVE  j \notin gated[r] \/ seen[r].name # conns[req[r].id].name
  <2>1. conns[req[r].id].tenant = req[r].tenant  BY <1>1 DEF IInv, ReadInv, At
  <2> QED BY <1>1, <2>1 DEF IInv, GateInv, At, ActiveOver
<1>2. IInv => \A r, j \in Requests :
        /\ req[r].kind \in {"update", "delete"} /\ pc[r] = "write"
        /\ conns'[req[r].id] # conns[req[r].id]
        /\ ActiveOver(j, conns[req[r].id])
        => j \notin gated[r] \/ seen[r].name # conns[req[r].id].name
  BY <1>1
<1> QED BY <1>2, ConnectionsInvariant, PTL DEF GateProtectsJobs

(* The tests of a connection stay within the rate, whoever made the bucket  *)
(* and whatever was reserved and cancelled (RateLimiter.Allow, Reserve).    *)
THEOREM RateIsKept == Spec => []TestsWithinRate
<1>1. ASSUME IInv  PROVE TestsWithinRate
  <2>1. ASSUME NEW c \in Ids, NEW t \in Tenants
        PROVE  Cardinality({r \in Requests :
                  /\ req[r].kind = "test" /\ req[r].id = c /\ req[r].tenant = t
                  /\ pc[r] \in {"find", "connect"} \/ reply[r] \notin {None, "limited"}})
               <= Tokens + now
    <3>1. <<t, c>> \in Keys  BY CallAssumption
    <3>2. {r \in Requests :
              /\ req[r].kind = "test" /\ req[r].id = c /\ req[r].tenant = t
              /\ pc[r] \in {"find", "connect"} \/ reply[r] \notin {None, "limited"}}
            = Granted(<<t, c>>)
      BY DEF Granted, Tests, LimiterKey
    <3>3. Cardinality(Granted(<<t, c>>)) <= Tokens + now
      BY <1>1, <3>1 DEF IInv, TokenInv, TokensOf
    <3> QED BY <3>2, <3>3
  <2> QED BY <2>1 DEF TestsWithinRate
<1> QED BY <1>1, ConnectionsInvariant, PTL

(* A step that answers a validation answers it from its own tenant, and     *)
(* from what the data source said at most TTL ago.                          *)
LEMMA AnswersFresh ==
    ASSUME IInv, NEW s \in Requests, Step(s), NEW r \in Requests,
           req[r].kind = "validate", reply[r] = None, reply'[r] = "ok"
    PROVE  snap'[r].tenant = req[r].tenant /\ now - snap'[r].at <= TTL
<1> USE DEF IInv, TypeOK, RequestsOK, CacheOK, At, Goto, Answer
<1>0. None # "ok" /\ TTL \in Nat /\ now \in Nat
  BY CallAssumption, CacheAssumption DEF Answers
<1>1. r = s  BY <1>0, StepLocal DEF Others
<1>2. \A x \in Snapshots : x.at \in Nat  BY DEF Snapshots
<1>3. CASE LookUpRedis(s)
  <2> DEFINE k == SchemaKey(s)
             e == redis[k]
  <2>1. k \in CacheKeys /\ k[1] = req[s].tenant
    <3>1. pc[s] = "cache"  BY <1>3 DEF LookUpRedis
    <3> QED BY <1>1, <3>1, KeyInCache
  <2>2. snap'[s] = e.snapshot /\ e.snapshot # None /\ now < e.expires
    BY <1>0, <1>1, <1>3 DEF LookUpRedis, RedisGet, Serves
  <2>3. e.snapshot.tenant = k[1] /\ e.expires = e.snapshot.at + TTL /\ e.snapshot \in Snapshots
    BY <2>1, <2>2 DEF FreshInv, EntryOK, Entries
  <2> QED
    <3> HIDE DEF k, e
    <3> QED BY <1>0, <1>1, <1>2, <2>1, <2>2, <2>3
<1>4. CASE LookUpMemory(s)
  <2> DEFINE k == SchemaKey(s)
             e == memory[k]
  <2>1. k \in CacheKeys /\ k[1] = req[s].tenant
    <3>1. pc[s] = "memory"  BY <1>4 DEF LookUpMemory
    <3> QED BY <1>1, <3>1, KeyInCache
  <2>2. snap'[s] = e.snapshot /\ e.snapshot # None /\ ~(now > e.expires)
    BY <1>0, <1>1, <1>4 DEF LookUpMemory, MemoryGet, Serves
  <2>3. e.snapshot.tenant = k[1] /\ e.expires = e.snapshot.at + TTL /\ e.snapshot \in Snapshots
    BY <2>1, <2>2 DEF FreshInv, EntryOK, Entries
  <2> QED
    <3> HIDE DEF k, e
    <3> QED BY <1>0, <1>1, <1>2, <2>1, <2>2, <2>3
<1>5. CASE PutSchemaRedis(s)
  <2>1. snap' = snap /\ pc[s] = "putRedis"  BY <1>5 DEF PutSchemaRedis, KeepLocals
  <2>2. snap[s].tenant = req[s].tenant /\ snap[s].at = now
    BY <1>1, <2>1 DEF FreshInv
  <2> QED BY <1>0, <1>1, <2>1, <2>2
<1>6. CASE DiscoverSchema(s)
  <2>1. reply'[s] # "ok"  BY <1>0, <1>1, <1>6 DEF DiscoverSchema, UsesCache
  <2> QED BY <1>1, <2>1
<1>7. CASE ResolveForValidation(s)
  <2>1. reply'[s] # "ok"  BY <1>0, <1>1, <1>7 DEF ResolveForValidation, HostRefused
  <2> QED BY <1>1, <2>1
<1>8. CASE PutSchemaMemory(s) \/ StartJob(s) \/ ReadConnections(s) \/ EndJob(s)
  <2>1. reply' = reply  BY <1>8 DEF PutSchemaMemory, StartJob, ReadConnections, EndJob
  <2> QED BY <1>0, <2>1
<1>9. \/ LookUpRedis(s) \/ LookUpMemory(s) \/ PutSchemaRedis(s) \/ DiscoverSchema(s)
      \/ ResolveForValidation(s)
      \/ PutSchemaMemory(s) \/ StartJob(s) \/ ReadConnections(s) \/ EndJob(s)
  BY <1>1 DEF Step, FindConnection, CheckActiveJobs, UpdateConnection, DeleteConnection,
         AssignConnection, CheckName, CreateConnection, GetLimiter, StoreLimiter, Take, ReserveToken,
         CancelReservation, Connect, ResolveForJob, TestConnections, InsertJob
<1> QED BY <1>3, <1>4, <1>5, <1>6, <1>7, <1>8, <1>9

(* A validation never answers from another tenant's schema nor from one     *)
(* older than its time to live, wherever the cache had it                   *)
(* (FallbackCache.Get, RedisCache, InMemoryCache).                          *)
THEOREM SchemasAreFresh == Spec => ServedSchemaIsFresh
<1>1. ASSUME IInv, [Next]_vars, NEW r \in Requests,
             req[r].kind = "validate", reply[r] = None, reply'[r] = "ok"
      PROVE  snap'[r].tenant = req[r].tenant /\ now - snap'[r].at <= TTL
  <2>1. reply' # reply  BY <1>1, CallAssumption DEF Answers
  <2>2. ~Environment  BY <2>1, EnvironmentLocal DEF requestVars
  <2>3. PICK s \in Requests : Step(s)  BY <1>1, <2>1, <2>2 DEF Next, vars, requestVars
  <2> QED BY <1>1, <2>3, AnswersFresh
<1>2. IInv /\ [Next]_vars => \A r \in Requests :
        /\ req[r].kind = "validate" /\ reply[r] = None /\ reply'[r] = "ok"
        => snap'[r].tenant = req[r].tenant /\ now - snap'[r].at <= TTL
  BY <1>1
<1> QED BY <1>2, ConnectionsInvariant, PTL DEF Spec, ServedSchemaIsFresh

=============================================================================
