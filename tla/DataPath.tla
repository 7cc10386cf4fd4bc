------------------------------ MODULE DataPath ------------------------------
(***************************************************************************)
(* The path of one datasource's request from the Manager's validation to    *)
(* the rows the Worker extracts: its name is resolved to a connection, names *)
(* and filters are mapped to one spelling, the plan is validated against the *)
(* discovered schema, and a driver queries each table.  A request may also   *)
(* be made from what the Manager lists.  The jobs around it are in JobLifecycle, the  *)
(* running of several datasources in StoreStream.                           *)
(***************************************************************************)
EXTENDS CrmSource, FiniteSetsExt

CONSTANTS
    Requests,                 \* the requests of the instance
    Databases,                \* what each type of database holds
    CurrentSchema, Database,  \* Oracle's user and MySQL's database
    Limits,                   \* the Engine's limits; 0 is none
    CrmConfig,                \* the config name plugin_crm
    Deployments,              \* the deployments: see Resolver
    Wanted,                   \* [tenant, config, tls] for each place: whose it is
    PageSize, Accounts        \* see DataSourceFactory

VARIABLES
    request,   \* [deployment, tenant, config, others, tables, filters, overrides, keys, origin]
    phase,     \* how far the request has come
    valid,     \* the Manager's answer
    job,       \* the mapped request: [selection, filters, scope]
    answers,   \* the tables queried
    outages,   \* the steps during which the database failed
    conn,      \* the connection of the request, once resolved
    browse,    \* what a client has been shown: [ids, conn, tables]
    dials      \* what was dialed for the request

vars == <<request, phase, valid, job, answers, outages, conn, browse, dials>>

PG == INSTANCE PostgresDriver
MY == INSTANCE MySQLDriver
OR == INSTANCE OracleDriver
MS == INSTANCE SQLServerDriver
D == INSTANCE DataSourceFactory

NoConn == <<>>

deployment == Deployments[request.deployment]

-----------------------------------------------------------------------------
(* What a deployment is set up with.  Every place has one owner, one account *)
(* and one wish for encryption; a record that describes a place names its   *)
(* tenant and datasource, carries its password and asks for that encryption. *)

Encryption(mode) ==
    IF mode \in {"", "disable", "false"} THEN "off"
    ELSE IF mode \in {"allow", "prefer", "preferred"} THEN "maybe" ELSE "on"

Owns(place, tenant, config, tls) ==
    place \in DOMAIN Accounts /\ Wanted[place] = [tenant |-> tenant, config |-> config, tls |-> tls]

(* Where the users of a MongoDB are; other databases have one place for them. *)
UsersAt(c, auth, default) == IF c.type # "MONGODB" THEN "" ELSE IF auth # "" THEN auth ELSE default

(* A stored connection was sealed by the Manager that created it. *)
StoredAsOwned(c, tenant) ==
    /\ Owns(c.place, tenant, c.config, Encryption(c.ssl))
    /\ c.key = TRUE /\ c.password = [Accounts[c.place].password EXCEPT !.sealed = TRUE]
    /\ Accounts[c.place].auth = UsersAt(c, c.auth, "admin")

(* Of the entries of the environment with one name the first acceptable one. *)
Acceptable(entry) ==
    /\ D!IsInternal(entry.config) /\ entry.type \in D!DBTypes
    /\ entry.place # D!NoPlace /\ D!SSLAccepted(entry)
FirstOfName(env, i) ==
    Acceptable(env[i])
    /\ \A j \in DOMAIN env : Acceptable(env[j]) /\ env[j].config = env[i].config => i <= j
EntryAsOwned(e) ==
    /\ Owns(e.place, D!NoTenant, e.config, Encryption(e.ssl))
    /\ e.password = Accounts[e.place].password
    /\ Accounts[e.place].auth = UsersAt(e, e.auth, "own")

(* External: the Tenant Manager answers with the tenant's own database.  One *)
(* that puts the TLS of a MongoDB into fields puts the users' database there. *)
AnswerAsOwned(a, tenant, name) ==
    /\ a.type = D!Registry[name].type /\ a.password = Accounts[a.place].password
    /\ a.type = "POSTGRESQL" => /\ Owns(a.place, tenant, name, Encryption(a.ssl))
                                /\ Accounts[a.place].auth = ""
    /\ a.type = "MONGODB" =>
         /\ Owns(a.place, tenant, name, IF a.tls \/ a.uri.tls THEN "on" ELSE "off")
         /\ {a.tls, a.skip, a.uri.tls, a.uri.insecure} \subseteq BOOLEAN
         /\ a.tls => a.auth # "" \/ a.uri.auth = ""
         /\ Accounts[a.place].auth = UsersAt(a, IF a.auth # "" THEN a.auth ELSE a.uri.auth, "own")

AsOwned(d, tenant) ==
    /\ \A i \in DOMAIN d.stored[tenant] :
         D!IsInternal(d.stored[tenant][i].config) \/ StoredAsOwned(d.stored[tenant][i], tenant)
    /\ d.mode = "single" =>
         tenant = D!NoTenant /\ \A i \in DOMAIN d.env : FirstOfName(d.env, i) => EntryAsOwned(d.env[i])
    /\ d.mode # "single" /\ tenant # D!NoTenant => \A n \in DOMAIN D!Registry :
         LET service == D!Registry[n].service
             module == D!Registry[n].module
         IN service \in DOMAIN d.tenants[tenant] /\ module \in DOMAIN d.tenants[tenant][service]
            => AnswerAsOwned(d.tenants[tenant][service][module], tenant, n)

(* Stored connections have a key version, and ids and names of their own:   *)
(* an index is unique.                                                      *)
ConnectionFields == {"id", "config", "type", "place", "host", "user", "key", "password", "ssl",
                     "auth", "service", "schema"}

StoredApart(stored, tenant) ==
    /\ \A i \in DOMAIN stored :
         /\ DOMAIN stored[i] = ConnectionFields /\ stored[i].key = TRUE
         /\ D!FindConfigByID(stored[i].id, tenant) = {}
    /\ \A i, j \in DOMAIN stored :
         stored[i].id = stored[j].id \/ stored[i].config = stored[j].config => i = j

(* Passwords of accounts are not sealed, and entries of the environment are *)
(* in an order.                                                             *)
Served == {[deployment |-> r.deployment, tenant |-> r.tenant] : r \in Requests}

ASSUME DeploymentsAssumption ==
    /\ \A p \in DOMAIN Accounts : LET w == Accounts[p].password
         IN w = [secret |-> w.secret, chars |-> w.chars, sealed |-> FALSE]
    /\ \A s \in Served : LET d == Deployments[s.deployment]
         IN /\ DOMAIN d.env \subseteq Nat
            /\ AsOwned(d, s.tenant) /\ StoredApart(d.stored[s.tenant], s.tenant)

-----------------------------------------------------------------------------
(* What requests and databases are made of.  Names are sequences of          *)
(* identifiers, the words whose two cases Upper and Lower know.             *)

Identifiers == DOMAIN Upper
IsName(n) == n \in Seq(Identifiers) /\ n # <<>>

Kinds == {"null", "num", "text", "uuid", "pattern", "day", "instant", "time", "hash", "cipher"}
Value == [kind : Kinds, at : Int]

(* A value of a request is neither encrypted nor missing nor a stored time. *)
IsCondition(c) ==
    /\ DOMAIN c = Operators
    /\ \A op \in Operators : c[op] \in Seq(Value) /\ \A x \in Range(c[op]) :
         /\ x.kind \notin {"hash", "cipher", "null", "time"}
         /\ x.kind = "text" => x.at \in DOMAIN HashOf
    /\ \A x \in Range(c.like) : x.kind \in Strings => x.at \in DOMAIN Patterns

ASSUME WordsAssumption ==
    /\ \A i \in DOMAIN Patterns : Patterns[i] \in Seq(STRING)
    /\ Upper \in [Identifiers -> Identifiers] /\ Lower \in [Identifiers -> Identifiers]
    /\ \A w \in Identifiers : Upper[Upper[w]] = Upper[w] /\ Upper[Lower[w]] = Upper[w]
    /\ {"public", "dbo", CurrentSchema} \subseteq Identifiers /\ NoSchema \notin Identifiers
    /\ Upper[CurrentSchema] = CurrentSchema
    /\ \A i, j \in DOMAIN HashOf : HashOf[i] = HashOf[j] => i = j
    /\ \A p \in Prefixes : p[1] # "*"

(* The collections of plugin_crm have names of one word; its search fields   *)
(* are its own.  Who browses has not stated anything else.                  *)
ASSUME RequestsAssumption == \A r \in Requests :
    /\ DOMAIN r = {"deployment", "tenant", "config", "others", "tables", "filters",
                   "overrides", "keys", "origin"}
    /\ IsFiniteSet(DOMAIN r.tables)
    /\ \A t \in DOMAIN r.tables : IsName(t) /\ r.tables[t] \subseteq Identifiers /\ IsFiniteSet(r.tables[t])
    /\ \A t \in DOMAIN r.filters : IsName(t) /\ \A f \in DOMAIN r.filters[t] :
         f \in Identifiers \ Range(SearchFields) /\ IsCondition(r.filters[t][f])
    /\ r.config = CrmConfig => \A t \in DOMAIN r.tables \cup DOMAIN r.filters : Len(t) = 1
    /\ r.origin \in {"client", "browse"}
    /\ r.origin = "browse" => r.filters = <<>> /\ r.others = {} /\ \A k \in DOMAIN Limits : r.overrides[k] = 0

(* A row has the columns of its table, no column of a SQL database is inside *)
(* another, and no two schemas of a database differ in case from its default *)
(* one alone.  Oracle's identifiers are in upper case.  No field is called *, *)
(* which stands for all of them.                                            *)
TableOf(t, x) ==
    /\ x.name \in Identifiers /\ \A r \in x.rows : \A f \in DOMAIN r :
         f # "*" /\ TopLevel[f] # "*" /\ r[f] \in Value
    /\ t # "MONGODB" => /\ x.schema \in Identifiers /\ x.columns \subseteq Identifiers \ {"*"}
                        /\ \A r \in x.rows : DOMAIN r = x.columns
                        /\ \A p \in Prefixes : p[2] \notin x.columns
                        /\ \A w \in {"public", "dbo"} : EqualFold(x.schema, w) => x.schema = w
    /\ t = "ORACLE" => \A w \in {x.schema, x.name} \cup x.columns : Upper[w] = w

(* A document of the CRM is encrypted in the fields that are decrypted, and  *)
(* has the hash of those that can be searched.                              *)
DocumentOf(d) == \A f \in DOMAIN d :
    /\ d[f].kind = "cipher" => f \in EncryptedFields /\ d[f].at \in DOMAIN HashOf
    /\ f \in DOMAIN SearchFields /\ d[f] # Null =>
         /\ d[f].kind = "cipher" /\ SearchFields[f] \in DOMAIN d
         /\ d[SearchFields[f]] = V("hash", HashOf[d[f].at])

ASSUME DatabasesAssumption == DOMAIN Databases = D!DBTypes /\ \A t \in D!DBTypes : \A x \in Databases[t] :
    /\ TableOf(t, x)
    /\ t = "MONGODB" /\ (\E p \in Prefixes : p[2] = x.name) => \A d \in x.rows : DocumentOf(d)

(* The limits of the Manager, which are the defaults of the Engine. *)
ASSUME LimitsAssumption == Limits \in [{"datasources", "tables", "fields"} -> Nat \ {0}]

(* A query that failed has no answer, and a name that failed no connection. *)
AllRows == UNION {UNION {x.rows : x \in Databases[t]} : t \in D!DBTypes}
Paths == UNION {DOMAIN r : r \in AllRows}
AllFields == UNION {Identifiers, Paths, {TopLevel[f] : f \in Paths}, {p[1] : p \in Prefixes}}

ConnectionsOfPlatform(d, tenant) ==
    IF d.mode = "single" THEN LET env == D!LoadInternalConnectionsFromEnv(d.env) IN {env[n] : n \in DOMAIN env}
    ELSE {D!ResolveInternalConnection(d, tenant, n) : n \in DOMAIN D!Registry}

ASSUME FailedAssumption ==
    /\ Failed \notin [fields : SUBSET AllFields, rows : SUBSET AllRows]
    /\ \A s \in Served : LET d == Deployments[s.deployment]
         IN \A c \in D!Stored(d, s.tenant) \cup ConnectionsOfPlatform(d, s.tenant) : Failed # {c}

-----------------------------------------------------------------------------
(* The connection of the request's datasource. *)

Names == {request.config} \cup request.others

Resolved == D!ResolveConnections(deployment, request.tenant, Names)

(* One connection of the platform that cannot be resolved fails them all; a  *)
(* stored name nobody has is left out, and refused later.                   *)
Found == Resolved # Failed /\ request.config \in {c.config : c \in Resolved}

Known == Names \subseteq {c.config : c \in Resolved}

Resolve == conn' = CHOOSE c \in Resolved : c.config = request.config

type == conn.type
db == Databases[type]
IsCRM == conn # NoConn /\ request.config = CrmConfig /\ type = "MONGODB"

(* ensureConnected: the record that was resolved is dialed as it is.  Only   *)
(* the Manager of a multi-tenant deployment guards the hosts.               *)
Dialed(by) == D!NewDataSourceFromConnection(conn, by = "manager" /\ deployment.mode = "multi")
EnsureConnected(by) == Dialed(by) # Failed /\ D!Connect(Dialed(by)) # Failed

Dials(by) == dials' = IF Dialed(by) = Failed THEN dials ELSE dials \cup {Dialed(by)}

-----------------------------------------------------------------------------
(* Discovery. *)

(* schemaArg: the scope of the request, else the connection's own schema.   *)
SchemaArg(scope, c) ==
    IF scope # {} THEN scope ELSE IF c.schema = NoSchema THEN {} ELSE {c.schema}

(* The schemas that discovery may find. *)
SchemaInfos(t, scope) ==
    CASE t = "POSTGRESQL" -> {PG!GetSchemaInfo(Databases[t], scope)}
      [] t = "MYSQL" -> {MY!GetSchemaInfo(Databases[t], scope)}
      [] t = "ORACLE" -> {OR!GetSchemaInfo(Databases[t], scope)}
      [] t = "SQL_SERVER" -> {MS!GetSchemaInfo(Databases[t], scope)}
      [] t = "MONGODB" -> GetSchemaInfos(Databases[t])

BuildSnapshot(t, schema, normalize) ==
    LET kept == {n \in DOMAIN schema : ~IsSystemTable(t, n)}
        Name(n) == IF normalize THEN NormalizeTable(t, n) ELSE n
        Fields(n) == IF normalize THEN {NormalizeField(t, f) : f \in schema[n]} ELSE schema[n]
    IN [n \in {Name(m) : m \in kept} |-> UNION {Fields(m) : m \in {k \in kept : Name(k) = n}}]

(* HasField: a field, or an object with fields inside. *)
HasField(fields, f) == f \in fields \/ \E g \in fields : <<f, g>> \in Prefixes

-----------------------------------------------------------------------------
(* The Manager: ValidateSchema. *)

SpecValid ==
    /\ Cardinality(Names) <= Limits.datasources
    /\ Cardinality(DOMAIN request.tables) <= Limits.tables
    /\ \A t \in DOMAIN request.tables : Cardinality(request.tables[t]) <= Limits.fields

(* Mutation: only the names of the tables are looked up. *)
FieldsUnchecked(tables, snapshot) ==
    \A t \in DOMAIN tables : NormalizeTable(type, t) \in DOMAIN snapshot

ValidateTablesAgainstSchema(tables, snapshot) ==
    \A t \in DOMAIN tables :
        /\ NormalizeTable(type, t) \in DOMAIN snapshot
        /\ \A f \in tables[t] : HasField(snapshot[NormalizeTable(type, t)], NormalizeField(type, f))

(* validateConfigs: the collections of plugin_crm are mapped first. *)
ValidateConfig(schema) ==
    LET snapshot == BuildSnapshot(type, schema, FoldsFieldCase(type))
    IN ValidateTablesAgainstSchema(
         IF request.config = CrmConfig
         THEN MapTablesForCRMCompatibility(request.tables, snapshot) ELSE request.tables, snapshot)

ManagerResolves ==
    /\ phase = "received"
    /\ \/ /\ ~(SpecValid /\ Found)
          /\ phase' = "validated" /\ UNCHANGED <<conn, outages>>
       \/ SpecValid /\ Found /\ phase' = "found" /\ Resolve /\ UNCHANGED outages
       \/ /\ SpecValid /\ phase' = "validated" /\ UNCHANGED conn
          /\ outages' = outages \cup {"validating"}
    /\ UNCHANGED <<request, valid, job, answers, browse, dials>>

ValidateSchema ==
    /\ phase = "found" /\ Dials("manager")
    /\ \/ /\ EnsureConnected("manager")
          /\ \E schema \in SchemaInfos(type, SchemaArg(SchemaScopeForTables(type, DOMAIN request.tables), conn)) :
               valid' = (Known /\ ValidateConfig(schema))
          /\ UNCHANGED outages
       \/ ~EnsureConnected("manager") /\ UNCHANGED <<valid, outages>>
       \/ outages' = outages \cup {"validating"} /\ UNCHANGED valid
    /\ phase' = "validated" /\ conn' = NoConn
    /\ UNCHANGED <<request, job, answers, browse>>

-----------------------------------------------------------------------------
(* The Worker: mapJobToExtractionRequest and seedSchemaScope. *)

NormalizeFieldsForType(fields) == {NormalizeField(type, f) : f \in fields}

(* Two spellings of a table are merged: appendUniqueFields. *)
MapMappedFields(r) ==
    [n \in {NormalizeTable(type, t) : t \in DOMAIN r.tables} |->
       UNION {NormalizeFieldsForType(r.tables[t]) :
                t \in {u \in DOMAIN r.tables : NormalizeTable(type, u) = n}}]

(* Mutation: filters keep the spelling of the request. *)
FiltersAsSpelled(r, rank, late) == r.filters

(* mapFilters: of two conditions on one field the table read first decides  *)
(* and, in one table, the spelling read last, both in the random order of a *)
(* map: rank, and late from the end.                                        *)
MapFilters(r, rank, late) ==
    LET Spelled(n) == {t \in DOMAIN r.filters : NormalizeTable(type, t) = n}
        Variants(t, f) == {g \in DOMAIN r.filters[t] : NormalizeField(type, g) = f}
        Winner(n, f) == CHOOSE t \in Spelled(n) :
            /\ Variants(t, f) # {}
            /\ \A u \in Spelled(n) : Variants(u, f) # {} => rank[t] <= rank[u]
        Last(t, f) == CHOOSE g \in Variants(t, f) : \A h \in Variants(t, f) : late[g] <= late[h]
    IN [n \in {NormalizeTable(type, t) : t \in DOMAIN r.filters} |->
          [f \in UNION {{NormalizeField(type, g) : g \in DOMAIN r.filters[t]} : t \in Spelled(n)} |->
             r.filters[Winner(n, f)][Last(Winner(n, f), f)]]]

FilterFields(r) == UNION {DOMAIN r.filters[t] : t \in DOMAIN r.filters}

Ranks(names) == {q \in [names -> 1..Cardinality(names)] :
                   \A a, b \in names : q[a] = q[b] => a = b}

(* The handler resolves the names again. *)
WorkerResolves ==
    /\ phase = "validated"
    /\ \/ Found /\ phase' = "claimed" /\ Resolve /\ UNCHANGED outages
       \/ ~Found /\ phase' = "rejected" /\ UNCHANGED <<conn, outages>>
       \/ phase' = "rejected" /\ outages' = outages \cup {"resolving"} /\ UNCHANGED conn
    /\ UNCHANGED <<request, valid, job, answers, browse, dials>>

MapJob ==
    /\ phase = "claimed" /\ ~IsCRM
    /\ \E rank \in Ranks(DOMAIN request.filters), late \in Ranks(FilterFields(request)) :
         job' = [selection |-> MapMappedFields(request),
                 filters |-> MapFilters(request, rank, late),
                 scope |-> SchemaScopeForTables(type, DOMAIN request.tables)]
    /\ phase' = "mapped"
    /\ UNCHANGED <<request, valid, answers, outages, conn, browse, dials>>

-----------------------------------------------------------------------------
(* The Engine: PlanExtraction. *)

OverrideAllowed(requested, maximum) == requested <= 0 \/ maximum <= 0 \/ requested <= maximum

Effective(overrides) ==
    [k \in DOMAIN Limits |-> IF overrides[k] > 0 THEN overrides[k] ELSE Limits[k]]

Within(n, limit) == limit <= 0 \/ n <= limit

(* The names probed at most: one more than the limit, so that too many are   *)
(* refused whether or not they exist.                                       *)
RequireScopedConnections(lim) == Known /\ Within(Cardinality(Names), lim.datasources)

RequireNonEmptySelections(selection) == DOMAIN selection # {}

(* datasourceFilters keeps a copy, filterFieldsByTable its fields. *)
FilterFieldsByTable(filters) == [t \in DOMAIN filters |-> DOMAIN filters[t]]

SchemaValidationRequestFromExtraction(selection, filters) ==
    LET filterFields == FilterFieldsByTable(filters)
    IN [t \in DOMAIN selection |->
          [fields |-> selection[t],
           filterFields |-> IF t \in DOMAIN filterFields THEN filterFields[t] ELSE {}]]

LimitFailures(tables, lim) ==
    \/ ~Within(Cardinality(DOMAIN tables), lim.tables)
    \/ \E t \in DOMAIN tables :
         \/ ~Within(Cardinality(tables[t].fields), lim.fields)
         \/ ~Within(Cardinality(tables[t].filterFields), lim.fields)

(* fieldIndex.has, over the sorted fields of indexSnapshotFields. *)
Has(fields, f) == f \in fields \/ \E g \in fields : <<f, g>> \in Prefixes

(* validateMappingAgainstSnapshot: names are compared as they are. *)
MappingValid(tables, snapshot) ==
    \A t \in DOMAIN tables :
        /\ t \in DOMAIN snapshot
        /\ \A f \in tables[t].fields \cup tables[t].filterFields : Has(snapshot[t], f)

Mapping == SchemaValidationRequestFromExtraction(job.selection, job.filters)

Refused ==
    \/ ~RequireNonEmptySelections(job.selection)
    \/ \E k \in DOMAIN Limits : ~OverrideAllowed(request.overrides[k], Limits[k])
    \/ ~RequireScopedConnections(Effective(request.overrides))
    \/ LimitFailures(Mapping, Effective(request.overrides))

PlanExtraction ==
    /\ phase = "mapped"
    /\ \/ Refused /\ phase' = "rejected" /\ UNCHANGED <<outages, dials>>
       \/ /\ ~Refused /\ Dials("worker") /\ ~EnsureConnected("worker")
          /\ phase' = "rejected" /\ UNCHANGED outages
       \/ /\ ~Refused /\ Dials("worker") /\ EnsureConnected("worker")
          /\ \E schema \in SchemaInfos(type, SchemaArg(job.scope, conn)) :
               IF MappingValid(Mapping, BuildSnapshot(type, schema, TRUE))
               THEN phase' = "planned" ELSE phase' = "rejected"
          /\ UNCHANGED outages
       \/ /\ ~Refused /\ phase' = "rejected" /\ UNCHANGED dials
          /\ outages' = outages \cup {"planning"}
    /\ UNCHANGED <<request, valid, job, answers, conn, browse>>

-----------------------------------------------------------------------------
(* The Worker: QueryStream, one table at a time, in the order of a map. *)

(* filtersForConfig: a table without conditions has no filters. *)
FiltersForConfig == [t \in {u \in DOMAIN job.filters : job.filters[u] # <<>>} |-> job.filters[t]]

Answer(table) ==
    CASE type = "POSTGRESQL" -> PG!Query(db, job.selection, FiltersForConfig, table)
      [] type = "MYSQL" -> MY!Query(db, job.selection, FiltersForConfig, table)
      [] type = "ORACLE" -> OR!Query(db, job.selection, FiltersForConfig, table)
      [] type = "SQL_SERVER" -> MS!Query(db, job.selection, FiltersForConfig, table)
      [] type = "MONGODB" -> Query(db, job.selection, FiltersForConfig, table)

(* What the driver makes of a stream that ended after the rows read. *)
Scanned(answer, read) ==
    CASE type = "POSTGRESQL" -> PG!ScanRows(answer, read)
      [] type = "MYSQL" -> MY!ScanRows(answer, read)
      [] type = "ORACLE" -> OR!ScanRows(answer, read)
      [] type = "SQL_SERVER" -> MS!ScanRows(answer, read)
      [] type = "MONGODB" -> ProcessQueryResults(answer, read)

Answered(table, answer) ==
    [t \in DOMAIN answers \cup {table} |-> IF t = table THEN answer ELSE answers[t]]

Record(table, answer) ==
    /\ answers' = Answered(table, answer)
    /\ phase' = IF DOMAIN answers' = DOMAIN job.selection THEN "done" ELSE "planned"

Abandon(table) ==
    phase' = "failed" /\ answers' = Answered(table, Failed)

QueryFails(table) ==
    /\ phase = "planned" /\ table \notin DOMAIN answers
    /\ Answer(table) = Failed
    /\ Abandon(table)
    /\ UNCHANGED <<request, valid, job, outages, conn, browse, dials>>

QueryTable(table) ==
    /\ phase = "planned" /\ table \notin DOMAIN answers
    /\ Answer(table) # Failed
    /\ Record(table, Answer(table))
    /\ UNCHANGED <<request, valid, job, outages, conn, browse, dials>>

(* A timeout or a lost connection ends the query, or the stream of its rows *)
(* before the last one.                                                     *)
QueryCut(table) ==
    /\ phase = "planned" /\ table \notin DOMAIN answers
    /\ Answer(table) # Failed
    /\ \/ Abandon(table)
       \/ \E r \in Answer(table).rows :
            LET scanned == Scanned(Answer(table), Answer(table).rows \ {r})
            IN IF scanned = Failed THEN Abandon(table) ELSE Record(table, scanned)
    /\ outages' = outages \cup {"querying"}
    /\ UNCHANGED <<request, valid, job, conn, browse, dials>>

(* QueryPluginCRM, for every collection of the request; the Engine refuses   *)
(* the others afterwards.                                                   *)
ExtractCRM ==
    /\ phase = "claimed" /\ IsCRM
    /\ LET Of(t) == QueryPluginCRM(db, t[1], request.tables[t],
                                   GetCollectionFilters(request.filters, t), request.keys)
           refused == ~EnsureConnected("worker") \/ ~Known \/ \E t \in DOMAIN request.tables : Of(t) = Failed
       IN \/ refused /\ phase' = "failed" /\ UNCHANGED <<answers, outages>>
          \/ /\ ~refused /\ phase' = "done"
             /\ answers' = [t \in DOMAIN request.tables |-> Of(t)]
             /\ UNCHANGED outages
          \/ /\ ~refused /\ phase' = "failed" /\ UNCHANGED answers
             /\ outages' = outages \cup {"querying"}
    /\ Dials("worker")
    /\ UNCHANGED <<request, valid, job, conn, browse>>

-----------------------------------------------------------------------------
(* A client browses: a page of the connections, one of them, its schema, and *)
(* a request for one field of one table.  The schema is always discovered.  *)

List(page, only) ==
    /\ phase = "browsing" /\ browse.ids = {}
    /\ \E internal \in SUBSET D!ListInternalConnections(deployment, request.tenant) :
         /\ browse' = [browse EXCEPT !.ids =
               {c.id : c \in D!ListConnections(deployment, request.tenant, only, page, internal).items}]
         /\ outages' = IF internal = D!ListInternalConnections(deployment, request.tenant)
                       THEN outages ELSE outages \cup {"listing"}
    /\ UNCHANGED <<request, phase, valid, job, answers, conn, dials>>

Show(id) ==
    /\ phase = "browsing" /\ id \in browse.ids /\ browse.conn = NoConn
    /\ D!GetConnection(deployment, request.tenant, id) # Failed
    /\ browse' = [browse EXCEPT !.ids = {id}, !.conn = D!GetConnection(deployment, request.tenant, id)]
    /\ UNCHANGED <<request, phase, valid, job, answers, outages, conn, dials>>

GetConnectionSchema(id) ==
    /\ phase = "browsing" /\ id \in browse.ids /\ browse.conn # NoConn /\ browse.tables = <<>>
    /\ LET multi == deployment.mode = "multi"
           c == D!ApplySchemaResolutionHeuristic(D!ResolveConnection(deployment, request.tenant, id), multi)
           dial == D!NewDataSourceFromConnection(c, multi)
       IN /\ dial # Failed /\ D!Connect(dial) # Failed
          /\ \E schema \in SchemaInfos(c.type, SchemaArg({}, c)) :
               browse' = [browse EXCEPT !.tables = BuildSnapshot(c.type, schema, FoldsFieldCase(c.type))]
    /\ UNCHANGED <<request, phase, valid, job, answers, outages, conn, dials>>

Submit(table, field) ==
    /\ phase = "browsing" /\ table \in DOMAIN browse.tables /\ field \in browse.tables[table]
    /\ request' = [request EXCEPT !.config = browse.conn.config, !.tables = [t \in {table} |-> {field}],
                                  !.origin = "listed"]
    /\ phase' = "received"
    /\ UNCHANGED <<valid, job, answers, outages, conn, browse, dials>>

-----------------------------------------------------------------------------
NoJob == [selection |-> <<>>, filters |-> <<>>, scope |-> {}]

NothingShown == [ids |-> {}, conn |-> NoConn, tables |-> <<>>]

Init ==
    /\ request \in Requests
    /\ phase = IF request.origin = "browse" THEN "browsing" ELSE "received"
    /\ valid = FALSE /\ conn = NoConn /\ browse = NothingShown /\ dials = {}
    /\ job = NoJob /\ answers = <<>> /\ outages = {}

Next ==
    \/ ManagerResolves \/ ValidateSchema \/ WorkerResolves \/ MapJob \/ PlanExtraction \/ ExtractCRM
    \/ \E page \in 1..2, only \in {"", "POSTGRESQL"} : List(page, only)
    \/ \E id \in browse.ids : Show(id) \/ GetConnectionSchema(id)
    \/ \E t \in DOMAIN browse.tables : \E f \in browse.tables[t] : Submit(t, f)
    \/ \E t \in DOMAIN job.selection : QueryTable(t) \/ QueryFails(t) \/ QueryCut(t)

Spec == Init /\ [][Next]_vars

-----------------------------------------------------------------------------
(* The conditions the request states on a field of a table, in any spelling. *)
Stated(n, f) ==
    UNION {{request.filters[t][g] : g \in {x \in DOMAIN request.filters[t] :
                                             NormalizeField(type, x) = f}} :
             t \in {u \in DOMAIN request.filters : NormalizeTable(type, u) = n}}

FilteredOn(n) ==
    UNION {{NormalizeField(type, g) : g \in DOMAIN request.filters[t]} :
             t \in {u \in DOMAIN request.filters : NormalizeTable(type, u) = n}}

Dated(f) == type # "MONGODB" /\ Upper[f] = "CREATED_AT"

(* Mongo keeps one value per operator, matches patterns in any case and      *)
(* never compares a text with a date, and the CRM searches hashes, of some  *)
(* of its encrypted fields: what can be said of a condition there.  A like  *)
(* has one pattern, and is ignored everywhere when that is no text.         *)
Mongoable(c) ==
    LET used == {op \in Operators : c[op] # <<>>}
    IN /\ (\E op \in Operators : used = {op}) \/ used \subseteq {"gt", "gte", "lt", "lte"}
       /\ \A op \in used : \A x \in Range(c[op]) : x.kind \notin Moments

Searchable(c, f) ==
    /\ f \in DOMAIN SearchFields
    /\ \A op \in Operators : c[op] # <<>> =>
         op \in {"eq", "in", "nin"} /\ \A x \in Range(c[op]) : x.kind \in Strings => x.kind = "text"

Expressible(c, f) ==
    /\ Len(c.like) <= 1 /\ \A x \in Range(c.like) : x.kind \in Strings
    /\ type = "MONGODB" => Mongoable(c)
    /\ IsCRM /\ f \in EncryptedFields => Searchable(c, f)

ValueOf(row, f) ==
    IF f \notin DOMAIN row THEN Null
    ELSE IF IsCRM THEN DecryptFieldValue(row[f]) ELSE row[f]

(* No row is extracted that breaks a condition of the request: a filter is  *)
(* never lost or weakened between the Manager and the database, whatever the *)
(* spelling of tables and fields.  With two conditions on one field one of  *)
(* them holds.                                                              *)
FiltersNeverDropped ==
    phase = "done" => \A n \in DOMAIN answers : \A r \in answers[n].rows :
        \A f \in FilteredOn(n) :
            \/ ValueOf(r, f) = Null
            \/ \E c \in Stated(n, f) :
                 Expressible(c, f) /\ (type = "MONGODB" => c.like = <<>>)
                   => Meets(ValueOf(r, f), c, Dated(f))

RowsAt(n) ==
    CASE type \in {"POSTGRESQL", "SQL_SERVER"} ->
           UNION {t.rows : t \in {x \in db : NormalizeTable(type, <<x.schema, x.name>>) = n}}
      [] type = "ORACLE" -> UNION {t.rows : t \in {x \in db :
                               QualifyTableName(x.schema, x.name, CurrentSchema) = n}}
      [] type = "MYSQL" -> UNION {t.rows : t \in {x \in db : x.schema = Database /\ <<x.name>> = n}}
      [] IsCRM -> UNION {t.rows : t \in {x \in db : <<n[1], x.name>> \in Prefixes}}
      [] OTHER -> UNION {t.rows : t \in {x \in db : <<x.name>> = n}}

(* A table without filters is queried with those of the table of the same   *)
(* name that has no schema: the only rows that a request may miss.          *)
BorrowsFilters(n) ==
    /\ type \in {"POSTGRESQL", "SQL_SERVER"} /\ n \notin DOMAIN FiltersForConfig
    /\ Qualified(n) /\ Tail(n) \in DOMAIN FiltersForConfig

(* Every row that meets the stated conditions is extracted, with the fields *)
(* asked for in any spelling and, from plugin_crm, in the clear, unless the *)
(* stream was cut: nothing is lost to a rewritten date, a pattern, a folded *)
(* name or a field nobody decrypts.                                         *)
AnswersComplete ==
    phase = "done" /\ "querying" \notin outages => \A n \in DOMAIN answers :
        /\ \A t \in DOMAIN request.tables : NormalizeTable(type, t) = n =>
             {NormalizeField(type, f) : f \in request.tables[t]} \subseteq answers[n].fields
        /\ IsCRM => \A d \in answers[n].clear : \A f \in DOMAIN d : d[f].kind # "cipher"
        /\ BorrowsFilters(n) \/ \A r \in RowsAt(n) :
             (\A f \in FilteredOn(n) : \A c \in Stated(n, f) :
                /\ ValueOf(r, f) # Null /\ Expressible(c, f)
                /\ Meets(ValueOf(r, f), c, Dated(f)))
             => r \in answers[n].rows

WellFormed(f, c) ==
    /\ Len(c.between) \in {0, 2} /\ \A op \in Comparisons : Len(c[op]) <= 1
    /\ Upper[f] \in {"ORDER_ID", "PAID"} /\ type # "MONGODB" =>
         \A op \in Operators \ {"ne", "like"} : \A x \in Range(c[op]) :
            x.kind \in Strings => x.kind = "uuid"

(* What the planner accepts the driver accepts, although each discovers the *)
(* schema itself and normalises names in its own code: a query only fails   *)
(* for a malformed condition, a table without fields, on SQL Server tables  *)
(* with and without a schema in one request, and there and on Oracle a      *)
(* catalog that the scope takes for a schema.                               *)
PlanIsExecutable ==
    phase = "failed" /\ ~IsCRM /\ "querying" \notin outages =>
        \/ \E n \in DOMAIN job.selection : job.selection[n] = {}
        \/ \E n \in DOMAIN job.filters : \E f \in DOMAIN job.filters[n] :
             ~WellFormed(f, job.filters[n][f])
        \/ /\ type = "SQL_SERVER"
           /\ {Qualified(n) : n \in DOMAIN job.selection} = BOOLEAN
        \/ /\ type \in {"ORACLE", "SQL_SERVER"}
           /\ \E t \in DOMAIN request.tables : Len(t) = 3 /\ \E x \in db : EqualFold(t[1], x.schema)

(* The Manager's validation and the Worker's plan agree on a request that    *)
(* names tables, spells tables and fields once and filters on its own       *)
(* fields, when the database answers both and nothing is overridden.  Only  *)
(* the Manager takes a SQL database named plugin_crm for the CRM.           *)
ManagerAndWorkerAgree ==
    /\ phase \in {"planned", "rejected", "failed", "done"}
    /\ outages \subseteq {"querying"} /\ DOMAIN request.tables # {}
    /\ \A k \in DOMAIN Limits : request.overrides[k] = 0
    /\ conn # NoConn =>
         /\ type # "MONGODB" /\ conn.host = "open" /\ request.config # CrmConfig
         /\ \A t, u \in DOMAIN request.tables : NormalizeTable(type, t) = NormalizeTable(type, u) => t = u
         /\ \A t \in DOMAIN request.tables : \A f, g \in request.tables[t] :
              NormalizeField(type, f) = NormalizeField(type, g) => f = g
         /\ \A n \in DOMAIN job.selection \cap DOMAIN job.filters :
              DOMAIN job.filters[n] \subseteq job.selection[n]
    => (valid <=> phase # "rejected")

(* Whatever the deployment, what is dialed for a request is the database of  *)
(* its own tenant and datasource, with that account's password and users and *)
(* the encryption asked for: entries of the environment, tenants, services   *)
(* and modules are never mixed up and no stored connection takes the place  *)
(* of the platform's.  Passwords with characters to escape, and Oracle's and *)
(* SQL Server's modes, are not passed on exactly.                           *)
DialsAsConfigured ==
    \A d \in dials :
        /\ <<Wanted[d.place].tenant, Wanted[d.place].config>> = <<request.tenant, request.config>>
        /\ Accounts[d.place].password.chars = "letters" =>
             d.password = Accounts[d.place].password /\ d.auth = Accounts[d.place].auth
        /\ d.tls = Wanted[d.place].tls \/ d.type = "ORACLE" \/ (d.type = "SQL_SERVER" /\ d.tls = "on")

(* What the Manager lists can be extracted: a field of a table in the schema *)
(* of a listed connection passes the Manager's validation and the Worker's  *)
(* plan and query, although connections are listed by id and requested by   *)
(* name and the schema shown is discovered under another scope.  Not so for *)
(* a stored connection that has a name of the platform, nor for a MongoDB,  *)
(* whose fields are sampled again at every discovery.                       *)
ListedIsExtractable ==
    /\ request.origin = "listed" /\ outages = {}
    /\ browse.conn.type # "MONGODB" /\ ~(browse.conn.key /\ D!IsInternal(browse.conn.config))
    => /\ phase \in {"received", "found"} \/ valid
       /\ phase \notin {"rejected", "failed"}

=============================================================================
