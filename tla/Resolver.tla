------------------------------ MODULE Resolver ------------------------------
(***************************************************************************)
(* From the name or the id of a datasource to the connection to dial.  The   *)
(* datasources of the platform are found in the environment of a single-    *)
(* tenant deployment or with the Tenant Manager; all others are stored.      *)
(*                                                                         *)
(* A deployment is [mode, env, tenants, clients, default, stored]: the      *)
(* entries of the environment in their order, the Tenant Manager's answer    *)
(* per tenant and service, the services with a client of their own, whether *)
(* there is a default client, and the stored connections of each tenant in   *)
(* the order of the listing.  A place is a host, a port and a database.     *)
(***************************************************************************)
EXTENDS SSLModes, FiniteSetsExt, Integers, Sequences

CONSTANT Failed      \* an error

NoPlace == <<>>
NoId == <<>>
NoTenant == ""

-----------------------------------------------------------------------------
(* The registry of the platform's datasources. *)

Registry ==
    [midaz_onboarding  |-> [service |-> "ledger", module |-> "onboarding", type |-> "POSTGRESQL"],
     midaz_transaction |-> [service |-> "ledger", module |-> "transaction", type |-> "POSTGRESQL"],
     plugin_crm        |-> [service |-> "plugin-crm", module |-> "crm-api", type |-> "MONGODB"]]

IsInternal(name) == name \in DOMAIN Registry

GetDeterministicID(tenant, name) == <<"internal", tenant, name>>

(* The name an id stands for: a set of at most one. *)
FindConfigByID(id, tenant) == {n \in DOMAIN Registry : GetDeterministicID(tenant, n) = id}

(* An in-memory connection: no key version, and the password as it is. *)
InMemory(name, type, c) ==
    [id |-> NoId, config |-> name, type |-> type, place |-> c.place, host |-> "open", user |-> c.user,
     key |-> FALSE, password |-> c.password, ssl |-> c.ssl, auth |-> c.auth,
     service |-> c.service, schema |-> ""]

-----------------------------------------------------------------------------
(* The environment of a single-tenant deployment. *)

(* parseSSLFromEnv: no mode is no SSL. *)
SSLAccepted(entry) == entry.ssl = "" \/ ValidateSSLModeForType(entry.type, entry.ssl)

(* Mutation: of two entries with one name the last wins, acceptable or not. *)
LastEntryWins(env) ==
    LET Of(n) == {i \in DOMAIN env : env[i].config = n}
    IN [n \in {env[i].config : i \in {j \in DOMAIN env : IsInternal(env[j].config)}} |->
          InMemory(n, env[Max(Of(n))].type, env[Max(Of(n))])]

(* The first acceptable entry of each name; a bad port is only logged. *)
LoadInternalConnectionsFromEnv(env) ==
    LET accepted == {i \in DOMAIN env :
            /\ IsInternal(env[i].config) /\ env[i].type \in DBTypes
            /\ env[i].place # NoPlace /\ SSLAccepted(env[i])}
        First(n) == env[Min({i \in accepted : env[i].config = n})]
    IN [n \in {env[i].config : i \in accepted} |-> InMemory(n, First(n).type, First(n))]

-----------------------------------------------------------------------------
(* The Tenant Manager. *)

PickClient(d, service) == service \in d.clients \/ d.default

(* The TLS of a tenant's MongoDB, from its fields, else from its URI. *)
MongoSSL(c) ==
    IF c.tls THEN IF c.skip THEN "insecure" ELSE "enable"
    ELSE IF c.uri.tls THEN IF c.uri.insecure THEN "insecure" ELSE "enable"
    ELSE ""

BuildMongoServiceConfig(c) ==
    [place |-> c.place, user |-> c.user, password |-> c.password, ssl |-> MongoSSL(c),
     auth |-> IF c.auth = "" /\ ~c.tls THEN c.uri.auth ELSE c.auth, service |-> ""]

(* A tenant's database: [type, ...], of the service and of the module. *)
GetServiceConnection(d, tenant, service, module) ==
    LET answer == d.tenants[tenant]
    IN IF ~PickClient(d, service) \/ service \notin DOMAIN answer THEN Failed
       ELSE IF module \notin DOMAIN answer[service] THEN Failed
       ELSE CASE answer[service][module].type = "POSTGRESQL" -> answer[service][module]
              [] answer[service][module].type = "MONGODB" -> BuildMongoServiceConfig(answer[service][module])
              [] OTHER -> Failed

(* resolveInternalConnection: the type is the registry's. *)
ResolveInternalConnection(d, tenant, name) ==
    LET c == GetServiceConnection(d, tenant, Registry[name].service, Registry[name].module)
    IN IF tenant = NoTenant \/ c = Failed THEN Failed
       ELSE InMemory(name, Registry[name].type, c)

-----------------------------------------------------------------------------
(* The two resolvers. *)

FindByConfigNames(d, tenant, names) ==
    {c \in {d.stored[tenant][i] : i \in DOMAIN d.stored[tenant]} : c.config \in names}

(* SingleTenantResolver.ResolveConnections. *)
ResolveSingle(d, names) ==
    LET env == LoadInternalConnectionsFromEnv(d.env)
        internal == {n \in names : IsInternal(n)}
    IN IF ~(internal \subseteq DOMAIN env) THEN Failed
       ELSE {env[n] : n \in internal} \cup FindByConfigNames(d, NoTenant, names \ internal)

(* MultiTenantResolver.ResolveConnections. *)
ResolveMulti(d, tenant, names) ==
    LET internal == {n \in names : IsInternal(n)}
        Of(n) == ResolveInternalConnection(d, tenant, n)
    IN IF \E n \in internal : Of(n) = Failed THEN Failed
       ELSE {Of(n) : n \in internal} \cup FindByConfigNames(d, tenant, names \ internal)

(* Mutation: stored connections hide the platform's. *)
StoredFirst(d, tenant, names) ==
    LET stored == FindByConfigNames(d, tenant, names)
        rest == names \ {c.config : c \in stored}
        found == IF d.mode = "single" THEN ResolveSingle(d, rest) ELSE ResolveMulti(d, tenant, rest)
    IN IF found = Failed THEN Failed ELSE stored \cup found

(* The connections of the names, without the stored names nobody has. *)
ResolveConnections(d, tenant, names) ==
    IF d.mode = "single" THEN ResolveSingle(d, names) ELSE ResolveMulti(d, tenant, names)

WithID(c, tenant) == [c EXCEPT !.id = GetDeterministicID(tenant, c.config)]

(* ListInternalConnections: those that resolve. *)
ListInternalSingle(d) ==
    LET env == LoadInternalConnectionsFromEnv(d.env) IN {WithID(env[n], NoTenant) : n \in DOMAIN env}

ListInternalMulti(d, tenant) ==
    {WithID(c, tenant) : c \in {ResolveInternalConnection(d, tenant, n) : n \in DOMAIN Registry} \ {Failed}}

ListInternalConnections(d, tenant) ==
    IF d.mode = "single" THEN ListInternalSingle(d) ELSE ListInternalMulti(d, tenant)

ResolveInternalSingle(d, name) ==
    LET env == LoadInternalConnectionsFromEnv(d.env)
    IN IF name \in DOMAIN env THEN WithID(env[name], NoTenant) ELSE Failed

ResolveInternalMulti(d, tenant, name) ==
    LET c == ResolveInternalConnection(d, tenant, name)
    IN IF c = Failed THEN Failed ELSE WithID(c, tenant)

ResolveInternalByConfigName(d, tenant, name) ==
    IF d.mode = "single" THEN ResolveInternalSingle(d, name) ELSE ResolveInternalMulti(d, tenant, name)

=============================================================================
