------------------------- MODULE DataSourceFactory -------------------------
(***************************************************************************)
(* NewDataSourceFromConnection: what is dialed for a connection, and the     *)
(* reads of the Manager that find a connection by its id.                   *)
(*                                                                         *)
(* A password is [secret, chars, sealed]: chars tells whether it is only     *)
(* letters, has symbols or has spaces; sealed, whether it is encrypted.     *)
(* Ports, users and pool sizes are carried along and left out.              *)
(***************************************************************************)
EXTENDS Resolver

CONSTANTS PageSize,  \* connections per page of a listing
          Accounts   \* [password, auth] of the account at each place

-----------------------------------------------------------------------------
(* The guard against forbidden hosts: on in the Manager of a multi-tenant    *)
(* deployment, for connections of tenants.  A host that does not resolve is *)
(* left to the driver.                                                      *)
ValidateHostForConnection(guarded, c) == guarded /\ c.key => c.host # "forbidden"

(* resolvePassword: decrypted when there is a key version. *)
ResolvePassword(c) ==
    IF ~c.key THEN c.password
    ELSE IF c.password.sealed THEN [c.password EXCEPT !.sealed = FALSE] ELSE Failed

(* url.QueryEscape, and the driver's reading of it.  A URL's user part       *)
(* turns %xx back into its symbol but leaves the plus of a space; the DSN of *)
(* MySQL is no URL.                                                         *)
Garbled == [secret |-> <<>>, chars |-> "letters", sealed |-> FALSE]
FromURL(p) == IF p.chars = "spaces" THEN Garbled ELSE p
FromDSN(p) == IF p.chars = "letters" THEN p ELSE Garbled

Dial(c, password, tls, auth) ==
    [type |-> c.type, place |-> c.place, password |-> password, tls |-> tls, auth |-> auth]

-----------------------------------------------------------------------------
(* One constructor per type: a dial, or an error.  tls is what the driver    *)
(* makes of the parameter.                                                  *)

(* buildMongoDBOptions: a database of the platform holds its own users. *)
BuildMongoDBOptions(c) == IF c.auth # "" THEN c.auth ELSE IF c.key THEN "admin" ELSE "own"

AppendMongoDBSSLParams(c) == IF c.ssl \in {"", "false", "disable"} THEN "off" ELSE "on"

NewDataSourceConfigMongoDB(c) ==
    LET p == ResolvePassword(c)
    IN IF p = Failed \/ ~ValidateMongoDBMode(c.ssl) THEN Failed
       ELSE Dial(c, FromURL(p), AppendMongoDBSSLParams(c), BuildMongoDBOptions(c))

NewDataSourceConfigPostgres(c) ==
    LET p == ResolvePassword(c)
        mode == IF c.ssl = "" THEN "disable" ELSE c.ssl
    IN IF p = Failed \/ ~ValidatePostgreSQLMode(mode) THEN Failed
       ELSE Dial(c, FromURL(p), CASE mode = "disable" -> "off"
                                  [] mode \in {"allow", "prefer"} -> "maybe" [] OTHER -> "on", "")

(* The mode is checked and is not part of the connection string. *)
NewDataSourceConfigOracle(c) ==
    LET p == ResolvePassword(c)
    IN IF p = Failed \/ c.service = "" \/ ~ValidateOracleMode(c.ssl) THEN Failed
       ELSE Dial(c, FromURL(p), "off", "")

NewDataSourceConfigMySQL(c) ==
    LET p == ResolvePassword(c)
        mode == IF c.ssl = "" THEN "false" ELSE c.ssl
    IN IF p = Failed \/ ~ValidateMySQLMode(mode) THEN Failed
       ELSE Dial(c, FromDSN(p), CASE mode = "false" -> "off" [] mode = "preferred" -> "maybe"
                                  [] OTHER -> "on", "")

(* Any mode but disable encrypts. *)
NewDataSourceConfigSQLServer(c) ==
    LET p == ResolvePassword(c)
    IN IF p = Failed \/ ~ValidateSQLServerMode(c.ssl) THEN Failed
       ELSE Dial(c, FromURL(p), IF c.ssl \in {"", "disable"} THEN "off" ELSE "on", "")

NewDataSourceFromConnection(c, guarded) ==
    IF ~ValidateHostForConnection(guarded, c) THEN Failed
    ELSE CASE c.type = "MONGODB" -> NewDataSourceConfigMongoDB(c)
           [] c.type = "POSTGRESQL" -> NewDataSourceConfigPostgres(c)
           [] c.type = "ORACLE" -> NewDataSourceConfigOracle(c)
           [] c.type = "MYSQL" -> NewDataSourceConfigMySQL(c)
           [] c.type = "SQL_SERVER" -> NewDataSourceConfigSQLServer(c)
           [] OTHER -> Failed

(* Connect, and testMongoDBConnection: opened, and closed again if the ping  *)
(* is refused.                                                              *)
Connect(dial) ==
    IF dial.password = Accounts[dial.place].password /\ dial.auth = Accounts[dial.place].auth
    THEN dial ELSE Failed

-----------------------------------------------------------------------------
(* The reads of the Manager. *)

Stored(d, tenant) == {d.stored[tenant][i] : i \in DOMAIN d.stored[tenant]}

FindByID(d, tenant, id) ==
    LET found == {c \in Stored(d, tenant) : c.id = id}
    IN IF found = {} THEN Failed ELSE CHOOSE c \in found : TRUE

(* GetConnection: an id of the platform, else a stored one. *)
GetConnection(d, tenant, id) ==
    IF FindConfigByID(id, tenant) # {}
    THEN ResolveInternalByConfigName(d, tenant, CHOOSE n \in FindConfigByID(id, tenant) : TRUE)
    ELSE FindByID(d, tenant, id)

(* resolveConnection of GetConnectionSchema. *)
ResolveConnection(d, tenant, id) ==
    IF FindConfigByID(id, tenant) # {}
    THEN ResolveInternalByConfigName(d, tenant, CHOOSE n \in FindConfigByID(id, tenant) : TRUE)
    ELSE FindByID(d, tenant, id)

(* A tenant's own schema in a database of the platform is named as its user. *)
ApplySchemaResolutionHeuristic(c, multi) ==
    IF c.schema = "" /\ multi /\ ~c.key /\ c.user # "" /\ c.type = "POSTGRESQL"
    THEN [c EXCEPT !.schema = c.user] ELSE c

(* A page of the stored connections, and how many there are. *)
ListPaged(d, tenant, type, page) ==
    LET kept == SelectSeq(d.stored[tenant], LAMBDA c : type \in {"", c.type})
        from == PageSize * ((IF page < 1 THEN 1 ELSE page) - 1)
    IN [items |-> {kept[i] : i \in {j \in DOMAIN kept : j \in from + 1 .. from + PageSize}},
        total |-> Len(kept)]

(* ListConnections: the first page also has the platform's connections that *)
(* resolved.                                                                *)
ListConnections(d, tenant, type, page, internal) ==
    LET stored == ListPaged(d, tenant, type, page)
        own == IF page > 1 THEN {} ELSE {c \in internal : type \in {"", c.type}}
    IN [items |-> own \cup stored.items, total |-> stored.total + Cardinality(own)]

=============================================================================
