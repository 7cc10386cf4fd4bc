--------------------------- MODULE DataPathProofs ---------------------------
(***************************************************************************)
(* Theorems about the path of a request.                                    *)
(***************************************************************************)
EXTENDS DataPath, FiniteSetTheorems, SequenceTheorems, WellFoundedInduction, TLAPS

(* A set of numbers that is not empty has its Min. *)
LEMMA MinIsLeast ==
    ASSUME NEW S, S \subseteq Nat, S # {}
    PROVE  D!Min(S) \in S /\ \A x \in S : D!Min(S) <= x
<1> DEFINE R == {ss \in Nat \X Nat : ss[1] < ss[2]}
<1>1. IsWellFoundedOn(R, Nat)
  BY NatLessThanWellFounded DEF OpToRel
<1>2. \E x \in S : \A y \in S : ~(<<y, x>> \in R)
  <2> HIDE DEF R
  <2> QED BY <1>1, WFMin
<1>3. PICK x \in S : \A y \in S : ~(<<y, x>> \in R)
  BY <1>2
<1>4. ASSUME NEW y \in S PROVE x <= y
  <2>1. ~(<<y, x>> \in R) /\ x \in Nat /\ y \in Nat
    BY <1>3
  <2>2. ~(y < x)
    BY <2>1
  <2> QED BY <2>1, <2>2
<1> QED BY <1>4 DEF D!Min

-----------------------------------------------------------------------------
(* What is dialed.  A connection describes its place when the place is the   *)
(* tenant's database of that name and the record has its account and wish.  *)

DescribesPlace(c, tenant, config) ==
    /\ Wanted[c.place].tenant = tenant /\ Wanted[c.place].config = config
    /\ Wanted[c.place].tls = Encryption(c.ssl)
    /\ D!ResolvePassword(c) = Accounts[c.place].password
    /\ Accounts[c.place].auth = UsersAt(c, c.auth, IF c.key THEN "admin" ELSE "own")

RightDial(d, tenant, config) ==
    /\ <<Wanted[d.place].tenant, Wanted[d.place].config>> = <<tenant, config>>
    /\ Accounts[d.place].password.chars = "letters" =>
         d.password = Accounts[d.place].password /\ d.auth = Accounts[d.place].auth
    /\ d.tls = Wanted[d.place].tls \/ d.type = "ORACLE" \/ (d.type = "SQL_SERVER" /\ d.tls = "on")

(* A dial that keeps them is right. *)
LEMMA DialAtPlace ==
    ASSUME NEW c, NEW password, NEW tls, NEW auth, NEW tenant, NEW config,
           DescribesPlace(c, tenant, config),
           Accounts[c.place].password.chars = "letters" => password = Accounts[c.place].password,
           auth = Accounts[c.place].auth,
           tls = Encryption(c.ssl) \/ c.type = "ORACLE" \/ (c.type = "SQL_SERVER" /\ tls = "on")
    PROVE  RightDial(D!Dial(c, password, tls, auth), tenant, config)
<1>1. PICK d : d = D!Dial(c, password, tls, auth)
  OBVIOUS
<1>2. d.place = c.place /\ d.password = password /\ d.type = c.type /\ d.tls = tls /\ d.auth = auth
  BY <1>1 DEF D!Dial
<1>3. RightDial(d, tenant, config)
  BY <1>2 DEF RightDial, DescribesPlace
<1> QED BY <1>1, <1>3

LEMMA OwnsFields ==
    ASSUME NEW place, NEW tenant, NEW config, NEW tls, Owns(place, tenant, config, tls)
    PROVE  /\ Wanted[place].tenant = tenant /\ Wanted[place].config = config
           /\ Wanted[place].tls = tls
BY DEF Owns

(* Every constructor keeps the place, the account and the wish. *)
LEMMA DialOfDescription ==
    ASSUME NEW c, NEW guarded, NEW tenant, NEW config, DescribesPlace(c, tenant, config),
           D!NewDataSourceFromConnection(c, guarded) # Failed
    PROVE  RightDial(D!NewDataSourceFromConnection(c, guarded), tenant, config)
<1>0. PICK p : p = Accounts[c.place].password
  OBVIOUS
<1>p. D!ResolvePassword(c) = p
  BY <1>0 DEF DescribesPlace
<1>u. Accounts[c.place].password.chars = "letters" => D!FromURL(p) = Accounts[c.place].password
  BY <1>0 DEF D!FromURL
<1>s. Accounts[c.place].password.chars = "letters" => D!FromDSN(p) = Accounts[c.place].password
  BY <1>0 DEF D!FromDSN
<1>1. CASE c.type = "MONGODB"
  <2>1. D!NewDataSourceFromConnection(c, guarded) = D!NewDataSourceConfigMongoDB(c)
    BY <1>1 DEF D!NewDataSourceFromConnection
  <2>2. /\ D!ValidateMongoDBMode(c.ssl)
        /\ D!NewDataSourceConfigMongoDB(c)
             = D!Dial(c, D!FromURL(p), D!AppendMongoDBSSLParams(c), D!BuildMongoDBOptions(c))
    BY <2>1, <1>p DEF D!NewDataSourceConfigMongoDB
  <2>3. D!AppendMongoDBSSLParams(c) = Encryption(c.ssl)
    BY <2>2 DEF D!ValidateMongoDBMode, D!AppendMongoDBSSLParams, Encryption
  <2>4. D!BuildMongoDBOptions(c) = Accounts[c.place].auth
    BY <1>1 DEF DescribesPlace, UsersAt, D!BuildMongoDBOptions
  <2>r. RightDial(D!Dial(c, D!FromURL(p), D!AppendMongoDBSSLParams(c), D!BuildMongoDBOptions(c)), tenant, config)
    BY <2>3, <2>4, <1>u, DialAtPlace
  <2> QED BY <2>1, <2>2, <2>r
<1>2. CASE c.type = "POSTGRESQL"
  <2>1. D!NewDataSourceFromConnection(c, guarded) = D!NewDataSourceConfigPostgres(c)
    BY <1>2 DEF D!NewDataSourceFromConnection
  <2>2. PICK mode : mode = IF c.ssl = "" THEN "disable" ELSE c.ssl
    OBVIOUS
  <2>3. PICK tls : tls = CASE mode = "disable" -> "off"
                           [] mode \in {"allow", "prefer"} -> "maybe" [] OTHER -> "on"
    OBVIOUS
  <2>4. /\ D!ValidatePostgreSQLMode(mode)
        /\ D!NewDataSourceConfigPostgres(c) = D!Dial(c, D!FromURL(p), tls, "")
    BY <2>1, <2>2, <2>3, <1>p DEF D!NewDataSourceConfigPostgres
  <2>5. tls = Encryption(c.ssl)
    BY <2>2, <2>3, <2>4 DEF D!ValidatePostgreSQLMode, Encryption
  <2>6. Accounts[c.place].auth = ""
    BY <1>2 DEF DescribesPlace, UsersAt
  <2>r. RightDial(D!Dial(c, D!FromURL(p), tls, ""), tenant, config)
    BY <2>5, <2>6, <1>u, DialAtPlace
  <2> QED BY <2>1, <2>4, <2>r
<1>3. CASE c.type = "ORACLE"
  <2>1. D!NewDataSourceFromConnection(c, guarded) = D!NewDataSourceConfigOracle(c)
    BY <1>3 DEF D!NewDataSourceFromConnection
  <2>2. D!NewDataSourceConfigOracle(c) = D!Dial(c, D!FromURL(p), "off", "")
    BY <2>1, <1>p DEF D!NewDataSourceConfigOracle
  <2>3. Accounts[c.place].auth = ""
    BY <1>3 DEF DescribesPlace, UsersAt
  <2>r. RightDial(D!Dial(c, D!FromURL(p), "off", ""), tenant, config)
    BY <2>3, <1>3, <1>u, DialAtPlace
  <2> QED BY <2>1, <2>2, <2>r
<1>4. CASE c.type = "MYSQL"
  <2>1. D!NewDataSourceFromConnection(c, guarded) = D!NewDataSourceConfigMySQL(c)
    BY <1>4 DEF D!NewDataSourceFromConnection
  <2>2. PICK mode : mode = IF c.ssl = "" THEN "false" ELSE c.ssl
    OBVIOUS
  <2>3. PICK tls : tls = CASE mode = "false" -> "off" [] mode = "preferred" -> "maybe"
                           [] OTHER -> "on"
    OBVIOUS
  <2>4. /\ D!ValidateMySQLMode(mode)
        /\ D!NewDataSourceConfigMySQL(c) = D!Dial(c, D!FromDSN(p), tls, "")
    BY <2>1, <2>2, <2>3, <1>p DEF D!NewDataSourceConfigMySQL
  <2>5. tls = Encryption(c.ssl)
    BY <2>2, <2>3, <2>4 DEF D!ValidateMySQLMode, Encryption
  <2>6. Accounts[c.place].auth = ""
    BY <1>4 DEF DescribesPlace, UsersAt
  <2>r. RightDial(D!Dial(c, D!FromDSN(p), tls, ""), tenant, config)
    BY <2>5, <2>6, <1>s, DialAtPlace
  <2> QED BY <2>1, <2>4, <2>r
<1>5. CASE c.type = "SQL_SERVER"
  <2>1. D!NewDataSourceFromConnection(c, guarded) = D!NewDataSourceConfigSQLServer(c)
    BY <1>5 DEF D!NewDataSourceFromConnection
  <2>2. PICK tls : tls = IF c.ssl \in {"", "disable"} THEN "off" ELSE "on"
    OBVIOUS
  <2>3. D!NewDataSourceConfigSQLServer(c) = D!Dial(c, D!FromURL(p), tls, "")
    BY <2>1, <2>2, <1>p DEF D!NewDataSourceConfigSQLServer
  <2>4. tls = Encryption(c.ssl) \/ tls = "on"
    BY <2>2 DEF Encryption
  <2>5. Accounts[c.place].auth = ""
    BY <1>5 DEF DescribesPlace, UsersAt
  <2>r. RightDial(D!Dial(c, D!FromURL(p), tls, ""), tenant, config)
    BY <2>4, <2>5, <1>5, <1>u, DialAtPlace
  <2> QED BY <2>1, <2>3, <2>r
<1> QED BY <1>1, <1>2, <1>3, <1>4, <1>5 DEF D!NewDataSourceFromConnection

(* Sealing a password and opening it again. *)
LEMMA SealedAndOpened ==
    ASSUME NEW p, p = [secret |-> p.secret, chars |-> p.chars, sealed |-> FALSE],
           NEW q, q = [p EXCEPT !.sealed = TRUE]
    PROVE  q.sealed = TRUE /\ [q EXCEPT !.sealed = FALSE] = p
<1>1. PICK s, ch : s = p.secret /\ ch = p.chars
  OBVIOUS
<1>2. p = [secret |-> s, chars |-> ch, sealed |-> FALSE]
  BY <1>1
<1>3. q = [secret |-> s, chars |-> ch, sealed |-> TRUE]
  BY <1>2
<1>4. PICK o : o = [q EXCEPT !.sealed = FALSE]
  OBVIOUS
<1>5. o = [secret |-> s, chars |-> ch, sealed |-> FALSE]
  BY ONLY <1>3, <1>4
<1> QED BY <1>2, <1>3, <1>4, <1>5

(* A stored connection, decrypted, is its account. *)
LEMMA StoredDescribes ==
    ASSUME NEW c, NEW tenant, StoredAsOwned(c, tenant)
    PROVE  DescribesPlace(c, tenant, c.config)
<1>0. PICK p : p = Accounts[c.place].password
  OBVIOUS
<1>1. /\ c.place \in DOMAIN Accounts /\ Wanted[c.place].tenant = tenant
      /\ Wanted[c.place].config = c.config /\ Wanted[c.place].tls = Encryption(c.ssl)
  BY DEF StoredAsOwned, Owns
<1>2. PICK q : q = c.password
  OBVIOUS
<1>3. c.key = TRUE /\ q = [p EXCEPT !.sealed = TRUE]
      /\ Accounts[c.place].auth = UsersAt(c, c.auth, "admin")
  BY <1>0, <1>2 DEF StoredAsOwned
<1>4. p = [secret |-> p.secret, chars |-> p.chars, sealed |-> FALSE]
  BY <1>0, <1>1, DeploymentsAssumption
<1>5. q.sealed = TRUE /\ [q EXCEPT !.sealed = FALSE] = p
  BY <1>3, <1>4, SealedAndOpened
<1>6. D!ResolvePassword(c) = p
  BY <1>2, <1>3, <1>5 DEF D!ResolvePassword
<1> QED BY <1>0, <1>1, <1>3, <1>6 DEF DescribesPlace

(* An entry of the environment as it is. *)
LEMMA EntryDescribes ==
    ASSUME NEW e, EntryAsOwned(e), NEW c, c = D!InMemory(e.config, e.type, e)
    PROVE  DescribesPlace(c, D!NoTenant, e.config)
<1>1. /\ c.place = e.place /\ c.password = e.password /\ c.ssl = e.ssl /\ c.auth = e.auth
      /\ c.key = FALSE /\ c.type = e.type
  BY DEF D!InMemory
<1>2. D!ResolvePassword(c) = e.password
  BY <1>1 DEF D!ResolvePassword
<1>3. UsersAt(c, c.auth, "own") = UsersAt(e, e.auth, "own")
  BY <1>1 DEF UsersAt
<1>4. /\ Wanted[e.place].tenant = D!NoTenant /\ Wanted[e.place].config = e.config
      /\ Wanted[e.place].tls = Encryption(e.ssl)
  BY DEF EntryAsOwned, Owns
<1>5. e.password = Accounts[e.place].password /\ Accounts[e.place].auth = UsersAt(e, e.auth, "own")
  BY DEF EntryAsOwned
<1> QED BY <1>1, <1>2, <1>3, <1>4, <1>5 DEF DescribesPlace

(* The environment's connection of a name is its first acceptable entry. *)
LEMMA EnvironmentDescribes ==
    ASSUME NEW env, DOMAIN env \subseteq Nat,
           \A i \in DOMAIN env : FirstOfName(env, i) => EntryAsOwned(env[i]),
           NEW n \in DOMAIN D!LoadInternalConnectionsFromEnv(env)
    PROVE  /\ DescribesPlace(D!LoadInternalConnectionsFromEnv(env)[n], D!NoTenant, n)
           /\ D!LoadInternalConnectionsFromEnv(env)[n].config = n
           /\ D!IsInternal(n)
<1>1. PICK accepted : accepted = {i \in DOMAIN env : Acceptable(env[i])}
  OBVIOUS
<1>2. PICK S : S = {i \in accepted : env[i].config = n}
  OBVIOUS
<1>3. /\ n \in {env[i].config : i \in accepted}
      /\ D!LoadInternalConnectionsFromEnv(env)[n]
           = D!InMemory(n, env[D!Min(S)].type, env[D!Min(S)])
  BY <1>1, <1>2 DEF D!LoadInternalConnectionsFromEnv, Acceptable
<1>4. S \subseteq Nat /\ S # {}
  BY <1>1, <1>2, <1>3
<1>5. PICK i : i = D!Min(S)
  OBVIOUS
<1>6. i \in S /\ \A x \in S : i <= x
  BY <1>4, <1>5, MinIsLeast
<1>7. i \in DOMAIN env /\ Acceptable(env[i]) /\ env[i].config = n
  BY <1>1, <1>2, <1>6
<1>8. FirstOfName(env, i)
  BY <1>1, <1>2, <1>6, <1>7 DEF FirstOfName
<1>9. PICK c : c = D!LoadInternalConnectionsFromEnv(env)[n]
  OBVIOUS
<1>10. c = D!InMemory(env[i].config, env[i].type, env[i])
  BY <1>3, <1>5, <1>7, <1>9
<1>11. DescribesPlace(c, D!NoTenant, n)
  BY <1>7, <1>8, <1>10, EntryDescribes
<1>12. c.config = n
  BY <1>7, <1>10 DEF D!InMemory
<1>13. D!IsInternal(n)
  BY <1>7 DEF Acceptable
<1> QED BY <1>9, <1>11, <1>12, <1>13


(* The Tenant Manager's answer, its TLS from the fields or from the URI. *)
LEMMA AnswerDescribes ==
    ASSUME NEW a, NEW tenant, NEW n \in DOMAIN D!Registry, AnswerAsOwned(a, tenant, n),
           NEW c, c = D!InMemory(n, D!Registry[n].type,
                                 IF a.type = "POSTGRESQL" THEN a ELSE D!BuildMongoServiceConfig(a))
    PROVE  DescribesPlace(c, tenant, n) /\ c.config = n
<1>1. a.type = D!Registry[n].type /\ a.password = Accounts[a.place].password
  BY DEF AnswerAsOwned
<1>2. a.type \in {"POSTGRESQL", "MONGODB"}
  BY <1>1 DEF D!Registry
<1>3. CASE a.type = "POSTGRESQL"
  <2>1. /\ c.config = n /\ c.type = "POSTGRESQL" /\ c.place = a.place /\ c.key = FALSE
        /\ c.password = a.password /\ c.ssl = a.ssl
    BY <1>1, <1>3 DEF D!InMemory
  <2>2. /\ Wanted[a.place].tenant = tenant /\ Wanted[a.place].config = n
        /\ Wanted[a.place].tls = Encryption(a.ssl) /\ Accounts[a.place].auth = ""
    <3>1. Owns(a.place, tenant, n, Encryption(a.ssl)) /\ Accounts[a.place].auth = ""
      BY <1>3 DEF AnswerAsOwned
    <3> QED BY <3>1, OwnsFields
  <2>3. D!ResolvePassword(c) = a.password
    BY <2>1 DEF D!ResolvePassword
  <2>4. UsersAt(c, c.auth, "own") = ""
    BY <2>1 DEF UsersAt
  <2> QED BY <1>1, <2>1, <2>2, <2>3, <2>4 DEF DescribesPlace
<1>4. CASE a.type = "MONGODB"
  <2>0. PICK auth : auth = IF a.auth = "" /\ ~a.tls THEN a.uri.auth ELSE a.auth
    OBVIOUS
  <2>1. PICK m : m = D!BuildMongoServiceConfig(a)
    OBVIOUS
  <2>2. m.place = a.place /\ m.password = a.password /\ m.ssl = D!MongoSSL(a) /\ m.auth = auth
    BY <2>0, <2>1 DEF D!BuildMongoServiceConfig
  <2>3. c = D!InMemory(n, "MONGODB", m)
    BY <1>1, <1>4, <2>1
  <2>4. /\ c.config = n /\ c.type = "MONGODB" /\ c.place = a.place /\ c.key = FALSE
        /\ c.password = a.password /\ c.ssl = D!MongoSSL(a) /\ c.auth = auth
    <3>1. /\ c.config = n /\ c.type = "MONGODB" /\ c.place = m.place /\ c.key = FALSE
          /\ c.password = m.password /\ c.ssl = m.ssl /\ c.auth = m.auth
      BY ONLY <2>3 DEF D!InMemory
    <3> QED BY <2>2, <3>1
  <2>5. /\ Wanted[a.place].tenant = tenant /\ Wanted[a.place].config = n
        /\ Wanted[a.place].tls = IF a.tls \/ a.uri.tls THEN "on" ELSE "off"
        /\ {a.tls, a.skip, a.uri.tls, a.uri.insecure} \subseteq BOOLEAN
        /\ a.tls => a.auth # "" \/ a.uri.auth = ""
        /\ Accounts[a.place].auth = UsersAt(a, IF a.auth # "" THEN a.auth ELSE a.uri.auth, "own")
    <3>1. PICK tls : tls = IF a.tls \/ a.uri.tls THEN "on" ELSE "off"
      OBVIOUS
    <3>2. /\ Owns(a.place, tenant, n, tls)
          /\ {a.tls, a.skip, a.uri.tls, a.uri.insecure} \subseteq BOOLEAN
          /\ a.tls => a.auth # "" \/ a.uri.auth = ""
          /\ Accounts[a.place].auth = UsersAt(a, IF a.auth # "" THEN a.auth ELSE a.uri.auth, "own")
      BY <1>4, <3>1 DEF AnswerAsOwned
    <3>3. Wanted[a.place].tenant = tenant /\ Wanted[a.place].config = n /\ Wanted[a.place].tls = tls
      <4>1. Owns(a.place, tenant, n, tls)
        BY <3>2
      <4> QED BY ONLY <4>1, OwnsFields
    <3> QED BY <3>1, <3>2, <3>3
  <2>6. Encryption(D!MongoSSL(a)) = IF a.tls \/ a.uri.tls THEN "on" ELSE "off"
    BY <2>5 DEF Encryption, D!MongoSSL
  <2>7. D!ResolvePassword(c) = a.password
    BY <2>4 DEF D!ResolvePassword
  <2>8. UsersAt(c, c.auth, "own") = Accounts[a.place].auth
    BY <1>4, <2>0, <2>4, <2>5 DEF UsersAt
  <2>9. /\ Wanted[c.place].tenant = tenant /\ Wanted[c.place].config = n
        /\ Wanted[c.place].tls = Encryption(c.ssl)
    BY ONLY <2>4, <2>5, <2>6
  <2>10. /\ D!ResolvePassword(c) = Accounts[c.place].password
         /\ Accounts[c.place].auth = UsersAt(c, c.auth, IF c.key THEN "admin" ELSE "own")
    BY ONLY <1>1, <2>4, <2>7, <2>8
  <2> QED BY ONLY <2>4, <2>9, <2>10 DEF DescribesPlace
<1> QED BY <1>2, <1>3, <1>4

LEMMA TenantDescribes ==
    ASSUME NEW d, NEW tenant, d.mode # "single", AsOwned(d, tenant), NEW n \in DOMAIN D!Registry,
           NEW c, c = D!ResolveInternalConnection(d, tenant, n), c # Failed
    PROVE  DescribesPlace(c, tenant, n) /\ c.config = n
<1>1. PICK service, module, got :
        /\ service = D!Registry[n].service /\ module = D!Registry[n].module
        /\ got = D!GetServiceConnection(d, tenant, service, module)
  OBVIOUS
<1>2. /\ tenant # D!NoTenant /\ got # Failed
      /\ c = D!InMemory(n, D!Registry[n].type, got)
  BY <1>1 DEF D!ResolveInternalConnection
<1>3. service \in DOMAIN d.tenants[tenant] /\ module \in DOMAIN d.tenants[tenant][service]
  BY <1>1, <1>2 DEF D!GetServiceConnection
<1>4. PICK a : a = d.tenants[tenant][service][module]
  OBVIOUS
<1>5. AnswerAsOwned(a, tenant, n)
  BY <1>1, <1>2, <1>3, <1>4 DEF AsOwned
<1>6. a.type \in {"POSTGRESQL", "MONGODB"}
  <2>1. a.type = D!Registry[n].type
    BY <1>5 DEF AnswerAsOwned
  <2> QED BY <2>1 DEF D!Registry
<1>7. got = IF a.type = "POSTGRESQL" THEN a ELSE D!BuildMongoServiceConfig(a)
  BY <1>1, <1>2, <1>3, <1>4, <1>6 DEF D!GetServiceConnection
<1>8. c = D!InMemory(n, D!Registry[n].type,
                     IF a.type = "POSTGRESQL" THEN a ELSE D!BuildMongoServiceConfig(a))
  BY <1>2, <1>7
<1> QED BY <1>5, <1>8, AnswerDescribes

(* Whatever the resolver: a connection resolved for a name describes the     *)
(* tenant's place of that name.                                             *)
LEMMA ResolvedDescribes ==
    ASSUME NEW d, NEW tenant, NEW names, AsOwned(d, tenant), DOMAIN d.env \subseteq Nat,
           D!ResolveConnections(d, tenant, names) # Failed,
           NEW c \in D!ResolveConnections(d, tenant, names)
    PROVE  DescribesPlace(c, tenant, c.config)
<1>1. PICK internal : internal = {n \in names : D!IsInternal(n)}
  OBVIOUS
<1>2. ASSUME c \in D!FindByConfigNames(d, tenant, names \ internal)
      PROVE  DescribesPlace(c, tenant, c.config)
  <2>1. PICK i \in DOMAIN d.stored[tenant] : c = d.stored[tenant][i] /\ c.config \in names \ internal
    BY <1>2 DEF D!FindByConfigNames
  <2>2. ~D!IsInternal(c.config)
    BY <1>1, <2>1
  <2>3. StoredAsOwned(c, tenant)
    BY <2>1, <2>2 DEF AsOwned
  <2> QED BY <2>3, StoredDescribes
<1>3. CASE d.mode = "single"
  <2>1. tenant = D!NoTenant /\ \A i \in DOMAIN d.env : FirstOfName(d.env, i) => EntryAsOwned(d.env[i])
    BY <1>3 DEF AsOwned
  <2>2. PICK env : env = D!LoadInternalConnectionsFromEnv(d.env)
    OBVIOUS
  <2>3. /\ internal \subseteq DOMAIN env
        /\ c \in {env[n] : n \in internal} \cup D!FindByConfigNames(d, D!NoTenant, names \ internal)
    BY <1>1, <1>3, <2>2 DEF D!ResolveConnections, D!ResolveSingle
  <2>4. ASSUME NEW n \in internal, c = env[n] PROVE DescribesPlace(c, tenant, c.config)
    BY <2>1, <2>2, <2>3, <2>4, EnvironmentDescribes
  <2> QED BY <1>2, <2>1, <2>3, <2>4
<1>4. CASE d.mode # "single"
  <2>1. c \in {D!ResolveInternalConnection(d, tenant, n) : n \in internal}
                \cup D!FindByConfigNames(d, tenant, names \ internal)
        /\ \A n \in internal : D!ResolveInternalConnection(d, tenant, n) # Failed
    BY <1>1, <1>4 DEF D!ResolveConnections, D!ResolveMulti
  <2>2. ASSUME NEW n \in internal, c = D!ResolveInternalConnection(d, tenant, n)
        PROVE  DescribesPlace(c, tenant, c.config)
    <3>1. n \in DOMAIN D!Registry /\ c # Failed
      BY <1>1, <2>1, <2>2 DEF D!IsInternal
    <3>2. DescribesPlace(c, tenant, n) /\ c.config = n
      BY <1>4, <2>2, <3>1, TenantDescribes
    <3> QED BY <3>2
  <2> QED BY <1>2, <2>1, <2>2
<1> QED BY <1>3, <1>4


-----------------------------------------------------------------------------
(* The request and its connection. *)

RequestFields == {"deployment", "tenant", "config", "others", "tables", "filters",
                  "overrides", "keys", "origin"}

(* A request keeps its deployment and its tenant. *)
FromRequests ==
    /\ DOMAIN request = RequestFields
    /\ \E r \in Requests : request.deployment = r.deployment /\ request.tenant = r.tenant

Connected == {"found", "claimed", "mapped", "planned", "done", "failed"}

(* The connection in use is one that was resolved for the request's own      *)
(* name, under the request as it still is.                                  *)
ConnResolved ==
    phase \in Connected => /\ Resolved # Failed /\ conn \in Resolved
                           /\ conn.config = request.config

(* Nothing is dialed before a request is made. *)
BrowsesUndialed == phase = "browsing" => dials = {}

DialInv == FromRequests /\ ConnResolved /\ BrowsesUndialed /\ DialsAsConfigured

LEMMA ConfiguredIsRight ==
    DialsAsConfigured <=> \A d \in dials : RightDial(d, request.tenant, request.config)
BY DEF DialsAsConfigured, RightDial

(* Resolve finds the connection that Found speaks of. *)
LEMMA ResolveFinds ==
    ASSUME Found, Resolve
    PROVE  Resolved # Failed /\ conn' \in Resolved /\ conn'.config = request.config
<1>1. Resolved # Failed /\ \E c \in Resolved : c.config = request.config
  BY DEF Found
<1>2. PICK S, g : S = Resolved /\ g = request.config
  OBVIOUS
<1>3. conn' = CHOOSE c \in S : c.config = g
  BY <1>2 DEF Resolve
<1>4. \E c \in S : c.config = g
  BY <1>1, <1>2
<1>5. conn' \in S /\ conn'.config = g
  BY <1>3, <1>4
<1> QED BY <1>1, <1>2, <1>5

LEMMA ServedWell ==
    ASSUME NEW r \in Requests, NEW d, d = Deployments[r.deployment]
    PROVE  /\ DOMAIN d.env \subseteq Nat
           /\ AsOwned(d, r.tenant) /\ StoredApart(d.stored[r.tenant], r.tenant)
<1>1. PICK s : s = [deployment |-> r.deployment, tenant |-> r.tenant]
  OBVIOUS
<1>2. s \in Served /\ s.deployment = r.deployment /\ s.tenant = r.tenant
  BY <1>1 DEF Served
<1>3. LET e == Deployments[s.deployment]
      IN /\ DOMAIN e.env \subseteq Nat
         /\ AsOwned(e, s.tenant) /\ StoredApart(e.stored[s.tenant], s.tenant)
  BY <1>2, DeploymentsAssumption
<1> QED BY <1>2, <1>3

(* What is dialed with the connection in use is right. *)
LEMMA DialedIsRight ==
    ASSUME DialInv, phase \in Connected, NEW by, Dialed(by) # Failed
    PROVE  RightDial(Dialed(by), request.tenant, request.config)
<1>1. PICK r \in Requests : request.deployment = r.deployment /\ request.tenant = r.tenant
  BY DEF DialInv, FromRequests
<1>2. AsOwned(deployment, request.tenant) /\ DOMAIN deployment.env \subseteq Nat
  BY <1>1, ServedWell DEF deployment
<1>3. Resolved # Failed /\ conn \in Resolved /\ conn.config = request.config
  BY DEF DialInv, ConnResolved
<1>4. DescribesPlace(conn, request.tenant, request.config)
  BY <1>2, <1>3, ResolvedDescribes DEF Resolved
<1> QED BY <1>4, DialOfDescription DEF Dialed

LEMMA DialsKeptRight ==
    ASSUME DialInv, phase \in Connected, NEW by, Dials(by), request' = request
    PROVE  DialsAsConfigured'
<1>1. \A d \in dials : RightDial(d, request.tenant, request.config)
  BY ConfiguredIsRight DEF DialInv
<1>2. \A d \in dials' : RightDial(d, request.tenant, request.config)
  BY <1>1, DialedIsRight DEF Dials
<1> QED BY <1>2 DEF DialsAsConfigured, RightDial

LEMMA DialInit == Init => DialInv
BY RequestsAssumption
   DEF Init, DialInv, FromRequests, ConnResolved, Connected, BrowsesUndialed, DialsAsConfigured, RequestFields

LEMMA SameRequest ==
    ASSUME request' = request
    PROVE  /\ FromRequests' = FromRequests /\ Resolved' = Resolved
           /\ dials' = dials => DialsAsConfigured' = DialsAsConfigured
BY DEF FromRequests, Resolved, deployment, Names, DialsAsConfigured

LEMMA DialStep == DialInv /\ [Next]_vars => DialInv'
<1> SUFFICES ASSUME DialInv, [Next]_vars PROVE DialInv'
  OBVIOUS
<1> USE DEF DialInv
<1>1. CASE ManagerResolves
  BY <1>1, ResolveFinds, SameRequest
     DEF ManagerResolves, ConnResolved, Connected, BrowsesUndialed
<1>2. CASE ValidateSchema
  BY <1>2, DialsKeptRight, SameRequest
     DEF ValidateSchema, ConnResolved, Connected, BrowsesUndialed
<1>3. CASE WorkerResolves
  BY <1>3, ResolveFinds, SameRequest
     DEF WorkerResolves, ConnResolved, Connected, BrowsesUndialed
<1>4. CASE MapJob
  BY <1>4, SameRequest DEF MapJob, ConnResolved, Connected, BrowsesUndialed
<1>5. CASE PlanExtraction
  <2>1. phase = "mapped" /\ request' = request /\ conn' = conn
        /\ (dials' = dials \/ Dials("worker")) /\ phase' \in {"rejected", "planned"}
    BY <1>5 DEF PlanExtraction
  <2>2. DialsAsConfigured'
    BY <2>1, DialsKeptRight, SameRequest DEF Connected
  <2> QED BY <2>1, <2>2, SameRequest DEF ConnResolved, Connected, BrowsesUndialed
<1>6. CASE ExtractCRM
  <2>1. phase = "claimed" /\ request' = request /\ conn' = conn
        /\ Dials("worker") /\ phase' \in {"failed", "done"}
    BY <1>6 DEF ExtractCRM
  <2>2. DialsAsConfigured'
    BY <2>1, DialsKeptRight DEF Connected
  <2> QED BY <2>1, <2>2, SameRequest DEF ConnResolved, Connected, BrowsesUndialed
<1>7. ASSUME NEW page \in 1..2, NEW only \in {"", "POSTGRESQL"}, List(page, only)
      PROVE  DialInv'
  <2>1. phase' = phase /\ request' = request /\ conn' = conn /\ dials' = dials
    BY <1>7 DEF List
  <2> QED BY <2>1, SameRequest DEF ConnResolved, BrowsesUndialed
<1>8. ASSUME NEW id \in browse.ids, Show(id) \/ GetConnectionSchema(id)
      PROVE  DialInv'
  <2>1. phase' = phase /\ request' = request /\ conn' = conn /\ dials' = dials
    BY <1>8 DEF Show, GetConnectionSchema
  <2> QED BY <2>1, SameRequest DEF ConnResolved, BrowsesUndialed
<1>9. ASSUME NEW t \in DOMAIN browse.tables, NEW f \in browse.tables[t], Submit(t, f)
      PROVE  DialInv'
  <2>1. phase' = "received" /\ dials' = {}
    BY <1>9 DEF Submit, BrowsesUndialed
  <2>2. FromRequests'
    <3>1. PICK r \in Requests : request.deployment = r.deployment /\ request.tenant = r.tenant
      BY DEF FromRequests
    <3>2. DOMAIN request = RequestFields
      BY DEF FromRequests
    <3>3. PICK config, tables, origin :
            request' = [request EXCEPT !.config = config, !.tables = tables, !.origin = origin]
      BY <1>9 DEF Submit
    <3>4. DOMAIN request' = DOMAIN request
      BY <3>3
    <3>5. request'.deployment = request.deployment /\ request'.tenant = request.tenant
      BY <3>2, <3>3 DEF RequestFields
    <3> QED BY <3>1, <3>2, <3>4, <3>5 DEF FromRequests
  <2> QED BY <2>1, <2>2 DEF ConnResolved, Connected, BrowsesUndialed, DialsAsConfigured
<1>10. ASSUME NEW t \in DOMAIN job.selection, QueryTable(t) \/ QueryFails(t) \/ QueryCut(t)
       PROVE  DialInv'
  <2>1. phase = "planned" /\ request' = request /\ conn' = conn /\ dials' = dials
        /\ phase' \in {"failed", "done", "planned"}
    BY <1>10 DEF QueryTable, QueryFails, QueryCut, Record, Abandon
  <2> QED BY <2>1, SameRequest DEF ConnResolved, Connected, BrowsesUndialed
<1>11. CASE UNCHANGED vars
  <2>1. phase' = phase /\ request' = request /\ conn' = conn /\ dials' = dials
    BY <1>11 DEF vars
  <2> QED BY <2>1, SameRequest DEF ConnResolved, BrowsesUndialed
<1> QED BY <1>1, <1>2, <1>3, <1>4, <1>5, <1>6, <1>7, <1>8, <1>9, <1>10, <1>11 DEF Next

(* In every deployment set up as it means to be, what is dialed for a        *)
(* request, by the Manager or the Worker, is the database of its own tenant *)
(* and datasource with that account and encryption: the resolvers never mix *)
(* up entries, tenants, services and modules, nor a stored connection and   *)
(* one of the platform (NewDataSourceFromConnection of what                 *)
(* ResolveConnections found).                                               *)
THEOREM EveryDialIsRight == Spec => []DialsAsConfigured
<1>1. DialInv => DialsAsConfigured
  BY DEF DialInv
<1> QED BY <1>1, DialInit, DialStep, PTL DEF Spec

-----------------------------------------------------------------------------
(* Clauses and conditions.  The SQL drivers build the same clauses, each in  *)
(* its own code, and the model of a database evaluates them alike: what is  *)
(* said below of PostgreSQL's clauses holds for all four.                   *)

LEMMA SatisfiesIn ==
    ASSUME NEW r, NEW f, NEW A
    PROVE  Satisfies(r, InClause(f, A)) <=> r[f] # Null /\ \E x \in A : Same(r[f], x)
<1>1. PICK w : w = InClause(f, A)
  OBVIOUS
<1>2. w.field = f /\ w.op = "in" /\ w.args = A
  BY <1>1 DEF InClause
<1>3. Satisfies(r, w) <=> r[f] # Null /\ \E x \in A : Same(r[f], x)
  BY <1>2, Zenon DEF Satisfies
<1> QED BY <1>1, <1>3

LEMMA SatisfiesNotIn ==
    ASSUME NEW r, NEW f, NEW A
    PROVE  Satisfies(r, NotInClause(f, A)) <=> r[f] # Null /\ \A x \in A : ~Same(r[f], x)
<1>1. PICK w : w = NotInClause(f, A)
  OBVIOUS
<1>2. w.field = f /\ w.op = "nin" /\ w.args = A
  BY <1>1 DEF NotInClause
<1>3. Satisfies(r, w) <=> r[f] # Null /\ \A x \in A : ~Same(r[f], x)
  BY <1>2, Zenon DEF Satisfies
<1> QED BY <1>1, <1>3

LEMMA SatisfiesLike ==
    ASSUME NEW r, NEW f, NEW p
    PROVE  Satisfies(r, LikeClause(f, p)) <=> r[f] # Null /\ Matches(r[f], p)
<1>1. PICK w : w = LikeClause(f, p)
  OBVIOUS
<1>2. w.field = f /\ w.op = "like" /\ w.args = {p}
  BY <1>1 DEF LikeClause
<1>3. Satisfies(r, w) <=> r[f] # Null /\ \A x \in {p} : Matches(r[f], x)
  BY <1>2, Zenon DEF Satisfies
<1> QED BY <1>1, <1>3, Zenon

LEMMA SatisfiesCompare ==
    ASSUME NEW r, NEW f, NEW op \in Comparisons, NEW y
    PROVE  Satisfies(r, CompareClause(f, op, y)) <=> r[f] # Null /\ Stands(r[f], op, y)
<1>1. PICK w : w = CompareClause(f, op, y)
  OBVIOUS
<1>2. w.field = f /\ w.op = op /\ w.args = {y}
  BY <1>1 DEF CompareClause
<1>3. op # "in" /\ op # "nin" /\ op # "like"
  BY DEF Comparisons
<1>4. Satisfies(r, w) <=> r[f] # Null /\ \A x \in {y} : Stands(r[f], op, x)
  BY <1>2, <1>3, Zenon DEF Satisfies
<1> QED BY <1>1, <1>4, Zenon

LEMMA StandsGte == ASSUME NEW a, NEW b PROVE Stands(a, "gte", b) <=> Comparable(a, b) /\ At(a) >= At(b)
BY Zenon DEF Stands

LEMMA StandsLte == ASSUME NEW a, NEW b PROVE Stands(a, "lte", b) <=> Comparable(a, b) /\ At(a) <= At(b)
BY Zenon DEF Stands

LEMMA ValueMade ==
    ASSUME NEW k \in Kinds, NEW i \in Int
    PROVE  V(k, i) \in Value /\ V(k, i).kind = k /\ V(k, i).at = i
BY DEF V, Value

(* The end of a range: the driver moves a day to its last moment when both  *)
(* ends are texts of dates, and a range that starts otherwise has no moment. *)
LEMMA EndsAlike ==
    ASSUME NEW v \in Value, NEW a \in Value, NEW b \in Value, NEW f, a.kind # "time",
           Stands(v, "gte", a)
    PROVE  Stands(v, "lte", PG!AdjustEndDateIfNeeded(f, a, b))
             <=> Stands(v, "lte", EndOf(b, Upper[f] = "CREATED_AT"))
<1>1. PICK dated \in BOOLEAN : dated = (Upper[f] = "CREATED_AT")
  OBVIOUS
<1>2. PICK moved \in Value : moved = V("instant", 2 * b.at + 1)
  <2>1. b.at \in Int
    BY DEF Value
  <2>2. 2 * b.at + 1 \in Int
    BY <2>1
  <2>3. PICK i \in Int : i = 2 * b.at + 1
    BY <2>2
  <2>4. V("instant", i) \in Value
    BY ValueMade DEF Kinds
  <2> QED BY <2>3, <2>4
<1>3. /\ EndOf(b, dated) = IF dated /\ b.kind = "day" THEN moved ELSE b
      /\ PG!AdjustEndDateIfNeeded(f, a, b)
           = IF dated /\ a.kind \in {"day", "instant"} /\ b.kind = "day" THEN moved ELSE b
  BY <1>1, <1>2 DEF EndOf, PG!AdjustEndDateIfNeeded, PG!IsDateField, PG!IsDateString, V, PG!V
<1>4. CASE ~dated \/ a.kind \in {"day", "instant"} \/ b.kind # "day"
  BY <1>1, <1>3, <1>4
<1>5. CASE a.kind \notin {"day", "instant"} /\ b.kind = "day"
  <2>1. v.kind = a.kind /\ a.kind \notin Moments
    BY <1>5, StandsGte DEF Comparable, Moments
  <2>2. ~Comparable(v, b) /\ ~Comparable(v, moved)
    BY <1>2, <1>5, <2>1 DEF Comparable, Moments, V
  <2>3. ~Stands(v, "lte", b) /\ ~Stands(v, "lte", moved)
    BY <2>2, StandsLte
  <2> QED BY <1>1, <1>3, <2>3
<1> QED BY <1>4, <1>5

LEMMA SameSymbols ==
    /\ PG!Strings = Strings /\ PG!Comparisons = Comparisons /\ PG!Operators = Operators
    /\ \A f : PG!Range(f) = Range(f)
    /\ \A f, A : PG!InClause(f, A) = InClause(f, A) /\ PG!NotInClause(f, A) = NotInClause(f, A)
    /\ \A f, p : PG!LikeClause(f, p) = LikeClause(f, p)
    /\ \A f, op, y : PG!CompareClause(f, op, y) = CompareClause(f, op, y)
BY DEF PG!Strings, Strings, PG!Comparisons, Comparisons, PG!Operators, Operators, PG!Range, Range,
   PG!InClause, InClause, PG!NotInClause, NotInClause, PG!LikeClause, LikeClause,
   PG!CompareClause, CompareClause

LEMMA RangeOfOne ==
    ASSUME NEW S, NEW s \in Seq(S), Len(s) \in {0, 1}, s # <<>>
    PROVE  Range(s) = {s[1]}
BY DEF Range

LEMMA AtMostOne ==
    ASSUME NEW S, NEW s \in Seq(S), Len(s) <= 1
    PROVE  Len(s) \in {0, 1}
<1>1. PICK n \in Nat : n = Len(s)
  OBVIOUS
<1>2. n <= 1
  BY <1>1
<1>3. n = 0 \/ n = 1
  BY <1>2
<1> QED BY <1>1, <1>3

LEMMA EmptyRange == Range(<<>>) = {}
BY DEF Range

(* A row satisfies the clauses of a condition on one of its columns just     *)
(* when its value meets the condition.                                      *)
LEMMA ClausesMeet ==
    ASSUME NEW r, NEW f, NEW c, IsCondition(c), r[f] \in Value, r[f] # Null,
           PG!ValidateFilterCondition(f, c),
           Len(c.like) <= 1, \A x \in Range(c.like) : x.kind \in Strings
    PROVE  (\A w \in PG!ApplyAdvancedFilter(f, c) : Satisfies(r, w))
             <=> Meets(r[f], c, Upper[f] = "CREATED_AT")
<1>1. PICK v \in Value : v = r[f]
  OBVIOUS
<1>2. \A op \in Operators : c[op] \in Seq(Value)
  BY DEF IsCondition
<1> DEFINE All(W) == \A w \in W : Satisfies(r, w)
<1>3. All(PG!ApplyEqualsFilter(f, c)) <=> (c.eq # <<>> => \E x \in Range(c.eq) : Same(v, x))
  BY <1>1, SameSymbols, SatisfiesIn, Zenon DEF PG!ApplyEqualsFilter
<1>4. All(PG!ApplyComparisonFilters(f, c))
        <=> \A op \in Comparisons : \A x \in Range(c[op]) : Stands(v, op, x)
  <2>1. \A op \in Comparisons : c[op] \in Seq(Value) /\ Len(c[op]) \in {0, 1}
    BY <1>2, SameSymbols DEF PG!ValidateFilterCondition, Comparisons, Operators
  <2>2. ASSUME NEW op \in Comparisons, c[op] # <<>>
        PROVE  Range(c[op]) = {c[op][1]}
    BY <2>1, <2>2, RangeOfOne
  <2>3. ASSUME NEW op \in Comparisons, c[op] = <<>>
        PROVE  Range(c[op]) = {}
    BY <2>3, EmptyRange
  <2>4. All(PG!ApplyComparisonFilters(f, c))
          <=> \A op \in Comparisons : c[op] # <<>> => Satisfies(r, CompareClause(f, op, c[op][1]))
    BY SameSymbols, Zenon DEF PG!ApplyComparisonFilters
  <2>5. All(PG!ApplyComparisonFilters(f, c))
          <=> \A op \in Comparisons : c[op] # <<>> => Stands(v, op, c[op][1])
    BY <1>1, <2>4, SatisfiesCompare
  <2> HIDE DEF All
  <2> QED BY <2>2, <2>3, <2>5
<1>5. All(PG!ApplyBetweenFilter(f, c))
        <=> (c.between # <<>> => /\ Stands(v, "gte", c.between[1])
                                 /\ Stands(v, "lte", EndOf(c.between[2], Upper[f] = "CREATED_AT")))
  <2>1. c.between \in Seq(Value) /\ Len(c.between) \in {0, 2}
    BY <1>2 DEF PG!ValidateFilterCondition, Operators
  <2>2. CASE c.between = <<>>
    <3>1. PG!ApplyBetweenFilter(f, c) = {}
      BY <2>2 DEF PG!ApplyBetweenFilter
    <3> QED BY <2>2, <3>1
  <2>3. CASE c.between # <<>>
    <3>1. PICK a, b : a = c.between[1] /\ b = c.between[2]
      OBVIOUS
    <3>2. Len(c.between) = 2 /\ a \in Value /\ b \in Value /\ a \in Range(c.between)
      BY <2>1, <2>3, <3>1 DEF Range
    <3>3. a.kind # "time"
      BY <3>2 DEF IsCondition, Operators
    <3>4. PG!ApplyBetweenFilter(f, c)
            = {CompareClause(f, "gte", a), CompareClause(f, "lte", PG!AdjustEndDateIfNeeded(f, a, b))}
      BY <3>1, <3>2, SameSymbols DEF PG!ApplyBetweenFilter
    <3>5. All(PG!ApplyBetweenFilter(f, c))
            <=> Stands(v, "gte", a) /\ Stands(v, "lte", PG!AdjustEndDateIfNeeded(f, a, b))
      <4>1. "gte" \in Comparisons /\ "lte" \in Comparisons
        BY DEF Comparisons
      <4>2. Satisfies(r, CompareClause(f, "gte", a)) <=> Stands(v, "gte", a)
        BY <1>1, <4>1, SatisfiesCompare
      <4>3. PICK e : e = PG!AdjustEndDateIfNeeded(f, a, b)
        OBVIOUS
      <4>4. Satisfies(r, CompareClause(f, "lte", e)) <=> Stands(v, "lte", e)
        BY <1>1, <4>1, SatisfiesCompare
      <4> QED BY <3>4, <4>2, <4>3, <4>4, Zenon
    <3> HIDE DEF All
    <3> QED BY <2>3, <3>1, <3>2, <3>3, <3>5, EndsAlike
  <2> QED BY <2>2, <2>3
<1>6. All(PG!ApplyInFilters(f, c))
        <=> /\ c.in # <<>> => \E x \in Range(c.in) : Same(v, x)
            /\ \A x \in Range(c.nin) : ~Same(v, x)
  <2>1. c.nin = <<>> => Range(c.nin) = {}
    BY EmptyRange
  <2>2. All(PG!ApplyInFilters(f, c))
          <=> /\ c.in # <<>> => Satisfies(r, InClause(f, Range(c.in)))
              /\ c.nin # <<>> => Satisfies(r, NotInClause(f, Range(c.nin)))
    BY SameSymbols, Zenon DEF PG!ApplyInFilters
  <2> HIDE DEF All
  <2> QED BY <1>1, <2>1, <2>2, SatisfiesIn, SatisfiesNotIn, Zenon
<1>7. All(PG!ApplyNotEqualsFilter(f, c)) <=> \A x \in Range(c.ne) : ~Same(v, x)
  <2>1. All(PG!ApplyNotEqualsFilter(f, c)) <=> \A x \in Range(c.ne) : Satisfies(r, NotInClause(f, {x}))
    BY SameSymbols, Zenon DEF PG!ApplyNotEqualsFilter
  <2>2. ASSUME NEW x \in Range(c.ne) PROVE Satisfies(r, NotInClause(f, {x})) <=> ~Same(v, x)
    <3>1. Satisfies(r, NotInClause(f, {x})) <=> r[f] # Null /\ \A y \in {x} : ~Same(r[f], y)
      BY SatisfiesNotIn
    <3> QED BY <1>1, <3>1, Zenon
  <2> HIDE DEF All
  <2> QED BY <2>1, <2>2, Zenon
<1>8. All(PG!ApplyLikeFilter(f, c)) <=> \A x \in Range(c.like) : Matches(v, x)
  <2>0. c.like \in Seq(Value)
    BY <1>2 DEF Operators
  <2>1. Len(c.like) \in {0, 1}
    BY <2>0, AtMostOne
  <2>2. CASE c.like = <<>>
    <3>1. PG!ApplyLikeFilter(f, c) = {} /\ Range(c.like) = {}
      BY <2>2, EmptyRange DEF PG!ApplyLikeFilter
    <3> QED BY <3>1, Zenon
  <2>3. CASE c.like # <<>>
    <3>1. PICK p : p = c.like[1]
      OBVIOUS
    <3>2. Range(c.like) = {p}
      BY <2>0, <2>1, <2>3, <3>1, RangeOfOne
    <3>3. p.kind \in Strings
      BY <3>2
    <3>4. PG!ApplyLikeFilter(f, c) = {LikeClause(f, p)}
      BY <2>3, <3>1, <3>3, SameSymbols DEF PG!ApplyLikeFilter
    <3>5. Satisfies(r, LikeClause(f, p)) <=> Matches(v, p)
      BY <1>1, SatisfiesLike, Zenon
    <3> QED BY <3>2, <3>4, <3>5, Zenon
  <2> QED BY <2>2, <2>3
<1>9. All(PG!ApplyAdvancedFilter(f, c))
        <=> /\ All(PG!ApplyEqualsFilter(f, c)) /\ All(PG!ApplyComparisonFilters(f, c))
            /\ All(PG!ApplyBetweenFilter(f, c)) /\ All(PG!ApplyInFilters(f, c))
            /\ All(PG!ApplyNotEqualsFilter(f, c)) /\ All(PG!ApplyLikeFilter(f, c))
  BY Zenon DEF PG!ApplyAdvancedFilter
<1>10. Meets(v, c, Upper[f] = "CREATED_AT")
        <=> /\ All(PG!ApplyEqualsFilter(f, c)) /\ All(PG!ApplyComparisonFilters(f, c))
            /\ All(PG!ApplyBetweenFilter(f, c)) /\ All(PG!ApplyInFilters(f, c))
            /\ All(PG!ApplyNotEqualsFilter(f, c)) /\ All(PG!ApplyLikeFilter(f, c))
  <2> HIDE DEF All
  <2> QED BY <1>3, <1>4, <1>5, <1>6, <1>7, <1>8, Zenon DEF Meets
<1> QED BY <1>1, <1>9, <1>10

-----------------------------------------------------------------------------
(* The drivers' own copies of the operators they share. *)

LEMMA PostgresEvaluates ==
    /\ \A r, w : PG!Satisfies(r, w) = Satisfies(r, w)
    /\ \A fields, rows, where : PG!Select(fields, rows, where) = Select(fields, rows, where)
<1>1. ASSUME NEW v, NEW x PROVE PG!Matches(v, x) = Matches(v, x)
  BY DEF PG!Matches, Matches, PG!Like, Like, PG!Cuts, Cuts
<1>2. ASSUME NEW a, NEW b PROVE PG!Comparable(a, b) = Comparable(a, b) /\ PG!At(a) = At(a)
  BY DEF PG!Comparable, Comparable, PG!At, At, PG!Moments, Moments
<1>3. ASSUME NEW a, NEW b PROVE PG!Same(a, b) = Same(a, b)
  BY <1>2 DEF PG!Same, Same
<1>4. ASSUME NEW a, NEW op, NEW b PROVE PG!Stands(a, op, b) = Stands(a, op, b)
  BY Zenon DEF PG!Stands, Stands, PG!Comparable, Comparable, PG!At, At, PG!Moments, Moments
<1>5. ASSUME NEW r, NEW w PROVE PG!Satisfies(r, w) = Satisfies(r, w)
  BY <1>1, <1>3, <1>4 DEF PG!Satisfies, Satisfies, PG!Null, Null, PG!V, V
<1>6. ASSUME NEW fields, NEW rows, NEW where
      PROVE  PG!Select(fields, rows, where) = Select(fields, rows, where)
  BY <1>5 DEF PG!Select, Select
<1> QED BY <1>5, <1>6

LEMMA MySQLEvaluates ==
    /\ \A r, w : MY!Satisfies(r, w) = Satisfies(r, w)
    /\ \A fields, rows, where : MY!Select(fields, rows, where) = Select(fields, rows, where)
<1>1. ASSUME NEW v, NEW x PROVE MY!Matches(v, x) = Matches(v, x)
  BY DEF MY!Matches, Matches, MY!Like, Like, MY!Cuts, Cuts
<1>2. ASSUME NEW a, NEW b PROVE MY!Comparable(a, b) = Comparable(a, b) /\ MY!At(a) = At(a)
  BY DEF MY!Comparable, Comparable, MY!At, At, MY!Moments, Moments
<1>3. ASSUME NEW a, NEW b PROVE MY!Same(a, b) = Same(a, b)
  BY <1>2 DEF MY!Same, Same
<1>4. ASSUME NEW a, NEW op, NEW b PROVE MY!Stands(a, op, b) = Stands(a, op, b)
  BY Zenon DEF MY!Stands, Stands, MY!Comparable, Comparable, MY!At, At, MY!Moments, Moments
<1>5. ASSUME NEW r, NEW w PROVE MY!Satisfies(r, w) = Satisfies(r, w)
  BY <1>1, <1>3, <1>4 DEF MY!Satisfies, Satisfies, MY!Null, Null, MY!V, V
<1>6. ASSUME NEW fields, NEW rows, NEW where
      PROVE  MY!Select(fields, rows, where) = Select(fields, rows, where)
  BY <1>5 DEF MY!Select, Select
<1> QED BY <1>5, <1>6

LEMMA OracleEvaluates ==
    /\ \A r, w : OR!Satisfies(r, w) = Satisfies(r, w)
    /\ \A fields, rows, where : OR!Select(fields, rows, where) = Select(fields, rows, where)
<1>1. ASSUME NEW v, NEW x PROVE OR!Matches(v, x) = Matches(v, x)
  BY DEF OR!Matches, Matches, OR!Like, Like, OR!Cuts, Cuts
<1>2. ASSUME NEW a, NEW b PROVE OR!Comparable(a, b) = Comparable(a, b) /\ OR!At(a) = At(a)
  BY DEF OR!Comparable, Comparable, OR!At, At, OR!Moments, Moments
<1>3. ASSUME NEW a, NEW b PROVE OR!Same(a, b) = Same(a, b)
  BY <1>2 DEF OR!Same, Same
<1>4. ASSUME NEW a, NEW op, NEW b PROVE OR!Stands(a, op, b) = Stands(a, op, b)
  BY Zenon DEF OR!Stands, Stands, OR!Comparable, Comparable, OR!At, At, OR!Moments, Moments
<1>5. ASSUME NEW r, NEW w PROVE OR!Satisfies(r, w) = Satisfies(r, w)
  BY <1>1, <1>3, <1>4 DEF OR!Satisfies, Satisfies, OR!Null, Null, OR!V, V
<1>6. ASSUME NEW fields, NEW rows, NEW where
      PROVE  OR!Select(fields, rows, where) = Select(fields, rows, where)
  BY <1>5 DEF OR!Select, Select
<1> QED BY <1>5, <1>6

LEMMA SQLServerEvaluates ==
    /\ \A r, w : MS!Satisfies(r, w) = Satisfies(r, w)
    /\ \A fields, rows, where : MS!Select(fields, rows, where) = Select(fields, rows, where)
<1>1. ASSUME NEW v, NEW x PROVE MS!Matches(v, x) = Matches(v, x)
  BY DEF MS!Matches, Matches, MS!Like, Like, MS!Cuts, Cuts
<1>2. ASSUME NEW a, NEW b PROVE MS!Comparable(a, b) = Comparable(a, b) /\ MS!At(a) = At(a)
  BY DEF MS!Comparable, Comparable, MS!At, At, MS!Moments, Moments
<1>3. ASSUME NEW a, NEW b PROVE MS!Same(a, b) = Same(a, b)
  BY <1>2 DEF MS!Same, Same
<1>4. ASSUME NEW a, NEW op, NEW b PROVE MS!Stands(a, op, b) = Stands(a, op, b)
  BY Zenon DEF MS!Stands, Stands, MS!Comparable, Comparable, MS!At, At, MS!Moments, Moments
<1>5. ASSUME NEW r, NEW w PROVE MS!Satisfies(r, w) = Satisfies(r, w)
  BY <1>1, <1>3, <1>4 DEF MS!Satisfies, Satisfies, MS!Null, Null, MS!V, V
<1>6. ASSUME NEW fields, NEW rows, NEW where
      PROVE  MS!Select(fields, rows, where) = Select(fields, rows, where)
  BY <1>5 DEF MS!Select, Select
<1> QED BY <1>5, <1>6

LEMMA MySQLBuildsAlike ==
    /\ \A c : MY!IsFilterConditionEmpty(c) = PG!IsFilterConditionEmpty(c)
    /\ \A f, c : MY!ValidateFilterCondition(f, c) = PG!ValidateFilterCondition(f, c)
    /\ \A f, c : MY!ApplyAdvancedFilter(f, c) = PG!ApplyAdvancedFilter(f, c)
BY Zenon DEF MY!IsFilterConditionEmpty, PG!IsFilterConditionEmpty, MY!IsLikelyUUIDField,
   PG!IsLikelyUUIDField, MY!ValidateUUIDFieldValues, PG!ValidateUUIDFieldValues,
   MY!ValidateFilterCondition, PG!ValidateFilterCondition, MY!IsDateField, PG!IsDateField,
   MY!IsDateString, PG!IsDateString, MY!AdjustEndDateIfNeeded, PG!AdjustEndDateIfNeeded,
   MY!ApplyEqualsFilter, PG!ApplyEqualsFilter, MY!ApplyComparisonFilters,
   PG!ApplyComparisonFilters, MY!ApplyBetweenFilter, PG!ApplyBetweenFilter, MY!ApplyInFilters,
   PG!ApplyInFilters, MY!ApplyNotEqualsFilter, PG!ApplyNotEqualsFilter, MY!ApplyLikeFilter,
   PG!ApplyLikeFilter, MY!ApplyAdvancedFilter, PG!ApplyAdvancedFilter, MY!InClause, PG!InClause,
   MY!NotInClause, PG!NotInClause, MY!CompareClause, PG!CompareClause, MY!LikeClause,
   PG!LikeClause, MY!V, PG!V, MY!Range, PG!Range, MY!Operators, PG!Operators, MY!Comparisons,
   PG!Comparisons, MY!Strings, PG!Strings

LEMMA OracleBuildsAlike ==
    /\ \A c : OR!IsFilterConditionEmpty(c) = PG!IsFilterConditionEmpty(c)
    /\ \A f, c : OR!ValidateFilterCondition(f, c) = PG!ValidateFilterCondition(f, c)
    /\ \A f, c : OR!ApplyAdvancedFilter(f, c) = PG!ApplyAdvancedFilter(f, c)
BY Zenon DEF OR!IsFilterConditionEmpty, PG!IsFilterConditionEmpty, OR!IsLikelyUUIDField,
   PG!IsLikelyUUIDField, OR!ValidateUUIDFieldValues, PG!ValidateUUIDFieldValues,
   OR!ValidateFilterCondition, PG!ValidateFilterCondition, OR!IsDateField, PG!IsDateField,
   OR!IsDateString, PG!IsDateString, OR!AdjustEndDateIfNeeded, PG!AdjustEndDateIfNeeded,
   OR!ApplyEqualsFilter, PG!ApplyEqualsFilter, OR!ApplyComparisonFilters,
   PG!ApplyComparisonFilters, OR!ApplyBetweenFilter, PG!ApplyBetweenFilter, OR!ApplyInFilters,
   PG!ApplyInFilters, OR!ApplyNotEqualsFilter, PG!ApplyNotEqualsFilter, OR!ApplyLikeFilter,
   PG!ApplyLikeFilter, OR!ApplyAdvancedFilter, PG!ApplyAdvancedFilter, OR!InClause, PG!InClause,
   OR!NotInClause, PG!NotInClause, OR!CompareClause, PG!CompareClause, OR!LikeClause,
   PG!LikeClause, OR!V, PG!V, OR!Range, PG!Range, OR!Operators, PG!Operators, OR!Comparisons,
   PG!Comparisons, OR!Strings, PG!Strings

LEMMA SQLServerBuildsAlike ==
    /\ \A c : MS!IsFilterConditionEmpty(c) = PG!IsFilterConditionEmpty(c)
    /\ \A f, c : MS!ValidateFilterCondition(f, c) = PG!ValidateFilterCondition(f, c)
    /\ \A f, c : MS!ApplyAdvancedFilter(f, c) = PG!ApplyAdvancedFilter(f, c)
BY Zenon DEF MS!IsFilterConditionEmpty, PG!IsFilterConditionEmpty, MS!IsLikelyUUIDField,
   PG!IsLikelyUUIDField, MS!ValidateUUIDFieldValues, PG!ValidateUUIDFieldValues,
   MS!ValidateFilterCondition, PG!ValidateFilterCondition, MS!IsDateField, PG!IsDateField,
   MS!IsDateString, PG!IsDateString, MS!AdjustEndDateIfNeeded, PG!AdjustEndDateIfNeeded,
   MS!ApplyEqualsFilter, PG!ApplyEqualsFilter, MS!ApplyComparisonFilters,
   PG!ApplyComparisonFilters, MS!ApplyBetweenFilter, PG!ApplyBetweenFilter, MS!ApplyInFilters,
   PG!ApplyInFilters, MS!ApplyNotEqualsFilter, PG!ApplyNotEqualsFilter, MS!ApplyLikeFilter,
   PG!ApplyLikeFilter, MS!ApplyAdvancedFilter, PG!ApplyAdvancedFilter, MS!InClause, PG!InClause,
   MS!NotInClause, PG!NotInClause, MS!CompareClause, PG!CompareClause, MS!LikeClause,
   PG!LikeClause, MS!V, PG!V, MS!Range, PG!Range, MS!Operators, PG!Operators, MS!Comparisons,
   PG!Comparisons, MS!Strings, PG!Strings
-----------------------------------------------------------------------------
(* What a SQL driver answers: the rows of the table that satisfy the clauses *)
(* of the conditions it applies.                                            *)

PostgresSchema(b, tables) == PG!GetDatabaseSchema(b, PG!EnsureDefaultSchemaIncluded(DOMAIN tables))

MySQLSchema(b, tables) == MY!GetDatabaseSchema(b)

OracleSchema(b, tables) == OR!GetDatabaseSchema(b, OR!GetUniqueSchemas(DOMAIN tables))

SQLServerSchema(b, tables) == MS!GetDatabaseSchema(b, MS!GetUniqueSchemas(DOMAIN tables))

LEMMA PostgresAnswer ==
    ASSUME NEW b, NEW tables, NEW filters, NEW n,
           NEW answer, answer = PG!Query(b, tables, filters, n), answer # Failed,
           NEW filter, filter = PG!GetTableFilters(filters, n),
           NEW applied, applied = PG!FilteredFields(PostgresSchema(b, tables), n, filter)
    PROVE  /\ answer.fields = PG!ValidateTableAndFields(PostgresSchema(b, tables), n, tables[n])
           /\ answer.fields # {}
           /\ \A f \in applied : PG!ValidateFilterCondition(f, filter[f])
           /\ \A r : r \in answer.rows <=>
                /\ r \in PG!RowsOf(b, n)
                /\ \A f \in applied : \A w \in PG!ApplyAdvancedFilter(f, filter[f]) : Satisfies(r, w)
<1>1. PICK schema, selected, rows :
        /\ schema = PostgresSchema(b, tables) /\ rows = PG!RowsOf(b, n)
        /\ selected = PG!ValidateTableAndFields(schema, n, tables[n])
  OBVIOUS
<1>2. PICK where : where = PG!BuildAdvancedFilters(schema, n, filter)
  OBVIOUS
<1>3. CASE DOMAIN filter = {}
  <2>1. applied = {}
    BY <1>3 DEF PG!FilteredFields
  <2>2. answer = IF selected = {} THEN Failed ELSE Select(selected, rows, {})
    BY <1>1, <1>3, PostgresEvaluates DEF PG!Query, PG!QueryAll, PostgresSchema
  <2>3. selected # {} /\ answer = Select(selected, rows, {})
    BY <2>2
  <2>4. answer.fields = selected /\ \A r : r \in answer.rows <=> r \in rows
    BY <2>3 DEF Select
  <2> QED BY <1>1, <2>1, <2>3, <2>4
<1>4. CASE DOMAIN filter # {}
  <2>1. answer = IF selected = {} \/ \E f \in applied : ~PG!ValidateFilterCondition(f, filter[f])
                 THEN Failed ELSE Select(selected, rows, where)
    BY <1>1, <1>2, <1>4, PostgresEvaluates
       DEF PG!Query, PG!QueryWithAdvancedFilters, PostgresSchema
  <2>2. /\ selected # {} /\ answer = Select(selected, rows, where)
        /\ \A f \in applied : PG!ValidateFilterCondition(f, filter[f])
    BY <2>1
  <2>3. answer.fields = selected
        /\ \A r : r \in answer.rows <=> r \in rows /\ \A w \in where : Satisfies(r, w)
    BY <2>2 DEF Select
  <2>4. where = UNION {PG!ApplyAdvancedFilter(f, filter[f]) : f \in applied}
    BY <1>1, <1>2 DEF PG!BuildAdvancedFilters
  <2>5. \A r : (\A w \in where : Satisfies(r, w))
          <=> \A f \in applied : \A w \in PG!ApplyAdvancedFilter(f, filter[f]) : Satisfies(r, w)
    BY <2>4
  <2> QED BY <1>1, <2>2, <2>3, <2>5
<1> QED BY <1>3, <1>4

LEMMA MySQLAnswer ==
    ASSUME NEW b, NEW tables, NEW filters, NEW n,
           NEW answer, answer = MY!Query(b, tables, filters, n), answer # Failed,
           NEW filter, filter = MY!GetTableFilters(filters, n),
           NEW applied, applied = MY!FilteredFields(MySQLSchema(b, tables), n, filter)
    PROVE  /\ answer.fields = MY!ValidateTableAndFields(MySQLSchema(b, tables), n, tables[n])
           /\ answer.fields # {}
           /\ \A f \in applied : PG!ValidateFilterCondition(f, filter[f])
           /\ \A r : r \in answer.rows <=>
                /\ r \in MY!RowsOf(b, n)
                /\ \A f \in applied : \A w \in PG!ApplyAdvancedFilter(f, filter[f]) : Satisfies(r, w)
<1>1. PICK schema, selected, rows :
        /\ schema = MySQLSchema(b, tables) /\ rows = MY!RowsOf(b, n)
        /\ selected = MY!ValidateTableAndFields(schema, n, tables[n])
  OBVIOUS
<1>2. PICK where : where = MY!BuildAdvancedFilters(schema, n, filter)
  OBVIOUS
<1>3. CASE DOMAIN filter = {}
  <2>1. applied = {}
    BY <1>3 DEF MY!FilteredFields
  <2>2. answer = IF selected = {} THEN Failed ELSE Select(selected, rows, {})
    BY <1>1, <1>3, MySQLEvaluates DEF MY!Query, MY!QueryAll, MySQLSchema
  <2>3. selected # {} /\ answer = Select(selected, rows, {})
    BY <2>2
  <2>4. answer.fields = selected /\ \A r : r \in answer.rows <=> r \in rows
    BY <2>3 DEF Select
  <2> QED BY <1>1, <2>1, <2>3, <2>4
<1>4. CASE DOMAIN filter # {}
  <2>1. answer = IF selected = {} \/ \E f \in applied : ~PG!ValidateFilterCondition(f, filter[f])
                 THEN Failed ELSE Select(selected, rows, where)
    BY <1>1, <1>2, <1>4, MySQLEvaluates, MySQLBuildsAlike
       DEF MY!Query, MY!QueryWithAdvancedFilters, MySQLSchema
  <2>2. /\ selected # {} /\ answer = Select(selected, rows, where)
        /\ \A f \in applied : PG!ValidateFilterCondition(f, filter[f])
    BY <2>1
  <2>3. answer.fields = selected
        /\ \A r : r \in answer.rows <=> r \in rows /\ \A w \in where : Satisfies(r, w)
    BY <2>2 DEF Select
  <2>4. where = UNION {PG!ApplyAdvancedFilter(f, filter[f]) : f \in applied}
    BY <1>1, <1>2, MySQLBuildsAlike DEF MY!BuildAdvancedFilters
  <2>5. \A r : (\A w \in where : Satisfies(r, w))
          <=> \A f \in applied : \A w \in PG!ApplyAdvancedFilter(f, filter[f]) : Satisfies(r, w)
    BY <2>4
  <2> QED BY <1>1, <2>2, <2>3, <2>5
<1> QED BY <1>3, <1>4

OracleColumn(b, tables, n, f) ==
    CHOOSE col \in OR!ColumnsOf(OracleSchema(b, tables), n) : OR!EqualFold(col, f)

LEMMA OracleAnswer ==
    ASSUME NEW b, NEW tables, NEW filters, NEW n,
           NEW answer, answer = OR!Query(b, tables, filters, n), answer # Failed,
           NEW filter, filter = OR!GetTableFilters(filters, n),
           NEW applied, applied = OR!FilteredFields(OracleSchema(b, tables), n, filter)
    PROVE  /\ answer.fields = OR!ValidateTableAndFields(OracleSchema(b, tables), n, tables[n])
           /\ answer.fields # {}
           /\ \A f \in applied : PG!ValidateFilterCondition(f, filter[f])
           /\ \A r : r \in answer.rows <=>
                /\ r \in OR!RowsOf(b, n)
                /\ \A f \in applied : \A w \in PG!ApplyAdvancedFilter(OracleColumn(b, tables, n, f), filter[f]) : Satisfies(r, w)
<1>1. PICK schema, selected, rows :
        /\ schema = OracleSchema(b, tables) /\ rows = OR!RowsOf(b, n)
        /\ selected = OR!ValidateTableAndFields(schema, n, tables[n])
  OBVIOUS
<1>2. PICK where : where = OR!BuildAdvancedFilters(schema, n, filter)
  OBVIOUS
<1>3. CASE DOMAIN filter = {}
  <2>1. applied = {}
    BY <1>3 DEF OR!FilteredFields
  <2>2. answer = IF selected = {} THEN Failed ELSE Select(selected, rows, {})
    BY <1>1, <1>3, OracleEvaluates DEF OR!Query, OR!QueryAll, OracleSchema
  <2>3. selected # {} /\ answer = Select(selected, rows, {})
    BY <2>2
  <2>4. answer.fields = selected /\ \A r : r \in answer.rows <=> r \in rows
    BY <2>3 DEF Select
  <2> QED BY <1>1, <2>1, <2>3, <2>4
<1>4. CASE DOMAIN filter # {}
  <2>1. answer = IF selected = {} \/ \E f \in applied : ~PG!ValidateFilterCondition(f, filter[f])
                 THEN Failed ELSE Select(selected, rows, where)
    BY <1>1, <1>2, <1>4, OracleEvaluates, OracleBuildsAlike
       DEF OR!Query, OR!QueryWithAdvancedFilters, OracleSchema
  <2>2. /\ selected # {} /\ answer = Select(selected, rows, where)
        /\ \A f \in applied : PG!ValidateFilterCondition(f, filter[f])
    BY <2>1
  <2>3. answer.fields = selected
        /\ \A r : r \in answer.rows <=> r \in rows /\ \A w \in where : Satisfies(r, w)
    BY <2>2 DEF Select
  <2>4. where = UNION {PG!ApplyAdvancedFilter(OracleColumn(b, tables, n, f), filter[f]) : f \in applied}
    BY <1>1, <1>2, OracleBuildsAlike DEF OR!BuildAdvancedFilters, OracleColumn
  <2>5. \A r : (\A w \in where : Satisfies(r, w))
          <=> \A f \in applied : \A w \in PG!ApplyAdvancedFilter(OracleColumn(b, tables, n, f), filter[f]) : Satisfies(r, w)
    BY <2>4
  <2> QED BY <1>1, <2>2, <2>3, <2>5
<1> QED BY <1>3, <1>4

LEMMA SQLServerAnswer ==
    ASSUME NEW b, NEW tables, NEW filters, NEW n,
           NEW answer, answer = MS!Query(b, tables, filters, n), answer # Failed,
           NEW filter, filter = MS!GetTableFilters(filters, n),
           NEW applied, applied = MS!FilteredFields(SQLServerSchema(b, tables), n, filter)
    PROVE  /\ answer.fields = MS!ValidateTableAndFields(SQLServerSchema(b, tables), n, tables[n])
           /\ answer.fields # {}
           /\ \A f \in applied : PG!ValidateFilterCondition(f, filter[f])
           /\ \A r : r \in answer.rows <=>
                /\ r \in MS!RowsOf(b, n)
                /\ \A f \in applied : \A w \in PG!ApplyAdvancedFilter(f, filter[f]) : Satisfies(r, w)
<1>1. PICK schema, selected, rows :
        /\ schema = SQLServerSchema(b, tables) /\ rows = MS!RowsOf(b, n)
        /\ selected = MS!ValidateTableAndFields(schema, n, tables[n])
  OBVIOUS
<1>2. PICK where : where = MS!BuildAdvancedFilters(schema, n, filter)
  OBVIOUS
<1>3. CASE DOMAIN filter = {}
  <2>1. applied = {}
    BY <1>3 DEF MS!FilteredFields
  <2>2. answer = IF selected = {} THEN Failed ELSE Select(selected, rows, {})
    BY <1>1, <1>3, SQLServerEvaluates DEF MS!Query, MS!QueryAll, SQLServerSchema
  <2>3. selected # {} /\ answer = Select(selected, rows, {})
    BY <2>2
  <2>4. answer.fields = selected /\ \A r : r \in answer.rows <=> r \in rows
    BY <2>3 DEF Select
  <2> QED BY <1>1, <2>1, <2>3, <2>4
<1>4. CASE DOMAIN filter # {}
  <2>1. answer = IF selected = {} \/ \E f \in applied : ~PG!ValidateFilterCondition(f, filter[f])
                 THEN Failed ELSE Select(selected, rows, where)
    BY <1>1, <1>2, <1>4, SQLServerEvaluates, SQLServerBuildsAlike
       DEF MS!Query, MS!QueryWithAdvancedFilters, SQLServerSchema
  <2>2. /\ selected # {} /\ answer = Select(selected, rows, where)
        /\ \A f \in applied : PG!ValidateFilterCondition(f, filter[f])
    BY <2>1
  <2>3. answer.fields = selected
        /\ \A r : r \in answer.rows <=> r \in rows /\ \A w \in where : Satisfies(r, w)
    BY <2>2 DEF Select
  <2>4. where = UNION {PG!ApplyAdvancedFilter(f, filter[f]) : f \in applied}
    BY <1>1, <1>2, SQLServerBuildsAlike DEF MS!BuildAdvancedFilters
  <2>5. \A r : (\A w \in where : Satisfies(r, w))
          <=> \A f \in applied : \A w \in PG!ApplyAdvancedFilter(f, filter[f]) : Satisfies(r, w)
    BY <2>4
  <2> QED BY <1>1, <2>2, <2>3, <2>5
<1> QED BY <1>3, <1>4
-----------------------------------------------------------------------------
(* Names.  A name that is looked up without its default schema denotes the   *)
(* same table.                                                              *)

LEMMA ShortName ==
    ASSUME NEW S, NEW n \in Seq(S), n # <<>>
    PROVE  Len(n) \in {1, 2, 3} \/ Len(n) > 3
<1>1. PICK k \in Nat : k = Len(n)
  OBVIOUS
<1>2. k # 0
  BY <1>1
<1>3. k \in {1, 2, 3} \/ k > 3
  BY <1>2
<1> QED BY <1>1, <1>3

LEMMA NotLong ==
    ASSUME NEW n, Len(n) \in {1, 2, 3}
    PROVE  ~(Len(n) > 3)
<1>1. PICK k : k = Len(n)
  OBVIOUS
<1>2. k \in {1, 2, 3}
  BY <1>1
<1>3. ~(k > 3)
  BY <1>2
<1> QED BY <1>1, <1>3

LEMMA ParsedName ==
    ASSUME NEW n \in Seq(Identifiers), Len(n) \in {1, 2, 3}, NEW d \in Identifiers \cup {NoSchema}
    PROVE  \E s \in Identifiers \cup {NoSchema}, t \in Identifiers :
             /\ ParseQualifiedTableName(n, d) = <<s, t>>
             /\ s = NoSchema => d = NoSchema /\ Len(n) = 1
             /\ NormalizeTableNameForLookup(n, d) =
                  IF s = NoSchema \/ (d # NoSchema /\ EqualFold(s, d)) THEN <<t>> ELSE <<s, t>>
<1>1. NoSchema \notin Identifiers
  BY WordsAssumption
<1>2. ~(Len(n) > 3)
  BY NotLong
<1>3. ASSUME NEW s \in Identifiers \cup {NoSchema}, NEW t \in Identifiers,
             ParseQualifiedTableName(n, d) = <<s, t>>
      PROVE  NormalizeTableNameForLookup(n, d) =
               IF s = NoSchema \/ (d # NoSchema /\ EqualFold(s, d)) THEN <<t>> ELSE <<s, t>>
  <2>1. PICK q : q = ParseQualifiedTableName(n, d)
    OBVIOUS
  <2>2. q[1] = s /\ q[2] = t
    BY <1>3, <2>1
  <2>3. NormalizeTableNameForLookup(n, d)
          = IF q[1] = NoSchema \/ (d # NoSchema /\ EqualFold(q[1], d)) THEN <<q[2]>> ELSE q
    BY <1>2, <2>1 DEF NormalizeTableNameForLookup
  <2> QED BY <1>3, <2>1, <2>2, <2>3
<1>4. CASE Len(n) = 1
  <2>1. ParseQualifiedTableName(n, d) = <<d, n[1]>> /\ n[1] \in Identifiers
    BY <1>4 DEF ParseQualifiedTableName
  <2> QED BY <1>3, <1>4, <2>1
<1>5. CASE Len(n) = 2
  <2>0. 1 \in DOMAIN n /\ 2 \in DOMAIN n /\ \A i \in DOMAIN n : n[i] \in Identifiers
    BY <1>5
  <2>1. ParseQualifiedTableName(n, d) = <<n[1], n[2]>> /\ n[1] \in Identifiers /\ n[2] \in Identifiers
    BY <1>5, <2>0 DEF ParseQualifiedTableName
  <2> QED BY <1>1, <1>3, <2>1
<1>6. CASE Len(n) = 3
  <2>1. ParseQualifiedTableName(n, d) = <<n[2], n[3]>> /\ n[2] \in Identifiers /\ n[3] \in Identifiers
    BY <1>6 DEF ParseQualifiedTableName
  <2> QED BY <1>1, <1>3, <2>1
<1> QED BY <1>4, <1>5, <1>6

LEMMA QualifiedName ==
    ASSUME NEW s \in Identifiers, NEW t, NEW d
    PROVE  /\ QualifyTableName(s, t, d) = IF s = d THEN <<t>> ELSE <<s, t>>
           /\ Len(QualifyTableName(s, t, d)) \in {1, 2}
BY WordsAssumption DEF QualifyTableName

LEMMA PairEquals ==
    /\ \A a, b, c, e : <<a, b>> = <<c, e>> <=> a = c /\ b = e
    /\ \A a, b : <<a>> = <<b>> <=> a = b
    /\ \A a, b, c : <<a>> # <<b, c>>
OBVIOUS

LEMMA PostgresNames ==
    /\ \A n, d : /\ PG!NormalizeTableNameForLookup(n, d) = NormalizeTableNameForLookup(n, d)
                /\ PG!ParseQualifiedTableName(n, d) = ParseQualifiedTableName(n, d)
    /\ \A s, t, d : PG!QualifyTableName(s, t, d) = QualifyTableName(s, t, d)
    /\ \A n : PG!Qualified(n) = Qualified(n) /\ PG!UpperName(n) = UpperName(n)
    /\ \A ns : PG!GetUniqueSchemas(ns) = GetUniqueSchemas(ns)
    /\ \A u, v : PG!EqualFold(u, v) = EqualFold(u, v)
BY DEF PG!NormalizeTableNameForLookup, NormalizeTableNameForLookup, PG!ParseQualifiedTableName,
   ParseQualifiedTableName, PG!QualifyTableName, QualifyTableName, PG!NoSchema, NoSchema,
   PG!Qualified, Qualified, PG!UpperName, UpperName, PG!GetUniqueSchemas, GetUniqueSchemas,
   PG!EqualFold, EqualFold

LEMMA MySQLNames ==
    /\ \A n, d : /\ MY!NormalizeTableNameForLookup(n, d) = NormalizeTableNameForLookup(n, d)
                /\ MY!ParseQualifiedTableName(n, d) = ParseQualifiedTableName(n, d)
    /\ \A s, t, d : MY!QualifyTableName(s, t, d) = QualifyTableName(s, t, d)
    /\ \A n : MY!Qualified(n) = Qualified(n) /\ MY!UpperName(n) = UpperName(n)
    /\ \A ns : MY!GetUniqueSchemas(ns) = GetUniqueSchemas(ns)
    /\ \A u, v : MY!EqualFold(u, v) = EqualFold(u, v)
BY DEF MY!NormalizeTableNameForLookup, NormalizeTableNameForLookup, MY!ParseQualifiedTableName,
   ParseQualifiedTableName, MY!QualifyTableName, QualifyTableName, MY!NoSchema, NoSchema,
   MY!Qualified, Qualified, MY!UpperName, UpperName, MY!GetUniqueSchemas, GetUniqueSchemas,
   MY!EqualFold, EqualFold

LEMMA OracleNames ==
    /\ \A n, d : /\ OR!NormalizeTableNameForLookup(n, d) = NormalizeTableNameForLookup(n, d)
                /\ OR!ParseQualifiedTableName(n, d) = ParseQualifiedTableName(n, d)
    /\ \A s, t, d : OR!QualifyTableName(s, t, d) = QualifyTableName(s, t, d)
    /\ \A n : OR!Qualified(n) = Qualified(n) /\ OR!UpperName(n) = UpperName(n)
    /\ \A ns : OR!GetUniqueSchemas(ns) = GetUniqueSchemas(ns)
    /\ \A u, v : OR!EqualFold(u, v) = EqualFold(u, v)
BY DEF OR!NormalizeTableNameForLookup, NormalizeTableNameForLookup, OR!ParseQualifiedTableName,
   ParseQualifiedTableName, OR!QualifyTableName, QualifyTableName, OR!NoSchema, NoSchema,
   OR!Qualified, Qualified, OR!UpperName, UpperName, OR!GetUniqueSchemas, GetUniqueSchemas,
   OR!EqualFold, EqualFold

LEMMA SQLServerNames ==
    /\ \A n, d : /\ MS!NormalizeTableNameForLookup(n, d) = NormalizeTableNameForLookup(n, d)
                /\ MS!ParseQualifiedTableName(n, d) = ParseQualifiedTableName(n, d)
    /\ \A s, t, d : MS!QualifyTableName(s, t, d) = QualifyTableName(s, t, d)
    /\ \A n : MS!Qualified(n) = Qualified(n) /\ MS!UpperName(n) = UpperName(n)
    /\ \A ns : MS!GetUniqueSchemas(ns) = GetUniqueSchemas(ns)
    /\ \A u, v : MS!EqualFold(u, v) = EqualFold(u, v)
BY DEF MS!NormalizeTableNameForLookup, NormalizeTableNameForLookup, MS!ParseQualifiedTableName,
   ParseQualifiedTableName, MS!QualifyTableName, QualifyTableName, MS!NoSchema, NoSchema,
   MS!Qualified, Qualified, MS!UpperName, UpperName, MS!GetUniqueSchemas, GetUniqueSchemas,
   MS!EqualFold, EqualFold
(* The columns a row has are columns the driver knows of its table. *)
LEMMA PostgresColumns ==
    ASSUME NEW b, \A x \in b : TableOf("POSTGRESQL", x), NEW tables, NEW n, IsName(n),
           NEW S, S = PostgresSchema(b, tables), PG!ValidateTableAndFields(S, n, tables[n]) # {},
           NEW r \in PG!RowsOf(b, n), NEW f \in DOMAIN r
    PROVE  PG!Lookup(n) \in DOMAIN S /\ f \in S[PG!Lookup(n)]
<1>1. PICK m : m = PG!Lookup(n)
  OBVIOUS
<1>2. PICK scope : S = PG!GetDatabaseSchema(b, scope)
  BY DEF PostgresSchema
<1>3. m \in DOMAIN S
  BY <1>1 DEF PG!ValidateTableAndFields
<1>4. PICK q : q = ParseQualifiedTableName(n, "public")
  OBVIOUS
<1>5. PICK x \in b : x.schema = q[1] /\ x.name = q[2] /\ r \in x.rows
  BY <1>4, PostgresNames DEF PG!RowsOf, PG!DefaultSchema
<1>6. f \in x.columns /\ (EqualFold(x.schema, "public") => x.schema = "public")
  BY <1>5 DEF TableOf
<1>7. m = NormalizeTableNameForLookup(n, "public")
  BY <1>1, PostgresNames DEF PG!Lookup, PG!DefaultSchema
<1>8. Len(m) \in {1, 2}
  <2>1. PICK y \in b : m = QualifyTableName(y.schema, y.name, "public")
    BY <1>2, <1>3, PostgresNames DEF PG!GetDatabaseSchema, PG!QueryTables, PG!DefaultSchema
  <2>2. y.schema \in Identifiers
    BY DEF TableOf
  <2> QED BY <2>1, <2>2, QualifiedName
<1>9. n \in Seq(Identifiers) /\ Len(n) \in {1, 2, 3}
  <2>1. n \in Seq(Identifiers) /\ n # <<>>
    BY DEF IsName
  <2>2. Len(n) > 3 => m = n
    BY <1>7 DEF NormalizeTableNameForLookup
  <2>3. ~(Len(n) > 3)
    BY <1>8, <2>2, NotLong
  <2> QED BY <2>1, <2>3, ShortName
<1>10. PICK s \in Identifiers, t \in Identifiers :
         q = <<s, t>> /\ m = IF EqualFold(s, "public") THEN <<t>> ELSE <<s, t>>
  BY <1>4, <1>7, <1>9, ParsedName, WordsAssumption
<1>11. ParseQualifiedTableName(m, "public") = q
  <2>1. CASE EqualFold(s, "public")
    <3>1. s = "public" /\ m = <<t>>
      BY <1>5, <1>6, <1>10, <2>1
    <3> QED BY <1>10, <3>1 DEF ParseQualifiedTableName
  <2>2. CASE ~EqualFold(s, "public")
    BY <1>10, <2>2 DEF ParseQualifiedTableName
  <2> QED BY <2>1, <2>2
<1>12. S[m] = UNION {y.columns : y \in {z \in b : z.schema = q[1] /\ z.name = q[2]}}
  BY <1>2, <1>3, <1>11, PostgresNames DEF PG!GetDatabaseSchema, PG!BuildTableSchema, PG!DefaultSchema
<1>13. f \in S[m]
  BY <1>5, <1>6, <1>12
<1> QED BY <1>1, <1>3, <1>13

LEMMA MySQLColumns ==
    ASSUME NEW b, \A x \in b : TableOf("MYSQL", x), NEW tables, NEW n,
           NEW S, S = MySQLSchema(b, tables), MY!ValidateTableAndFields(S, n, tables[n]) # {},
           NEW r \in MY!RowsOf(b, n), NEW f \in DOMAIN r
    PROVE  n \in DOMAIN S /\ f \in S[n]
<1>1. n \in DOMAIN S
  BY DEF MY!ValidateTableAndFields
<1>2. PICK x \in b : x.schema = Database /\ <<x.name>> = n /\ r \in x.rows
  BY DEF MY!RowsOf
<1>3. f \in x.columns
  BY <1>2 DEF TableOf
<1>4. S[n] = UNION {y.columns : y \in {z \in b : z.schema = Database /\ <<z.name>> = n}}
  BY <1>1 DEF MySQLSchema, MY!GetDatabaseSchema, MY!BuildTableSchema
<1>5. f \in S[n]
  BY <1>2, <1>3, <1>4
<1> QED BY <1>1, <1>5

(* On SQL Server a table without a schema is known only when dbo is in the   *)
(* scope, and its columns include those of every table of that name there.  *)
LEMMA SQLServerColumns ==
    ASSUME NEW b, \A x \in b : TableOf("SQL_SERVER", x), NEW tables, NEW n, IsName(n),
           NEW S, S = SQLServerSchema(b, tables), MS!ValidateTableAndFields(S, n, tables[n]) # {},
           NEW r \in MS!RowsOf(b, n), NEW f \in DOMAIN r
    PROVE  MS!Lookup(n) \in DOMAIN S /\ f \in S[MS!Lookup(n)]
<1>1. PICK m : m = MS!Lookup(n)
  OBVIOUS
<1>2. PICK named : S = MS!GetDatabaseSchema(b, named)
  BY DEF SQLServerSchema
<1>3. m \in DOMAIN S
  BY <1>1 DEF MS!ValidateTableAndFields
<1>4. PICK q : q = ParseQualifiedTableName(n, "dbo")
  OBVIOUS
<1>5. PICK x \in b : x.schema = q[1] /\ x.name = q[2] /\ r \in x.rows
  BY <1>4, SQLServerNames DEF MS!RowsOf, MS!DefaultSchema
<1>6. f \in x.columns /\ (EqualFold(x.schema, "dbo") => x.schema = "dbo")
  BY <1>5 DEF TableOf
<1>7. m = NormalizeTableNameForLookup(n, "dbo")
  BY <1>1, SQLServerNames DEF MS!Lookup, MS!DefaultSchema
<1>8. PICK scope : scope = IF named = {} THEN {"dbo"} ELSE named
  OBVIOUS
<1>9. PICK y \in b : y.schema \in scope /\ y.schema \in Identifiers
                     /\ m = QualifyTableName(y.schema, y.name, "dbo")
  BY <1>2, <1>3, <1>8, SQLServerNames DEF MS!GetDatabaseSchema, MS!QueryTables, MS!DefaultSchema, TableOf
<1>10. m = (IF y.schema = "dbo" THEN <<y.name>> ELSE <<y.schema, y.name>>) /\ Len(m) \in {1, 2}
  BY <1>9, QualifiedName
<1>11. n \in Seq(Identifiers) /\ Len(n) \in {1, 2, 3}
  <2>1. n \in Seq(Identifiers) /\ n # <<>>
    BY DEF IsName
  <2>2. Len(n) > 3 => m = n
    BY <1>7 DEF NormalizeTableNameForLookup
  <2>3. ~(Len(n) > 3)
    BY <1>10, <2>2, NotLong
  <2> QED BY <2>1, <2>3, ShortName
<1>12. PICK s \in Identifiers, t \in Identifiers :
         q = <<s, t>> /\ m = IF EqualFold(s, "dbo") THEN <<t>> ELSE <<s, t>>
  BY <1>4, <1>7, <1>11, ParsedName, WordsAssumption
<1>13. PICK known : known = IF Qualified(m) THEN {m[1]} ELSE scope
  OBVIOUS
<1>14. S[m] = UNION {z.columns : z \in {u \in b : u.schema \in known /\ u.name = m[Len(m)]}}
  BY <1>2, <1>3, <1>8, <1>13, SQLServerNames
     DEF MS!GetDatabaseSchema, MS!BuildTableSchema, MS!DefaultSchema
<1>15. x.schema \in known /\ x.name = m[Len(m)]
  <2>1. CASE EqualFold(s, "dbo")
    <3>1. s = "dbo" /\ m = <<t>>
      BY <1>5, <1>6, <1>12, <2>1
    <3>2. y.schema = "dbo"
      BY <1>10, <3>1
    <3>3. ~Qualified(m) /\ m[Len(m)] = t
      BY <3>1 DEF Qualified
    <3> QED BY <1>5, <1>9, <1>12, <1>13, <3>1, <3>2, <3>3
  <2>2. CASE ~EqualFold(s, "dbo")
    <3>1. m = <<s, t>>
      BY <1>12, <2>2
    <3>2. Qualified(m) /\ m[1] = s /\ m[Len(m)] = t
      BY <3>1 DEF Qualified
    <3> QED BY <1>5, <1>12, <1>13, <3>2
  <2> QED BY <2>1, <2>2
<1>16. f \in S[m]
  BY <1>5, <1>6, <1>14, <1>15
<1> QED BY <1>1, <1>3, <1>16

LEMMA FoldedNames ==
    /\ \A a : UpperName(<<a>>) = <<Upper[a]>> /\ LowerName(<<a>>) = <<Lower[a]>>
    /\ \A a, b : UpperName(<<a, b>>) = <<Upper[a], Upper[b]>> /\ LowerName(<<a, b>>) = <<Lower[a], Lower[b]>>
<1>1. ASSUME NEW a PROVE UpperName(<<a>>) = <<Upper[a]>>
  BY DEF UpperName
<1>2. ASSUME NEW a PROVE LowerName(<<a>>) = <<Lower[a]>>
  BY DEF LowerName
<1>3. ASSUME NEW a, NEW b PROVE UpperName(<<a, b>>) = <<Upper[a], Upper[b]>>
  BY DEF UpperName
<1>4. ASSUME NEW a, NEW b PROVE LowerName(<<a, b>>) = <<Lower[a], Lower[b]>>
  BY DEF LowerName
<1> QED BY <1>1, <1>2, <1>3, <1>4

(* Oracle's tables and columns are in upper case. *)
LEMMA OracleTable ==
    ASSUME NEW b, \A x \in b : TableOf("ORACLE", x), NEW y \in b
    PROVE  /\ y.schema \in Identifiers /\ y.name \in Identifiers
           /\ Upper[y.schema] = y.schema /\ Upper[y.name] = y.name
           /\ y.columns \subseteq Identifiers /\ \A col \in y.columns : Upper[col] = col
           /\ UpperName(QualifyTableName(y.schema, y.name, CurrentSchema))
                = QualifyTableName(y.schema, y.name, CurrentSchema)
<1>1. /\ y.schema \in Identifiers /\ y.name \in Identifiers /\ y.columns \subseteq Identifiers
      /\ Upper[y.schema] = y.schema /\ Upper[y.name] = y.name /\ \A col \in y.columns : Upper[col] = col
  BY DEF TableOf
<1>2. QualifyTableName(y.schema, y.name, CurrentSchema)
        = IF y.schema = CurrentSchema THEN <<y.name>> ELSE <<y.schema, y.name>>
  BY <1>1, QualifiedName
<1>3. UpperName(<<y.name>>) = <<y.name>> /\ UpperName(<<y.schema, y.name>>) = <<y.schema, y.name>>
  BY <1>1, FoldedNames
<1> QED BY <1>1, <1>2, <1>3

LEMMA OracleColumnsAreTables ==
    ASSUME NEW b, \A x \in b : TableOf("ORACLE", x), NEW tables, NEW n,
           NEW col \in OR!ColumnsOf(OracleSchema(b, tables), n)
    PROVE  \E y \in b : col \in y.columns
<1>1. PICK S, named : S = OracleSchema(b, tables) /\ S = OR!GetDatabaseSchema(b, named)
  BY DEF OracleSchema
<1>2. PICK m \in DOMAIN S : col \in S[m]
  BY <1>1 DEF OR!ColumnsOf
<1>3. S[m] = OR!BuildTableSchema(b, m, named)
  BY <1>1, <1>2 DEF OR!GetDatabaseSchema
<1> QED BY <1>2, <1>3 DEF OR!BuildTableSchema

(* A field that is a column, in upper case, is the column that is filtered. *)
LEMMA OracleColumnIs ==
    ASSUME NEW b, \A x \in b : TableOf("ORACLE", x), NEW tables, NEW n, NEW f, Upper[f] = f,
           \E col \in OR!ColumnsOf(OracleSchema(b, tables), n) : OR!EqualFold(col, f)
    PROVE  OracleColumn(b, tables, n, f) = f
<1>1. PICK C : C = OR!ColumnsOf(OracleSchema(b, tables), n)
  OBVIOUS
<1>2. ASSUME NEW col \in C PROVE Upper[col] = col
  <2>1. PICK y \in b : col \in y.columns
    BY <1>1, OracleColumnsAreTables
  <2> QED BY <2>1, OracleTable
<1>3. PICK col : col = CHOOSE k \in C : OR!EqualFold(k, f)
  OBVIOUS
<1>4. col \in C /\ Upper[col] = Upper[f]
  BY <1>1, <1>3 DEF OR!EqualFold
<1> QED BY <1>1, <1>2, <1>3, <1>4 DEF OracleColumn

(* The name a plan has of an Oracle table is the one the driver knows. *)
LEMMA OracleKnows ==
    ASSUME NEW b, \A x \in b : TableOf("ORACLE", x), NEW tables,
           NEW y \in b, NEW n, n = QualifyTableName(y.schema, y.name, CurrentSchema),
           NEW S, S = OracleSchema(b, tables), OR!ValidateTableAndFields(S, n, tables[n]) # {}
    PROVE  /\ n \in DOMAIN S /\ OR!NormalizeTableNameForLookup(n, CurrentSchema) = n
           /\ \A x \in b : x.schema = y.schema /\ x.name = y.name => x.columns \subseteq S[n]
<1>1. /\ y.schema \in Identifiers /\ y.name \in Identifiers /\ CurrentSchema \in Identifiers
      /\ Upper[y.schema] = y.schema /\ Upper[y.name] = y.name /\ UpperName(n) = n
      /\ Upper[CurrentSchema] = CurrentSchema
  BY OracleTable, WordsAssumption
<1>2. n = IF y.schema = CurrentSchema THEN <<y.name>> ELSE <<y.schema, y.name>>
  BY <1>1, QualifiedName
<1>3. NormalizeTableNameForLookup(n, CurrentSchema) = n
  <2>1. CASE y.schema = CurrentSchema
    <3>1. n = <<y.name>>
      BY <1>2, <2>1
    <3>2. n \in Seq(Identifiers) /\ Len(n) = 1 /\ n[1] = y.name
      BY <1>1, <3>1
    <3>3. ParseQualifiedTableName(n, CurrentSchema) = <<CurrentSchema, y.name>>
      BY <3>2 DEF ParseQualifiedTableName
    <3>4. EqualFold(CurrentSchema, CurrentSchema) /\ CurrentSchema # NoSchema
      BY WordsAssumption DEF EqualFold
    <3>5. PICK s \in Identifiers \cup {NoSchema}, t \in Identifiers :
             /\ ParseQualifiedTableName(n, CurrentSchema) = <<s, t>>
             /\ NormalizeTableNameForLookup(n, CurrentSchema) =
                  IF s = NoSchema \/ (CurrentSchema # NoSchema /\ EqualFold(s, CurrentSchema))
                  THEN <<t>> ELSE <<s, t>>
      BY <1>1, <3>2, ParsedName
    <3>6. s = CurrentSchema /\ t = y.name
      BY <3>3, <3>5
    <3> QED BY <3>1, <3>4, <3>5, <3>6
  <2>2. CASE y.schema # CurrentSchema
    <3>1. n = <<y.schema, y.name>>
      BY <1>2, <2>2
    <3>2. n \in Seq(Identifiers) /\ Len(n) = 2 /\ n[1] = y.schema /\ n[2] = y.name
      BY <1>1, <3>1
    <3>3. ParseQualifiedTableName(n, CurrentSchema) = <<y.schema, y.name>>
      BY <3>2 DEF ParseQualifiedTableName
    <3>4. ~EqualFold(y.schema, CurrentSchema) /\ y.schema # NoSchema
      BY <1>1, <2>2, WordsAssumption DEF EqualFold
    <3>5. PICK s \in Identifiers \cup {NoSchema}, t \in Identifiers :
             /\ ParseQualifiedTableName(n, CurrentSchema) = <<s, t>>
             /\ NormalizeTableNameForLookup(n, CurrentSchema) =
                  IF s = NoSchema \/ (CurrentSchema # NoSchema /\ EqualFold(s, CurrentSchema))
                  THEN <<t>> ELSE <<s, t>>
      BY <1>1, <3>2, ParsedName
    <3>6. s = y.schema /\ t = y.name
      BY <3>3, <3>5
    <3> QED BY <3>1, <3>4, <3>5, <3>6
  <2> QED BY <2>1, <2>2
<1>4. OR!ColumnsOf(S, n) # {}
  BY <1>3, OracleNames DEF OR!ValidateTableAndFields
<1>5. PICK m \in DOMAIN S : UpperName(m) = UpperName(n)
  BY <1>4, OracleNames DEF OR!ColumnsOf, OR!SameName
<1>6. PICK named, wanted : /\ S = OR!GetDatabaseSchema(b, named)
                           /\ wanted = IF named = {} THEN {CurrentSchema} ELSE OR!OwnerScope(named)
  BY DEF OracleSchema
<1>7. PICK z \in b : z.schema \in wanted /\ m = QualifyTableName(z.schema, z.name, CurrentSchema)
  BY <1>5, <1>6, OracleNames DEF OR!GetDatabaseSchema, OR!QueryTables
<1>8. m = n
  BY <1>1, <1>5, <1>7, OracleTable
<1>9. z.schema \in Identifiers /\ n = IF z.schema = CurrentSchema THEN <<z.name>> ELSE <<z.schema, z.name>>
  <2>1. z.schema \in Identifiers
    BY <1>7, OracleTable
  <2>2. QualifyTableName(z.schema, z.name, CurrentSchema)
          = IF z.schema = CurrentSchema THEN <<z.name>> ELSE <<z.schema, z.name>>
    BY <2>1, QualifiedName
  <2> QED BY <1>7, <1>8, <2>1, <2>2
<1>10. PICK owners : owners = IF Qualified(n) THEN {Upper[n[1]]} ELSE wanted
  OBVIOUS
<1>11. S[n] = UNION {t.columns : t \in {x \in b : x.schema \in owners /\ x.name = Upper[n[Len(n)]]}}
  BY <1>5, <1>6, <1>8, <1>10, OracleNames DEF OR!GetDatabaseSchema, OR!BuildTableSchema
<1>12. y.schema \in owners /\ y.name = Upper[n[Len(n)]]
  <2>1. CASE y.schema = CurrentSchema
    <3>1. n = <<y.name>> /\ z.schema = CurrentSchema
      BY <1>2, <1>9, <2>1
    <3>2. ~Qualified(n) /\ n[Len(n)] = y.name
      BY <3>1 DEF Qualified
    <3> QED BY <1>1, <1>7, <1>10, <2>1, <3>1, <3>2
  <2>2. CASE y.schema # CurrentSchema
    <3>1. n = <<y.schema, y.name>>
      BY <1>2, <2>2
    <3>2. Qualified(n) /\ n[1] = y.schema /\ n[Len(n)] = y.name
      BY <3>1 DEF Qualified
    <3> QED BY <1>1, <1>10, <3>2
  <2> QED BY <2>1, <2>2
<1>13. \A x \in b : x.schema = y.schema /\ x.name = y.name => x.columns \subseteq S[n]
  BY <1>11, <1>12
<1>14. OR!NormalizeTableNameForLookup(n, CurrentSchema) = n
  BY <1>3, OracleNames
<1> QED BY <1>5, <1>8, <1>13, <1>14

(* The rows such a name denotes. *)
LEMMA OracleRows ==
    ASSUME NEW b, \A x \in b : TableOf("ORACLE", x), NEW y \in b,
           NEW n, n = QualifyTableName(y.schema, y.name, CurrentSchema)
    PROVE  OR!RowsOf(b, n) = UNION {x.rows : x \in {t \in b : t.schema = y.schema /\ t.name = y.name}}
<1>1. UpperName(n) = n /\ y.schema \in Identifiers
  BY OracleTable
<1>2. ParseQualifiedTableName(n, CurrentSchema) = <<y.schema, y.name>>
  <2>1. n = IF y.schema = CurrentSchema THEN <<y.name>> ELSE <<y.schema, y.name>>
    BY <1>1, QualifiedName
  <2> QED BY <2>1 DEF ParseQualifiedTableName
<1>3. PICK q : q = ParseQualifiedTableName(n, CurrentSchema) /\ q[1] = y.schema /\ q[2] = y.name
  BY <1>2
<1> QED BY <1>1, <1>3, OracleNames DEF OR!RowsOf

LEMMA OracleColumns ==
    ASSUME NEW b, \A x \in b : TableOf("ORACLE", x), NEW tables,
           NEW y \in b, NEW n, n = QualifyTableName(y.schema, y.name, CurrentSchema),
           NEW S, S = OracleSchema(b, tables), OR!ValidateTableAndFields(S, n, tables[n]) # {},
           NEW r \in OR!RowsOf(b, n), NEW f \in DOMAIN r
    PROVE  f \in OR!ColumnsOf(S, n) /\ Upper[f] = f
<1>0. OR!RowsOf(b, n) = UNION {x.rows : x \in {t \in b : t.schema = y.schema /\ t.name = y.name}}
  BY OracleRows
<1>1. PICK x \in b : x.schema = y.schema /\ x.name = y.name /\ r \in x.rows
  BY <1>0
<1>2. f \in x.columns /\ Upper[f] = f
  BY <1>1, OracleTable DEF TableOf
<1>3. n \in DOMAIN S /\ f \in S[n]
  BY <1>1, <1>2, OracleKnows
<1> QED BY <1>2, <1>3 DEF OR!ColumnsOf, OR!SameName

-----------------------------------------------------------------------------
(* MongoDB.  A condition that uses one operator, or comparisons alone,       *)
(* becomes the Mongo operators that say the same.                           *)

LEMMA PutNothing == ASSUME NEW m, NEW k PROVE Put(m, k, <<>>) = m
BY DEF Put

LEMMA PutDomain ==
    ASSUME NEW m, NEW k, NEW s, s # <<>>
    PROVE  DOMAIN Put(m, k, s) = DOMAIN m \cup {k}
BY DEF Put

LEMMA PutThere ==
    ASSUME NEW m, NEW k, NEW s, s # <<>>
    PROVE  Put(m, k, s)[k] = s
BY DEF Put

LEMMA PutElsewhere ==
    ASSUME NEW m, NEW k, NEW s, NEW x \in DOMAIN m, x # k
    PROVE  Put(m, k, s)[x] = m[x]
BY DEF Put

LEMMA OneIsSome == ASSUME NEW a PROVE <<a>> # <<>>
OBVIOUS

LEMMA PutOne ==
    ASSUME NEW k, NEW s, s # <<>>
    PROVE  DOMAIN Put(<<>>, k, s) = {k} /\ Put(<<>>, k, s)[k] = s
BY DEF Put

Used(c) == {op \in Operators : c[op] # <<>>}

LEMMA UsedOnly ==
    ASSUME NEW c, NEW o, Used(c) = {o}
    PROVE  c[o] # <<>> /\ \A op \in Operators : op # o => c[op] = <<>>
BY DEF Used

LEMMA EmptyMap == DOMAIN <<>> = {}
OBVIOUS

LEMMA NothingCompared ==
    ASSUME NEW m, NEW c, c.gt = <<>>, c.gte = <<>>, c.lt = <<>>, c.lte = <<>>, c.between = <<>>
    PROVE  ApplyMongoComparisonOperators(m, c) = Put(Put(m, "$in", c.in), "$nin", c.nin)
BY PutNothing, Zenon DEF ApplyMongoComparisonOperators

LEMMA NoPattern ==
    ASSUME NEW m, NEW c, c.like = <<>>
    PROVE  ApplyMongoLikePattern(m, c) = m
BY DEF ApplyMongoLikePattern

LEMMA NoExclusion ==
    ASSUME NEW m, NEW c, c.ne = <<>>
    PROVE  ApplyMongoNotEquals(m, c) = m
<1>1. PICK k : k = IF Len(c.ne) = 1 THEN "$ne" ELSE "$nin"
  OBVIOUS
<1> QED BY <1>1, PutNothing DEF ApplyMongoNotEquals

LEMMA Converted ==
    ASSUME NEW c, c.like = <<>>, NEW eq, eq = (IF Len(c.eq) > 1 THEN Put(<<>>, "$in", c.eq) ELSE <<>>),
           NEW m, m = ApplyMongoNotEquals(ApplyMongoComparisonOperators(eq, c), c)
    PROVE  ConvertFilterConditionToMongoFilter(c) = IF DOMAIN m = {} THEN Put(<<>>, "$eq", c.eq) ELSE m
BY NoPattern DEF ConvertFilterConditionToMongoFilter

(* The Mongo operator of each operator that stands alone. *)
MongoKey(c, op) ==
    IF op = "eq" THEN IF Len(c.eq) > 1 THEN "$in" ELSE "$eq"
    ELSE IF op = "in" THEN "$in"
    ELSE IF op = "nin" \/ Len(c.ne) # 1 THEN "$nin" ELSE "$ne"

LEMMA ConvertSingle ==
    ASSUME NEW c, NEW o \in {"eq", "in", "nin", "ne"}, Used(c) = {o},
           NEW M, M = ConvertFilterConditionToMongoFilter(c)
    PROVE  DOMAIN M = {MongoKey(c, o)} /\ M[MongoKey(c, o)] = c[o]
<1>1. c[o] # <<>> /\ \A op \in Operators : op # o => c[op] = <<>>
  BY UsedOnly
<1>2. c.gt = <<>> /\ c.gte = <<>> /\ c.lt = <<>> /\ c.lte = <<>> /\ c.between = <<>> /\ c.like = <<>>
  BY <1>1 DEF Operators
<1>3. PICK eq : eq = (IF Len(c.eq) > 1 THEN Put(<<>>, "$in", c.eq) ELSE <<>>)
  OBVIOUS
<1>4. PICK compared : compared = ApplyMongoComparisonOperators(eq, c)
  OBVIOUS
<1>5. PICK m : m = ApplyMongoNotEquals(compared, c)
  OBVIOUS
<1>6. M = IF DOMAIN m = {} THEN Put(<<>>, "$eq", c.eq) ELSE m
  BY <1>2, <1>3, <1>4, <1>5, Converted
<1>7. compared = Put(Put(eq, "$in", c.in), "$nin", c.nin)
  BY <1>2, <1>4, NothingCompared
<1>8. CASE o = "eq"
  <2>1. c.in = <<>> /\ c.nin = <<>> /\ c.ne = <<>> /\ c.eq # <<>>
    BY <1>1, <1>8 DEF Operators
  <2>2. m = eq
    BY <1>5, <1>7, <2>1, PutNothing, NoExclusion
  <2>3. CASE Len(c.eq) > 1
    <3>1. DOMAIN eq = {"$in"} /\ eq["$in"] = c.eq
      BY <1>3, <2>1, <2>3, PutOne
    <3> QED BY <1>6, <1>8, <2>2, <2>3, <3>1 DEF MongoKey
  <2>4. CASE ~(Len(c.eq) > 1)
    <3>1. DOMAIN eq = {}
      BY <1>3, <2>4, EmptyMap
    <3>2. M = Put(<<>>, "$eq", c.eq)
      BY <1>6, <2>2, <3>1
    <3>3. PICK p : p = Put(<<>>, "$eq", c.eq)
      OBVIOUS
    <3>4. DOMAIN p = {"$eq"} /\ p["$eq"] = c.eq
      BY <2>1, <3>3, PutOne
    <3>5. M = p
      BY <3>2, <3>3
    <3> QED BY <1>8, <2>4, <3>4, <3>5 DEF MongoKey
  <2> QED BY <2>3, <2>4
<1>9. CASE o # "eq"
  <2>1. eq = <<>>
    <3>1. c.eq = <<>>
      BY <1>1, <1>9 DEF Operators
    <3> QED BY <1>3, <3>1, PutNothing
  <2>2. CASE o = "in"
    <3>1. c.nin = <<>> /\ c.ne = <<>> /\ c.in # <<>>
      BY <1>1, <2>2 DEF Operators
    <3>2. m = Put(<<>>, "$in", c.in)
      BY <1>5, <1>7, <2>1, <3>1, PutNothing, NoExclusion
    <3>3. DOMAIN m = {"$in"} /\ m["$in"] = c.in
      BY <3>1, <3>2, PutOne
    <3> QED BY <1>6, <2>2, <3>3 DEF MongoKey
  <2>3. CASE o = "nin"
    <3>1. c.in = <<>> /\ c.ne = <<>> /\ c.nin # <<>>
      BY <1>1, <2>3 DEF Operators
    <3>2. m = Put(<<>>, "$nin", c.nin)
      BY <1>5, <1>7, <2>1, <3>1, PutNothing, NoExclusion
    <3>3. DOMAIN m = {"$nin"} /\ m["$nin"] = c.nin
      BY <3>1, <3>2, PutOne
    <3> QED BY <1>6, <2>3, <3>3 DEF MongoKey
  <2>4. CASE o = "ne"
    <3>1. c.in = <<>> /\ c.nin = <<>> /\ c.ne # <<>>
      BY <1>1, <2>4 DEF Operators
    <3>2. compared = <<>>
      BY <1>7, <2>1, <3>1, PutNothing
    <3>3. PICK k : k = IF Len(c.ne) = 1 THEN "$ne" ELSE "$nin"
      OBVIOUS
    <3>4. m = Put(<<>>, k, c.ne)
      BY <1>5, <3>2, <3>3 DEF ApplyMongoNotEquals
    <3>5. DOMAIN m = {k} /\ m[k] = c.ne
      BY <3>1, <3>4, PutOne
    <3> QED BY <1>6, <2>4, <3>3, <3>5 DEF MongoKey
  <2> QED BY <1>9, <2>2, <2>3, <2>4
<1> QED BY <1>8, <1>9

LEMMA ConvertBetween ==
    ASSUME NEW c, Used(c) = {"between"}, NEW M, M = ConvertFilterConditionToMongoFilter(c)
    PROVE  /\ DOMAIN M = {"$gte", "$lte"}
           /\ M["$gte"] = <<c.between[1]>> /\ M["$lte"] = <<c.between[2]>>
<1>1. c.between # <<>> /\ \A op \in Operators : op # "between" => c[op] = <<>>
  BY UsedOnly
<1>2. /\ c.gt = <<>> /\ c.gte = <<>> /\ c.lt = <<>> /\ c.lte = <<>> /\ c.like = <<>>
      /\ c.eq = <<>> /\ c.ne = <<>> /\ c.in = <<>> /\ c.nin = <<>>
  BY <1>1 DEF Operators
<1>3. PICK from, both : /\ from = Put(<<>>, "$gte", <<c.between[1]>>)
                        /\ both = Put(from, "$lte", <<c.between[2]>>)
  OBVIOUS
<1>4. (IF Len(c.eq) > 1 THEN Put(<<>>, "$in", c.eq) ELSE <<>>) = <<>>
  BY <1>2, PutNothing
<1>5. ApplyMongoComparisonOperators(<<>>, c) = both
  <2>1. Put(Put(Put(Put(<<>>, "$gt", c.gt), "$gte", c.gte), "$lt", c.lt), "$lte", c.lte) = <<>>
    <3>1. Put(Put(<<>>, "$gt", c.gt), "$gte", c.gte) = <<>>
      BY ONLY <1>2, PutNothing, Zenon
    <3>2. Put(Put(<<>>, "$lt", c.lt), "$lte", c.lte) = <<>>
      BY ONLY <1>2, PutNothing, Zenon
    <3> QED BY ONLY <3>1, <3>2, Zenon
  <2>2. Put(Put(both, "$in", c.in), "$nin", c.nin) = both
    BY <1>2, PutNothing, Zenon
  <2> QED BY <1>1, <1>3, <2>1, <2>2, Zenon DEF ApplyMongoComparisonOperators
<1>6. ApplyMongoNotEquals(both, c) = both
  BY <1>2, NoExclusion
<1>7. M = IF DOMAIN both = {} THEN Put(<<>>, "$eq", c.eq) ELSE both
  BY <1>2, <1>4, <1>5, <1>6, Converted
<1>8. DOMAIN from = {"$gte"} /\ from["$gte"] = <<c.between[1]>>
  BY <1>3, PutOne
<1>9. /\ DOMAIN both = {"$gte", "$lte"}
      /\ both["$gte"] = <<c.between[1]>> /\ both["$lte"] = <<c.between[2]>>
  <2>1. PICK s : s = <<c.between[2]>> /\ s # <<>>
    BY OneIsSome
  <2>2. PICK k : k = "$lte" /\ k \notin DOMAIN from
    BY <1>8
  <2>3. both = Put(from, k, s)
    BY <1>3, <2>1, <2>2
  <2>4. DOMAIN both = DOMAIN from \cup {k}
    BY <2>1, <2>3, PutDomain, Zenon
  <2>5. both[k] = s
    BY <2>1, <2>3, PutThere, Zenon
  <2>6. ASSUME NEW x \in DOMAIN from PROVE both[x] = from[x]
    BY <2>2, <2>3, PutElsewhere, Zenon
  <2> QED BY <1>8, <2>1, <2>2, <2>4, <2>5, <2>6
<1> QED BY <1>7, <1>9

LEMMA ConvertComparisons ==
    ASSUME NEW c, Used(c) \subseteq Comparisons, Used(c) # {},
           NEW M, M = ConvertFilterConditionToMongoFilter(c)
    PROVE  /\ DOMAIN M \subseteq {"$gt", "$gte", "$lt", "$lte"}
           /\ ("$gt" \in DOMAIN M <=> c.gt # <<>>) /\ (c.gt # <<>> => M["$gt"] = c.gt)
           /\ ("$gte" \in DOMAIN M <=> c.gte # <<>>) /\ (c.gte # <<>> => M["$gte"] = c.gte)
           /\ ("$lt" \in DOMAIN M <=> c.lt # <<>>) /\ (c.lt # <<>> => M["$lt"] = c.lt)
           /\ ("$lte" \in DOMAIN M <=> c.lte # <<>>) /\ (c.lte # <<>> => M["$lte"] = c.lte)
<1>1. /\ c.between = <<>> /\ c.like = <<>> /\ c.eq = <<>> /\ c.ne = <<>> /\ c.in = <<>> /\ c.nin = <<>>
      /\ c.gt # <<>> \/ c.gte # <<>> \/ c.lt # <<>> \/ c.lte # <<>>
  BY DEF Used, Operators, Comparisons
<1>2. PICK gt : gt = Put(<<>>, "$gt", c.gt)
  OBVIOUS
<1>3. PICK gte : gte = Put(gt, "$gte", c.gte)
  OBVIOUS
<1>4. PICK lt : lt = Put(gte, "$lt", c.lt)
  OBVIOUS
<1>5. PICK lte : lte = Put(lt, "$lte", c.lte)
  OBVIOUS
<1>6. (IF Len(c.eq) > 1 THEN Put(<<>>, "$in", c.eq) ELSE <<>>) = <<>>
  BY <1>1, PutNothing
<1>7. ApplyMongoComparisonOperators(<<>>, c) = lte
  BY <1>1, <1>2, <1>3, <1>4, <1>5, PutNothing, Zenon DEF ApplyMongoComparisonOperators
<1>8. ApplyMongoNotEquals(lte, c) = lte
  BY <1>1, NoExclusion
<1>9. M = IF DOMAIN lte = {} THEN Put(<<>>, "$eq", c.eq) ELSE lte
  BY <1>1, <1>6, <1>7, <1>8, Converted
<1>10. DOMAIN gt = (IF c.gt = <<>> THEN {} ELSE {"$gt"}) /\ (c.gt # <<>> => gt["$gt"] = c.gt)
  BY <1>2, PutOne, PutNothing, EmptyMap
<1>12. /\ DOMAIN gte = DOMAIN gt \cup (IF c.gte = <<>> THEN {} ELSE {"$gte"})
       /\ (c.gte # <<>> => gte["$gte"] = c.gte) /\ \A x \in DOMAIN gt : gte[x] = gt[x]
  <2>1. PICK k : k = "$gte" /\ k \notin DOMAIN gt
    BY <1>10
  <2>2. PICK s : s = c.gte
    OBVIOUS
  <2>3. gte = Put(gt, k, s)
    BY <1>3, <2>1, <2>2
  <2>4. k \notin DOMAIN gt
    BY <2>1
  <2>5. CASE s = <<>>
    BY <2>2, <2>3, <2>5, PutNothing
  <2>6. CASE s # <<>>
    <3>1. DOMAIN gte = DOMAIN gt \cup {k}
      BY <2>3, <2>6, PutDomain, Zenon
    <3>2. gte[k] = s
      BY <2>3, <2>6, PutThere, Zenon
    <3>3. ASSUME NEW x \in DOMAIN gt PROVE gte[x] = gt[x]
      BY <2>3, <2>4, PutElsewhere, Zenon
    <3> QED BY <2>1, <2>2, <2>6, <3>1, <3>2, <3>3
  <2> QED BY <2>5, <2>6
<1>13. /\ DOMAIN lt = DOMAIN gte \cup (IF c.lt = <<>> THEN {} ELSE {"$lt"})
       /\ (c.lt # <<>> => lt["$lt"] = c.lt) /\ \A x \in DOMAIN gte : lt[x] = gte[x]
  <2>1. PICK k : k = "$lt" /\ k \notin DOMAIN gte
    BY <1>10, <1>12
  <2>2. PICK s : s = c.lt
    OBVIOUS
  <2>3. lt = Put(gte, k, s)
    BY <1>4, <2>1, <2>2
  <2>4. k \notin DOMAIN gte
    BY <2>1
  <2>5. CASE s = <<>>
    BY <2>2, <2>3, <2>5, PutNothing
  <2>6. CASE s # <<>>
    <3>1. DOMAIN lt = DOMAIN gte \cup {k}
      BY <2>3, <2>6, PutDomain, Zenon
    <3>2. lt[k] = s
      BY <2>3, <2>6, PutThere, Zenon
    <3>3. ASSUME NEW x \in DOMAIN gte PROVE lt[x] = gte[x]
      BY <2>3, <2>4, PutElsewhere, Zenon
    <3> QED BY <2>1, <2>2, <2>6, <3>1, <3>2, <3>3
  <2> QED BY <2>5, <2>6
<1>14. /\ DOMAIN lte = DOMAIN lt \cup (IF c.lte = <<>> THEN {} ELSE {"$lte"})
       /\ (c.lte # <<>> => lte["$lte"] = c.lte) /\ \A x \in DOMAIN lt : lte[x] = lt[x]
  <2>1. PICK k : k = "$lte" /\ k \notin DOMAIN lt
    BY <1>10, <1>12, <1>13
  <2>2. PICK s : s = c.lte
    OBVIOUS
  <2>3. lte = Put(lt, k, s)
    BY <1>5, <2>1, <2>2
  <2>4. k \notin DOMAIN lt
    BY <2>1
  <2>5. CASE s = <<>>
    BY <2>2, <2>3, <2>5, PutNothing
  <2>6. CASE s # <<>>
    <3>1. DOMAIN lte = DOMAIN lt \cup {k}
      BY <2>3, <2>6, PutDomain, Zenon
    <3>2. lte[k] = s
      BY <2>3, <2>6, PutThere, Zenon
    <3>3. ASSUME NEW x \in DOMAIN lt PROVE lte[x] = lt[x]
      BY <2>3, <2>4, PutElsewhere, Zenon
    <3> QED BY <2>1, <2>2, <2>6, <3>1, <3>2, <3>3
  <2> QED BY <2>5, <2>6
<1>15. M = lte
  BY <1>1, <1>9, <1>10, <1>12, <1>13, <1>14
<1> QED BY <1>10, <1>12, <1>13, <1>14, <1>15

(* The value of a document that the server compares. *)
ValueIn(d, f) == IF f \in DOMAIN d THEN d[f] ELSE Null

LEMMA EvaluatesEqual ==
    ASSUME NEW d, NEW f, NEW k \in {"$eq", "$in"}, NEW s
    PROVE  Evaluates(d, f, k, s) <=> \E x \in Range(s) : ValueIn(d, f) = x
BY Zenon DEF Evaluates, ValueIn

LEMMA EvaluatesUnequal ==
    ASSUME NEW d, NEW f, NEW k, k = "$ne" \/ k = "$nin", NEW s
    PROVE  Evaluates(d, f, k, s) <=> \A x \in Range(s) : ValueIn(d, f) # x
<1>1. k # "$eq" /\ k # "$in"
  OBVIOUS
<1> QED BY <1>1, Zenon DEF Evaluates, ValueIn

LEMMA EvaluatesOrder ==
    ASSUME NEW d, NEW f, NEW s
    PROVE  /\ Evaluates(d, f, "$gt", s)
                <=> ValueIn(d, f).kind = s[1].kind /\ Stands(ValueIn(d, f), "gt", s[1])
           /\ Evaluates(d, f, "$gte", s)
                <=> ValueIn(d, f).kind = s[1].kind /\ Stands(ValueIn(d, f), "gte", s[1])
           /\ Evaluates(d, f, "$lt", s)
                <=> ValueIn(d, f).kind = s[1].kind /\ Stands(ValueIn(d, f), "lt", s[1])
           /\ Evaluates(d, f, "$lte", s)
                <=> ValueIn(d, f).kind = s[1].kind /\ Stands(ValueIn(d, f), "lte", s[1])
<1>1. Evaluates(d, f, "$gt", s)
        <=> ValueIn(d, f).kind = s[1].kind /\ Stands(ValueIn(d, f), "gt", s[1])
  BY Zenon DEF Evaluates, ValueIn
<1>2. Evaluates(d, f, "$gte", s)
        <=> ValueIn(d, f).kind = s[1].kind /\ Stands(ValueIn(d, f), "gte", s[1])
  BY Zenon DEF Evaluates, ValueIn
<1>3. Evaluates(d, f, "$lt", s)
        <=> ValueIn(d, f).kind = s[1].kind /\ Stands(ValueIn(d, f), "lt", s[1])
  BY Zenon DEF Evaluates, ValueIn
<1>4. Evaluates(d, f, "$lte", s)
        <=> ValueIn(d, f).kind = s[1].kind /\ Stands(ValueIn(d, f), "lte", s[1])
  BY Zenon DEF Evaluates, ValueIn
<1> QED BY <1>1, <1>2, <1>3, <1>4

(* A value that is no moment is the same as another, or comparable with it,  *)
(* only within its own kind.                                                *)
LEMMA SameIsEqual ==
    ASSUME NEW v \in Value, NEW x \in Value, x.kind \notin Moments
    PROVE  Same(v, x) <=> v = x
<1>1. Comparable(v, x) <=> v.kind = x.kind
  BY DEF Comparable
<1>2. At(x) = x.at
  BY DEF At, Moments
<1>3. v.kind = x.kind => At(v) = v.at
  BY DEF At, Moments
<1>4. v = [kind |-> v.kind, at |-> v.at] /\ x = [kind |-> x.kind, at |-> x.at]
  BY DEF Value
<1> QED BY <1>1, <1>2, <1>3, <1>4 DEF Same

LEMMA StandsWithin ==
    ASSUME NEW v, NEW x, x.kind \notin Moments, NEW op
    PROVE  Stands(v, op, x) => v.kind = x.kind
<1>1. Stands(v, op, x) => Comparable(v, x)
  BY Zenon DEF Stands
<1> QED BY <1>1 DEF Comparable

LEMMA MeetsEmpty ==
    ASSUME NEW c, \A op \in Operators : c[op] = <<>>, NEW v, NEW dated
    PROVE  Meets(v, c, dated)
<1>1. /\ c.eq = <<>> /\ c.between = <<>> /\ c.in = <<>>
      /\ Range(c.nin) = {} /\ Range(c.ne) = {} /\ Range(c.like) = {}
      /\ \A op \in Comparisons : Range(c[op]) = {}
  BY EmptyRange DEF Operators, Comparisons
<1> QED BY <1>1, Zenon DEF Meets

LEMMA MeetsOne ==
    ASSUME NEW c, NEW o \in {"eq", "in", "nin", "ne", "between"}, Used(c) = {o}, NEW v, NEW dated
    PROVE  /\ o = "eq" => (Meets(v, c, dated) <=> \E x \in Range(c.eq) : Same(v, x))
           /\ o = "in" => (Meets(v, c, dated) <=> \E x \in Range(c.in) : Same(v, x))
           /\ o = "nin" => (Meets(v, c, dated) <=> \A x \in Range(c.nin) : ~Same(v, x))
           /\ o = "ne" => (Meets(v, c, dated) <=> \A x \in Range(c.ne) : ~Same(v, x))
           /\ o = "between" => (Meets(v, c, dated) <=>
                  Stands(v, "gte", c.between[1]) /\ Stands(v, "lte", EndOf(c.between[2], dated)))
<1>1. c[o] # <<>> /\ \A op \in Operators : op # o => c[op] = <<>>
  BY UsedOnly
<1>2. /\ \A op \in Comparisons : Range(c[op]) = {}
      /\ Range(c.like) = {}
  BY <1>1, EmptyRange DEF Operators, Comparisons
<1>3. /\ o # "eq" => c.eq = <<>> /\ Range(c.eq) = {}
      /\ o # "in" => c.in = <<>> /\ Range(c.in) = {}
      /\ o # "nin" => c.nin = <<>> /\ Range(c.nin) = {}
      /\ o # "ne" => c.ne = <<>> /\ Range(c.ne) = {}
      /\ o # "between" => c.between = <<>>
  BY <1>1, EmptyRange DEF Operators
<1>4. CASE o = "eq"
  <2>1. c.in = <<>> /\ Range(c.nin) = {} /\ Range(c.ne) = {} /\ c.between = <<>> /\ c.eq # <<>>
    BY <1>1, <1>3, <1>4
  <2>2. Meets(v, c, dated) <=> \E x \in Range(c.eq) : Same(v, x)
    BY <1>2, <2>1, Zenon DEF Meets
  <2> QED BY <1>4, <2>2
<1>5. CASE o = "in"
  <2>1. c.eq = <<>> /\ Range(c.nin) = {} /\ Range(c.ne) = {} /\ c.between = <<>> /\ c.in # <<>>
    BY <1>1, <1>3, <1>5
  <2>2. Meets(v, c, dated) <=> \E x \in Range(c.in) : Same(v, x)
    BY <1>2, <2>1, Zenon DEF Meets
  <2> QED BY <1>5, <2>2
<1>6. CASE o = "nin"
  <2>1. c.eq = <<>> /\ c.in = <<>> /\ Range(c.ne) = {} /\ c.between = <<>>
    BY <1>3, <1>6
  <2>2. Meets(v, c, dated) <=> \A x \in Range(c.nin) : ~Same(v, x)
    BY <1>2, <2>1, Zenon DEF Meets
  <2> QED BY <1>6, <2>2
<1>7. CASE o = "ne"
  <2>1. c.eq = <<>> /\ c.in = <<>> /\ Range(c.nin) = {} /\ c.between = <<>>
    BY <1>3, <1>7
  <2>2. Meets(v, c, dated) <=> \A x \in Range(c.ne) : ~Same(v, x)
    BY <1>2, <2>1, Zenon DEF Meets
  <2> QED BY <1>7, <2>2
<1>8. CASE o = "between"
  <2>1. c.eq = <<>> /\ c.in = <<>> /\ Range(c.nin) = {} /\ Range(c.ne) = {} /\ c.between # <<>>
    BY <1>1, <1>3, <1>8
  <2>2. Meets(v, c, dated)
          <=> Stands(v, "gte", c.between[1]) /\ Stands(v, "lte", EndOf(c.between[2], dated))
    BY <1>2, <2>1, Zenon DEF Meets
  <2> QED BY <1>8, <2>2
<1> QED BY <1>4, <1>5, <1>6, <1>7, <1>8

LEMMA FirstOfOne == ASSUME NEW a PROVE <<a>>[1] = a
OBVIOUS

(* A document passes the operators of a condition that can be said to Mongo  *)
(* just when its value meets the condition.                                 *)
LEMMA OperatorsMeet ==
    ASSUME NEW c, IsCondition(c), Mongoable(c), c.like = <<>>, ~IsFilterConditionEmpty(c),
           ValidateFilterCondition(c), NEW d, NEW f, NEW v \in Value, v = ValueIn(d, f),
           NEW M, M = ConvertFilterConditionToMongoFilter(c)
    PROVE  (\A k \in DOMAIN M : Evaluates(d, f, k, M[k])) <=> Meets(v, c, FALSE)
<1>0. PICK passes \in BOOLEAN : passes <=> \A k \in DOMAIN M : Evaluates(d, f, k, M[k])
  OBVIOUS
<1>1. ASSUME NEW op \in Operators
      PROVE  c[op] \in Seq(Value) /\ \A x \in Range(c[op]) : x \in Value /\ x.kind \notin Moments
  <2>1. c[op] \in Seq(Value)
    BY DEF IsCondition
  <2>2. ASSUME NEW x \in Range(c[op]) PROVE x \in Value
    BY <2>1 DEF Range
  <2>3. ASSUME NEW x \in Range(c[op]) PROVE x.kind \notin Moments
    <3>1. c[op] # <<>>
      BY EmptyRange
    <3> QED BY <3>1 DEF Mongoable
  <2> QED BY <2>1, <2>2, <2>3
<1>2. ASSUME NEW op \in Operators, NEW x \in Range(c[op]) PROVE Same(v, x) <=> v = x
  BY <1>1, SameIsEqual
<1>3. (\E op \in Operators : Used(c) = {op}) \/ Used(c) \subseteq Comparisons
  BY DEF Mongoable, Used, Comparisons
<1>4. Used(c) # {}
  BY DEF Used, IsFilterConditionEmpty
<1>5. ASSUME NEW o \in {"eq", "in"}, Used(c) = {o}
      PROVE  passes <=> Meets(v, c, FALSE)
  <2>1. PICK k : k = MongoKey(c, o) /\ k \in {"$eq", "$in"}
    BY <1>5 DEF MongoKey
  <2>2. DOMAIN M = {k} /\ M[k] = c[o]
    <3>1. o \in {"eq", "in", "nin", "ne"} /\ M = ConvertFilterConditionToMongoFilter(c)
      OBVIOUS
    <3> QED BY ONLY <1>5, <2>1, <3>1, ConvertSingle
  <2>3. passes <=> Evaluates(d, f, k, c[o])
    BY <1>0, <2>2
  <2>4. Evaluates(d, f, k, c[o]) <=> \E x \in Range(c[o]) : v = x
    BY <2>1, EvaluatesEqual
  <2>5. o \in Operators
    BY DEF Operators
  <2>6. Meets(v, c, FALSE) <=> \E x \in Range(c[o]) : Same(v, x)
    BY <1>5, MeetsOne
  <2> QED BY <1>2, <2>3, <2>4, <2>5, <2>6
<1>6. ASSUME NEW o \in {"nin", "ne"}, Used(c) = {o}
      PROVE  passes <=> Meets(v, c, FALSE)
  <2>1. PICK k : k = MongoKey(c, o) /\ (k = "$ne" \/ k = "$nin")
    BY <1>6 DEF MongoKey
  <2>2. DOMAIN M = {k} /\ M[k] = c[o]
    <3>1. o \in {"eq", "in", "nin", "ne"} /\ M = ConvertFilterConditionToMongoFilter(c)
      OBVIOUS
    <3> QED BY ONLY <1>6, <2>1, <3>1, ConvertSingle
  <2>3. passes <=> Evaluates(d, f, k, c[o])
    BY <1>0, <2>2
  <2>4. Evaluates(d, f, k, c[o]) <=> \A x \in Range(c[o]) : v # x
    BY <2>1, EvaluatesUnequal
  <2>5. o \in Operators
    BY DEF Operators
  <2>6. Meets(v, c, FALSE) <=> \A x \in Range(c[o]) : ~Same(v, x)
    BY <1>6, MeetsOne
  <2> QED BY <1>2, <2>3, <2>4, <2>5, <2>6
<1>7. CASE Used(c) = {"between"}
  <2>1. PICK a, b : a = c.between[1] /\ b = c.between[2]
    OBVIOUS
  <2>2. a.kind \notin Moments /\ b.kind \notin Moments
    <3>1. c.between \in Seq(Value) /\ Len(c.between) \in {0, 2} /\ c.between # <<>>
      BY <1>1, <1>7, UsedOnly DEF ValidateFilterCondition, Operators
    <3>2. Len(c.between) = 2
      BY <3>1
    <3>3. a \in Range(c.between) /\ b \in Range(c.between)
      BY <2>1, <3>1, <3>2 DEF Range
    <3> QED BY <1>1, <3>3 DEF Operators
  <2>3. DOMAIN M = {"$gte", "$lte"} /\ M["$gte"] = <<a>> /\ M["$lte"] = <<b>>
    BY <1>7, <2>1, ConvertBetween
  <2>4. passes <=> Evaluates(d, f, "$gte", <<a>>) /\ Evaluates(d, f, "$lte", <<b>>)
    BY <1>0, <2>3
  <2>5. Evaluates(d, f, "$gte", <<a>>) <=> v.kind = a.kind /\ Stands(v, "gte", a)
    <3>1. PICK s : s = <<a>> /\ s[1] = a
      BY FirstOfOne
    <3> QED BY <3>1, EvaluatesOrder
  <2>6. Evaluates(d, f, "$lte", <<b>>) <=> v.kind = b.kind /\ Stands(v, "lte", b)
    <3>1. PICK s : s = <<b>> /\ s[1] = b
      BY FirstOfOne
    <3> QED BY <3>1, EvaluatesOrder
  <2>7. EndOf(b, FALSE) = b
    BY DEF EndOf
  <2>8. Meets(v, c, FALSE) <=> Stands(v, "gte", a) /\ Stands(v, "lte", b)
    <3>1. PICK o \in {"eq", "in", "nin", "ne", "between"} : o = "between"
      OBVIOUS
    <3>2. Meets(v, c, FALSE) <=>
            Stands(v, "gte", c.between[1]) /\ Stands(v, "lte", EndOf(c.between[2], FALSE))
      BY <1>7, <3>1, MeetsOne
    <3> QED BY <2>1, <2>7, <3>2
  <2>9. (Stands(v, "gte", a) => v.kind = a.kind) /\ (Stands(v, "lte", b) => v.kind = b.kind)
    BY <2>2, StandsWithin
  <2> QED BY <1>0, <2>4, <2>5, <2>6, <2>8, <2>9, Zenon
<1>8. CASE Used(c) \subseteq Comparisons
  <2>1. /\ DOMAIN M \subseteq {"$gt", "$gte", "$lt", "$lte"}
        /\ ("$gt" \in DOMAIN M <=> c.gt # <<>>) /\ (c.gt # <<>> => M["$gt"] = c.gt)
        /\ ("$gte" \in DOMAIN M <=> c.gte # <<>>) /\ (c.gte # <<>> => M["$gte"] = c.gte)
        /\ ("$lt" \in DOMAIN M <=> c.lt # <<>>) /\ (c.lt # <<>> => M["$lt"] = c.lt)
        /\ ("$lte" \in DOMAIN M <=> c.lte # <<>>) /\ (c.lte # <<>> => M["$lte"] = c.lte)
    BY <1>4, <1>8, ConvertComparisons
  <2>2. passes <=> /\ c.gt # <<>> => Evaluates(d, f, "$gt", c.gt)
                   /\ c.gte # <<>> => Evaluates(d, f, "$gte", c.gte)
                   /\ c.lt # <<>> => Evaluates(d, f, "$lt", c.lt)
                   /\ c.lte # <<>> => Evaluates(d, f, "$lte", c.lte)
    BY <1>0, <2>1
  <2>3. ASSUME NEW op \in Comparisons, c[op] # <<>>
        PROVE  Range(c[op]) = {c[op][1]} /\ c[op][1].kind \notin Moments
    <3>1. op \in Operators /\ Len(c[op]) \in {0, 1}
      BY DEF Comparisons, Operators, ValidateFilterCondition
    <3>2. Range(c[op]) = {c[op][1]}
      BY <1>1, <2>3, <3>1, RangeOfOne
    <3> QED BY <1>1, <3>1, <3>2
  <2>4. ASSUME NEW op \in Comparisons PROVE
          (c[op] # <<>> => v.kind = c[op][1].kind /\ Stands(v, op, c[op][1]))
            <=> \A x \in Range(c[op]) : Stands(v, op, x)
    <3>1. CASE c[op] = <<>>
      BY <3>1, EmptyRange
    <3>2. CASE c[op] # <<>>
      <4>1. PICK y : y = c[op][1]
        OBVIOUS
      <4>2. Range(c[op]) = {y} /\ y.kind \notin Moments
        BY <2>3, <3>2, <4>1
      <4>3. Stands(v, op, y) => v.kind = y.kind
        BY <4>2, StandsWithin
      <4> QED BY <3>2, <4>1, <4>2, <4>3
    <3> QED BY <3>1, <3>2
  <2>5. passes <=> \A op \in Comparisons : \A x \in Range(c[op]) : Stands(v, op, x)
    <3>1. "gt" \in Comparisons /\ "gte" \in Comparisons /\ "lt" \in Comparisons /\ "lte" \in Comparisons
          /\ \A op \in Comparisons : op = "gt" \/ op = "gte" \/ op = "lt" \/ op = "lte"
      BY DEF Comparisons
    <3>2. (c.gt # <<>> => Evaluates(d, f, "$gt", c.gt)) <=> \A x \in Range(c.gt) : Stands(v, "gt", x)
      BY <2>4, <3>1, EvaluatesOrder
    <3>3. (c.gte # <<>> => Evaluates(d, f, "$gte", c.gte)) <=> \A x \in Range(c.gte) : Stands(v, "gte", x)
      BY <2>4, <3>1, EvaluatesOrder
    <3>4. (c.lt # <<>> => Evaluates(d, f, "$lt", c.lt)) <=> \A x \in Range(c.lt) : Stands(v, "lt", x)
      BY <2>4, <3>1, EvaluatesOrder
    <3>5. (c.lte # <<>> => Evaluates(d, f, "$lte", c.lte)) <=> \A x \in Range(c.lte) : Stands(v, "lte", x)
      BY <2>4, <3>1, EvaluatesOrder
    <3> QED BY <2>2, <3>1, <3>2, <3>3, <3>4, <3>5
  <2>6. /\ c.eq = <<>> /\ c.between = <<>> /\ c.in = <<>>
        /\ Range(c.nin) = {} /\ Range(c.ne) = {} /\ Range(c.like) = {}
    BY <1>8, EmptyRange DEF Used, Operators, Comparisons
  <2>7. Meets(v, c, FALSE) <=> \A op \in Comparisons : \A x \in Range(c[op]) : Stands(v, op, x)
    BY <2>6, Zenon DEF Meets
  <2> QED BY <1>0, <2>5, <2>7, Zenon
<1>9. ~(Used(c) = {"like"})
  BY UsedOnly
<1>10. ASSUME NEW op \in Operators, Used(c) = {op}
       PROVE  op \in {"eq", "in", "nin", "ne", "between"} \/ Used(c) \subseteq Comparisons
  BY <1>9, <1>10 DEF Operators, Comparisons
<1>11. passes <=> Meets(v, c, FALSE)
  <2>1. CASE Used(c) \subseteq Comparisons
    BY <1>0, <1>8, <2>1, Zenon
  <2>2. ASSUME NEW o \in {"eq", "in", "nin", "ne", "between"}, Used(c) = {o}
        PROVE  passes <=> Meets(v, c, FALSE)
    <3>1. o \in {"eq", "in"} \/ o \in {"nin", "ne"} \/ o = "between"
      OBVIOUS
    <3> QED BY <1>0, <1>5, <1>6, <1>7, <2>2, <3>1, Zenon
  <2> QED BY <1>0, <1>3, <1>10, <2>1, <2>2, Zenon
<1> QED BY <1>0, <1>11

-----------------------------------------------------------------------------
(* What the Mongo driver answers, and the CRM source through it.             *)

(* Every condition that says something is valid, and passed. *)
LEMMA MongoAnswer ==
    ASSUME NEW b, NEW n, NEW fields, NEW filter, NEW answer,
           answer = QueryWithAdvancedFilters(b, n, fields, filter), answer # Failed
    PROVE  /\ answer.fields = Projection(Documents(b, n), fields)
           /\ \A f \in DOMAIN filter : ~IsFilterConditionEmpty(filter[f]) => ValidateFilterCondition(filter[f])
           /\ \A d : d \in answer.rows <=>
                /\ d \in Documents(b, n)
                /\ \A f \in DOMAIN filter : ~IsFilterConditionEmpty(filter[f]) =>
                     \A k \in DOMAIN ConvertFilterConditionToMongoFilter(filter[f]) :
                       Evaluates(d, f, k, ConvertFilterConditionToMongoFilter(filter[f])[k])
<1>1. PICK docs, m : docs = Documents(b, n) /\ m = BuildMongoFilter(filter)
  OBVIOUS
<1>2. /\ \A f \in DOMAIN filter : ~IsFilterConditionEmpty(filter[f]) => ValidateFilterCondition(filter[f])
      /\ answer = [fields |-> Projection(docs, fields), rows |-> Find(docs, m)]
  BY <1>1 DEF QueryWithAdvancedFilters
<1>3. answer.fields = Projection(docs, fields) /\ answer.rows = Find(docs, m)
  BY <1>2
<1>4. PICK F : F = {g \in DOMAIN filter : ~IsFilterConditionEmpty(filter[g])}
  OBVIOUS
<1>5. DOMAIN m = F /\ \A f \in F : m[f] = ConvertFilterConditionToMongoFilter(filter[f])
  BY <1>1, <1>4 DEF BuildMongoFilter
<1>6. \A d : d \in Find(docs, m) <=>
        d \in docs /\ \A f \in DOMAIN m : \A k \in DOMAIN m[f] : Evaluates(d, f, k, m[f][k])
  BY DEF Find
<1>7. \A d : d \in answer.rows <=> d \in docs /\ \A f \in F :
        \A k \in DOMAIN ConvertFilterConditionToMongoFilter(filter[f]) :
          Evaluates(d, f, k, ConvertFilterConditionToMongoFilter(filter[f])[k])
  BY <1>3, <1>5, <1>6
<1> QED BY <1>1, <1>2, <1>3, <1>4, <1>7

HashedValue(x) == IF x.kind \in Strings THEN V("hash", HashOf[x.at]) ELSE x

HashedCondition(c) ==
    [op \in Operators |-> IF op \in {"ne", "like"} THEN <<>> ELSE HashFilterValues(c[op])]

LEMMA HashesValues ==
    ASSUME NEW s
    PROVE  /\ DOMAIN HashFilterValues(s) = DOMAIN s
           /\ Range(HashFilterValues(s)) = {HashedValue(x) : x \in Range(s)}
BY DEF HashFilterValues, HashedValue, Range

LEMMA HashesNothing ==
    ASSUME NEW S, NEW s \in Seq(S)
    PROVE  HashFilterValues(s) = <<>> <=> s = <<>>
<1>1. CASE s = <<>>
  BY <1>1 DEF HashFilterValues
<1>2. CASE s # <<>>
  <2>1. 1 \in DOMAIN s
    BY <1>2
  <2>2. 1 \in DOMAIN HashFilterValues(s)
    BY <2>1, HashesValues
  <2> QED BY <1>2, <2>2
<1> QED BY <1>1, <1>2

(* A hash finds the values of the text it was made of, and no others. *)
LEMMA HashFinds ==
    ASSUME NEW i \in DOMAIN HashOf, NEW x \in Value, x.kind \notin {"hash", "cipher", "null", "time"},
           x.kind \in Strings => x.kind = "text", x.kind = "text" => x.at \in DOMAIN HashOf
    PROVE  V("hash", HashOf[i]) = HashedValue(x) <=> Same(V("text", i), x)
<1>1. V("text", i).kind = "text" /\ V("text", i).at = i /\ At(V("text", i)) = i
  BY DEF V, At
<1>2. CASE x.kind \in Strings
  <2>1. x.kind = "text" /\ x.at \in DOMAIN HashOf /\ At(x) = x.at
    BY <1>2 DEF At
  <2>2. HashedValue(x) = V("hash", HashOf[x.at])
    BY <1>2 DEF HashedValue
  <2>3. V("hash", HashOf[i]) = V("hash", HashOf[x.at]) <=> HashOf[i] = HashOf[x.at]
    BY DEF V
  <2>4. HashOf[i] = HashOf[x.at] <=> i = x.at
    BY <2>1, WordsAssumption
  <2>5. Same(V("text", i), x) <=> i = x.at
    BY <1>1, <2>1 DEF Same, Comparable
  <2> QED BY <2>2, <2>3, <2>4, <2>5
<1>3. CASE x.kind \notin Strings
  <2>1. HashedValue(x) = x
    BY <1>3 DEF HashedValue
  <2>2. V("hash", HashOf[i]).kind = "hash"
    BY DEF V
  <2>3. V("hash", HashOf[i]) # x
    BY <2>2
  <2>4. ~Comparable(V("text", i), x)
    BY <1>1, <1>3 DEF Comparable, Moments, Strings
  <2>5. ~Same(V("text", i), x)
    BY <2>4 DEF Same
  <2> QED BY <2>1, <2>3, <2>5
<1> QED BY <1>2, <1>3

LEMMA SearchFieldsAre ==
    /\ DOMAIN SearchFields = {"document", "name", "banking_details.iban", "contact.primary_email"}
    /\ SearchFields["document"] = "search.document" /\ SearchFields["name"] = "search.name"
    /\ SearchFields["banking_details.iban"] = "search.banking_details_iban"
    /\ SearchFields["contact.primary_email"] = "search.contact_primary_email"
BY DEF SearchFields

LEMMA SearchFieldsDiffer ==
    /\ \A x, y \in DOMAIN SearchFields : SearchFields[x] = SearchFields[y] => x = y
    /\ DOMAIN SearchFields \subseteq EncryptedFields
    /\ \A x \in DOMAIN SearchFields : SearchFields[x] \in Range(SearchFields)
<1>1. \A x, y \in DOMAIN SearchFields : SearchFields[x] = SearchFields[y] => x = y
  BY SearchFieldsAre
<1>2. DOMAIN SearchFields \subseteq EncryptedFields
  BY SearchFieldsAre DEF EncryptedFields, TopLevelFields, NestedFields, ContactFields,
     BankingDetailsFields
<1>3. \A x \in DOMAIN SearchFields : SearchFields[x] \in Range(SearchFields)
  BY DEF Range
<1> QED BY <1>1, <1>2, <1>3

(* The filter that is sent: hashes under the search fields, the rest as it   *)
(* is.                                                                      *)
LEMMA TransformIs ==
    ASSUME NEW filter, \A g \in DOMAIN filter : g \notin Range(SearchFields),
           NEW T, T = TransformPluginCRMAdvancedFilters(filter)
    PROVE  /\ DOMAIN T = {SearchFields[x] : x \in DOMAIN filter \cap DOMAIN SearchFields}
                         \cup (DOMAIN filter \ DOMAIN SearchFields)
           /\ \A f \in DOMAIN filter \cap DOMAIN SearchFields :
                T[SearchFields[f]] = HashedCondition(filter[f])
           /\ \A f \in DOMAIN filter \ DOMAIN SearchFields : T[f] = filter[f]
<1>1. PICK searched : searched = DOMAIN filter \cap DOMAIN SearchFields
  OBVIOUS
<1>2. PICK search : search = {SearchFields[x] : x \in searched}
  OBVIOUS
<1>3. T = [f \in search \cup (DOMAIN filter \ searched) |->
             IF f \in search THEN HashedCondition(filter[CHOOSE x \in searched : SearchFields[x] = f])
             ELSE filter[f]]
  BY <1>1, <1>2 DEF TransformPluginCRMAdvancedFilters, HashedCondition
<1>4. DOMAIN T = search \cup (DOMAIN filter \ searched)
  BY <1>3
<1>5. ASSUME NEW f \in searched PROVE T[SearchFields[f]] = HashedCondition(filter[f])
  <2>1. PICK s : s = SearchFields[f] /\ s \in search
    BY <1>2
  <2>2. PICK x : x = CHOOSE y \in searched : SearchFields[y] = s
    OBVIOUS
  <2>3. x \in searched /\ SearchFields[x] = s
    BY <2>1, <2>2
  <2>4. x = f
    BY <1>1, <2>1, <2>3, SearchFieldsDiffer
  <2>5. T[s] = HashedCondition(filter[CHOOSE y \in searched : SearchFields[y] = s])
    BY <1>3, <2>1
  <2> QED BY <2>1, <2>2, <2>4, <2>5
<1>6. ASSUME NEW f \in DOMAIN filter \ searched PROVE T[f] = filter[f]
  <2>1. f \notin search
    BY <1>1, <1>2, SearchFieldsDiffer
  <2> QED BY <1>3, <2>1
<1>7. DOMAIN filter \ searched = DOMAIN filter \ DOMAIN SearchFields
  BY <1>1
<1> QED BY <1>1, <1>2, <1>4, <1>5, <1>6, <1>7

-----------------------------------------------------------------------------
(* Conditions on the fields that the CRM searches by their hashes.           *)

(* A searchable condition uses one operator, and its hashed form the same. *)
LEMMA SearchedUse ==
    ASSUME NEW c, IsCondition(c), Mongoable(c), ~IsFilterConditionEmpty(c), NEW f, Searchable(c, f)
    PROVE  \E o \in {"eq", "in", "nin"} :
             /\ Used(c) = {o} /\ Used(HashedCondition(c)) = {o}
             /\ HashedCondition(c)[o] = HashFilterValues(c[o])
<1>1. Used(c) \subseteq {"eq", "in", "nin"}
  BY DEF Searchable, Used
<1>2. Used(c) # {}
  BY DEF Used, IsFilterConditionEmpty
<1>3. (\E op \in Operators : Used(c) = {op}) \/ Used(c) \subseteq Comparisons
  BY DEF Mongoable, Used, Comparisons
<1>4. PICK o \in {"eq", "in", "nin"} : Used(c) = {o}
  BY <1>1, <1>2, <1>3 DEF Comparisons
<1>5. PICK h : h = HashedCondition(c)
  OBVIOUS
<1>6. \A op \in Operators : h[op] = IF op \in {"ne", "like"} THEN <<>> ELSE HashFilterValues(c[op])
  BY <1>5 DEF HashedCondition
<1>7. o \in Operators /\ h[o] = HashFilterValues(c[o])
  BY <1>6 DEF Operators
<1>8. ASSUME NEW op \in Operators PROVE c[op] \in Seq(Value)
  BY DEF IsCondition
<1>9. ASSUME NEW op \in Operators PROVE h[op] # <<>> <=> op = o
  <2>1. c[op] # <<>> <=> op = o
    BY <1>4 DEF Used
  <2>2. CASE op \in {"ne", "like"}
    BY <1>6, <2>2
  <2>3. CASE op \notin {"ne", "like"}
    <3>1. h[op] = HashFilterValues(c[op])
      BY <1>6, <2>3
    <3>2. HashFilterValues(c[op]) = <<>> <=> c[op] = <<>>
      BY <1>8, HashesNothing
    <3> QED BY <2>1, <3>1, <3>2
  <2> QED BY <2>2, <2>3
<1>10. Used(h) = {o}
  BY <1>7, <1>9 DEF Used
<1> QED BY <1>4, <1>5, <1>7, <1>10

LEMMA HashedMeets ==
    ASSUME NEW c, IsCondition(c), Mongoable(c), ~IsFilterConditionEmpty(c), NEW f, Searchable(c, f),
           NEW d, NEW g, NEW i \in DOMAIN HashOf, ValueIn(d, g) = V("hash", HashOf[i]),
           NEW M, M = ConvertFilterConditionToMongoFilter(HashedCondition(c))
    PROVE  (\A k \in DOMAIN M : Evaluates(d, g, k, M[k])) <=> Meets(V("text", i), c, FALSE)
<1>0. PICK passes \in BOOLEAN : passes <=> \A k \in DOMAIN M : Evaluates(d, g, k, M[k])
  OBVIOUS
<1>1. PICK h : h = HashedCondition(c)
  OBVIOUS
<1>2. PICK o \in {"eq", "in", "nin"} :
        Used(c) = {o} /\ Used(h) = {o} /\ h[o] = HashFilterValues(c[o])
  BY <1>1, SearchedUse
<1>3. PICK v, w : v = V("text", i) /\ w = V("hash", HashOf[i])
  OBVIOUS
<1>4. o \in Operators /\ c[o] # <<>>
  BY <1>2, UsedOnly DEF Operators
<1>5. ASSUME NEW x \in Range(c[o]) PROVE w = HashedValue(x) <=> Same(v, x)
  <2>1. x \in Value
    BY <1>4 DEF IsCondition, Range
  <2>2. x.kind \notin {"hash", "cipher", "null", "time"} /\ (x.kind = "text" => x.at \in DOMAIN HashOf)
    BY <1>4 DEF IsCondition
  <2>3. x.kind \in Strings => x.kind = "text"
    BY <1>4 DEF Searchable
  <2> QED BY <1>3, <2>1, <2>2, <2>3, HashFinds
<1>6. Range(h[o]) = {HashedValue(x) : x \in Range(c[o])}
  BY <1>2, HashesValues
<1>7. CASE o \in {"eq", "in"}
  <2>1. PICK k : k = MongoKey(h, o) /\ k \in {"$eq", "$in"}
    BY <1>7 DEF MongoKey
  <2>2. DOMAIN M = {k} /\ M[k] = h[o]
    <3>1. o \in {"eq", "in", "nin", "ne"} /\ M = ConvertFilterConditionToMongoFilter(h)
      BY <1>1
    <3> QED BY ONLY <1>2, <2>1, <3>1, ConvertSingle
  <2>3. passes <=> Evaluates(d, g, k, h[o])
    BY <1>0, <2>2
  <2>4. Evaluates(d, g, k, h[o]) <=> \E x \in Range(h[o]) : w = x
    BY <1>3, <2>1, EvaluatesEqual
  <2>5. (\E x \in Range(h[o]) : w = x) <=> \E x \in Range(c[o]) : Same(v, x)
    BY <1>5, <1>6
  <2>6. Meets(v, c, FALSE) <=> \E x \in Range(c[o]) : Same(v, x)
    BY <1>2, <1>7, MeetsOne
  <2> QED BY <1>0, <1>3, <2>3, <2>4, <2>5, <2>6, Zenon
<1>8. CASE o = "nin"
  <2>1. PICK k : k = MongoKey(h, o) /\ (k = "$ne" \/ k = "$nin")
    BY <1>8 DEF MongoKey
  <2>2. DOMAIN M = {k} /\ M[k] = h[o]
    <3>1. o \in {"eq", "in", "nin", "ne"} /\ M = ConvertFilterConditionToMongoFilter(h)
      BY <1>1
    <3> QED BY ONLY <1>2, <2>1, <3>1, ConvertSingle
  <2>3. passes <=> Evaluates(d, g, k, h[o])
    BY <1>0, <2>2
  <2>4. Evaluates(d, g, k, h[o]) <=> \A x \in Range(h[o]) : w # x
    BY <1>3, <2>1, EvaluatesUnequal
  <2>5. (\A x \in Range(h[o]) : w # x) <=> \A x \in Range(c[o]) : ~Same(v, x)
    BY <1>5, <1>6
  <2>6. Meets(v, c, FALSE) <=> \A x \in Range(c[o]) : ~Same(v, x)
    BY <1>2, <1>8, MeetsOne
  <2> QED BY <1>0, <1>3, <2>3, <2>4, <2>5, <2>6, Zenon
<1> QED BY <1>7, <1>8

(* Documents of a collection. *)
LEMMA DocumentsAre ==
    ASSUME NEW b, NEW n, NEW r \in Documents(b, n)
    PROVE  \E x \in b : <<x.name>> = n /\ r \in x.rows
BY DEF Documents

(* No document of the CRM is found that breaks a condition it can express.   *)
LEMMA CrmMeets ==
    ASSUME NEW b, NEW n, NEW fields, NEW filter, NEW keys, NEW answer,
           answer = QueryPluginCRMCollection(b, n, fields, filter, keys), answer # Failed,
           NEW d \in answer.rows, DocumentOf(d), \A g \in DOMAIN d : d[g] \in Value,
           \A g \in DOMAIN filter : g \notin Range(SearchFields) /\ IsCondition(filter[g]),
           NEW f \in DOMAIN filter, f \in DOMAIN d, d[f] # Null, Mongoable(filter[f]), filter[f].like = <<>>,
           f \in EncryptedFields => Searchable(filter[f], f)
    PROVE  Meets(DecryptFieldValue(d[f]), filter[f], FALSE)
<1>1. PICK c : c = filter[f] /\ IsCondition(c)
  OBVIOUS
<1>2. CASE IsFilterConditionEmpty(c)
  BY <1>1, <1>2, MeetsEmpty DEF IsFilterConditionEmpty
<1>3. CASE ~IsFilterConditionEmpty(c)
  <2>1. PICK T : T = TransformPluginCRMAdvancedFilters(filter)
    OBVIOUS
  <2>2. answer = QueryWithAdvancedFilters(b, <<n>>, fields, T)
    BY <2>1 DEF QueryPluginCRMCollection
  <2>t. /\ DOMAIN T = {SearchFields[x] : x \in DOMAIN filter \cap DOMAIN SearchFields}
                        \cup (DOMAIN filter \ DOMAIN SearchFields)
        /\ \A e \in DOMAIN filter \cap DOMAIN SearchFields :
             T[SearchFields[e]] = HashedCondition(filter[e])
        /\ \A e \in DOMAIN filter \ DOMAIN SearchFields : T[e] = filter[e]
    <3>1. \A e \in DOMAIN filter : e \notin Range(SearchFields)
      OBVIOUS
    <3> QED BY ONLY <2>1, <3>1, TransformIs
  <2>3. \A g \in DOMAIN T : ~IsFilterConditionEmpty(T[g]) =>
          /\ ValidateFilterCondition(T[g])
          /\ \A k \in DOMAIN ConvertFilterConditionToMongoFilter(T[g]) :
               Evaluates(d, g, k, ConvertFilterConditionToMongoFilter(T[g])[k])
    BY <2>2, MongoAnswer
  <2>4. CASE f \in DOMAIN SearchFields
    <3>1. PICK g : g = SearchFields[f]
      OBVIOUS
    <3>2. g \in DOMAIN T /\ T[g] = HashedCondition(c)
      BY <1>1, <2>4, <2>t, <3>1
    <3>3. Searchable(c, f)
      BY <1>1, <2>4, SearchFieldsDiffer
    <3>4. ~IsFilterConditionEmpty(T[g])
      <4>1. PICK o \in {"eq", "in", "nin"} : Used(HashedCondition(c)) = {o}
        BY <1>1, <1>3, <3>3, SearchedUse
      <4>2. T[g][o] # <<>> /\ o \in Operators
        BY <3>2, <4>1, UsedOnly DEF Operators
      <4> QED BY <4>2 DEF IsFilterConditionEmpty
    <3>5. PICK i : i = d[f].at
      OBVIOUS
    <3>6. d[f].kind = "cipher" /\ i \in DOMAIN HashOf /\ ValueIn(d, g) = V("hash", HashOf[i])
      BY <2>4, <3>1, <3>5 DEF DocumentOf, ValueIn
    <3>7. PICK M : M = ConvertFilterConditionToMongoFilter(HashedCondition(c))
      OBVIOUS
    <3>8. \A k \in DOMAIN M : Evaluates(d, g, k, M[k])
      BY <2>3, <3>2, <3>4, <3>7
    <3>9. Meets(V("text", i), c, FALSE)
      BY <1>1, <1>3, <3>3, <3>6, <3>7, <3>8, HashedMeets
    <3>10. DecryptFieldValue(d[f]) = V("text", i)
      BY <3>5, <3>6 DEF DecryptFieldValue
    <3> QED BY <1>1, <3>9, <3>10
  <2>5. CASE f \notin DOMAIN SearchFields
    <3>1. f \in DOMAIN T /\ T[f] = c
      BY <1>1, <2>5, <2>t
    <3>2. f \notin EncryptedFields
      BY <2>5 DEF Searchable
    <3>3. d[f].kind # "cipher" /\ d[f] \in Value
      BY <3>2 DEF DocumentOf
    <3>4. PICK M, v : M = ConvertFilterConditionToMongoFilter(c) /\ v = d[f]
      OBVIOUS
    <3>5. v \in Value /\ v = ValueIn(d, f)
      BY <3>3, <3>4 DEF ValueIn
    <3>6. ValidateFilterCondition(c) /\ \A k \in DOMAIN M : Evaluates(d, f, k, M[k])
      BY <1>3, <2>3, <3>1, <3>4
    <3>7. Meets(v, c, FALSE)
      BY <1>1, <1>3, <3>4, <3>5, <3>6, OperatorsMeet
    <3>8. DecryptFieldValue(d[f]) = v
      BY <3>3, <3>4 DEF DecryptFieldValue
    <3> QED BY <1>1, <3>7, <3>8
  <2> QED BY <2>4, <2>5
<1> QED BY <1>2, <1>3

-----------------------------------------------------------------------------
(* Rows and conditions: no driver answers with a row that breaks a condition *)
(* it was given on a column the row has.                                    *)

LEMMA PostgresMeets ==
    ASSUME NEW b, \A x \in b : TableOf("POSTGRESQL", x), NEW tables, NEW filters, NEW n \in DOMAIN filters, IsName(n),
           NEW answer, answer = PG!Query(b, tables, filters, n), answer # Failed,
           NEW f \in DOMAIN filters[n], NEW c, c = filters[n][f], IsCondition(c),
           Len(c.like) <= 1, \A x \in Range(c.like) : x.kind \in Strings,
           NEW r \in answer.rows, f \in DOMAIN r, r[f] # Null
    PROVE  Meets(r[f], c, Upper[f] = "CREATED_AT")
<1>1. PICK filter : filter = filters[n] /\ f \in DOMAIN filter /\ c = filter[f]
  OBVIOUS
<1>2. filter = PG!GetTableFilters(filters, n)
  BY <1>1 DEF PG!GetTableFilters
<1>3. PICK S, applied : S = PostgresSchema(b, tables) /\ applied = PG!FilteredFields(S, n, filter)
  OBVIOUS
<1>4. /\ PG!ValidateTableAndFields(S, n, tables[n]) # {}
      /\ \A g \in applied : PG!ValidateFilterCondition(g, filter[g])
      /\ r \in PG!RowsOf(b, n)
      /\ \A g \in applied : \A w \in PG!ApplyAdvancedFilter(g, filter[g]) : Satisfies(r, w)
  BY <1>2, <1>3, PostgresAnswer
<1>5. r[f] \in Value
  BY <1>4 DEF PG!RowsOf, TableOf
<1>6. PG!Lookup(n) \in DOMAIN S /\ f \in S[PG!Lookup(n)]
  BY <1>3, <1>4, PostgresColumns
<1>7. CASE \A op \in Operators : c[op] = <<>>
  BY <1>7, MeetsEmpty
<1>8. CASE ~\A op \in Operators : c[op] = <<>>
  <2>1. f \in applied
    BY <1>1, <1>3, <1>6, <1>8 DEF PG!FilteredFields, PG!IsFilterConditionEmpty, PG!Operators, Operators
  <2>2. PG!ValidateFilterCondition(f, c) /\ \A w \in PG!ApplyAdvancedFilter(f, c) : Satisfies(r, w)
    BY <1>1, <1>4, <2>1
  <2> QED BY <1>5, <2>2, ClausesMeet
<1> QED BY <1>7, <1>8

LEMMA MySQLMeets ==
    ASSUME NEW b, \A x \in b : TableOf("MYSQL", x), NEW tables, NEW filters, NEW n \in DOMAIN filters, IsName(n),
           NEW answer, answer = MY!Query(b, tables, filters, n), answer # Failed,
           NEW f \in DOMAIN filters[n], NEW c, c = filters[n][f], IsCondition(c),
           Len(c.like) <= 1, \A x \in Range(c.like) : x.kind \in Strings,
           NEW r \in answer.rows, f \in DOMAIN r, r[f] # Null
    PROVE  Meets(r[f], c, Upper[f] = "CREATED_AT")
<1>1. PICK filter : filter = filters[n] /\ f \in DOMAIN filter /\ c = filter[f]
  OBVIOUS
<1>2. filter = MY!GetTableFilters(filters, n)
  BY <1>1 DEF MY!GetTableFilters
<1>3. PICK S, applied : S = MySQLSchema(b, tables) /\ applied = MY!FilteredFields(S, n, filter)
  OBVIOUS
<1>4. /\ MY!ValidateTableAndFields(S, n, tables[n]) # {}
      /\ \A g \in applied : PG!ValidateFilterCondition(g, filter[g])
      /\ r \in MY!RowsOf(b, n)
      /\ \A g \in applied : \A w \in PG!ApplyAdvancedFilter(g, filter[g]) : Satisfies(r, w)
  BY <1>2, <1>3, MySQLAnswer
<1>5. r[f] \in Value
  BY <1>4 DEF MY!RowsOf, TableOf
<1>6. n \in DOMAIN S /\ f \in S[n]
  BY <1>3, <1>4, MySQLColumns
<1>7. CASE \A op \in Operators : c[op] = <<>>
  BY <1>7, MeetsEmpty
<1>8. CASE ~\A op \in Operators : c[op] = <<>>
  <2>1. f \in applied
    BY <1>1, <1>3, <1>6, <1>8 DEF MY!FilteredFields, MY!IsFilterConditionEmpty, MY!Operators, Operators
  <2>2. PG!ValidateFilterCondition(f, c) /\ \A w \in PG!ApplyAdvancedFilter(f, c) : Satisfies(r, w)
    BY <1>1, <1>4, <2>1
  <2> QED BY <1>5, <2>2, ClausesMeet
<1> QED BY <1>7, <1>8

LEMMA SQLServerMeets ==
    ASSUME NEW b, \A x \in b : TableOf("SQL_SERVER", x), NEW tables, NEW filters, NEW n \in DOMAIN filters, IsName(n),
           NEW answer, answer = MS!Query(b, tables, filters, n), answer # Failed,
           NEW f \in DOMAIN filters[n], NEW c, c = filters[n][f], IsCondition(c),
           Len(c.like) <= 1, \A x \in Range(c.like) : x.kind \in Strings,
           NEW r \in answer.rows, f \in DOMAIN r, r[f] # Null
    PROVE  Meets(r[f], c, Upper[f] = "CREATED_AT")
<1>1. PICK filter : filter = filters[n] /\ f \in DOMAIN filter /\ c = filter[f]
  OBVIOUS
<1>2. filter = MS!GetTableFilters(filters, n)
  BY <1>1 DEF MS!GetTableFilters
<1>3. PICK S, applied : S = SQLServerSchema(b, tables) /\ applied = MS!FilteredFields(S, n, filter)
  OBVIOUS
<1>4. /\ MS!ValidateTableAndFields(S, n, tables[n]) # {}
      /\ \A g \in applied : PG!ValidateFilterCondition(g, filter[g])
      /\ r \in MS!RowsOf(b, n)
      /\ \A g \in applied : \A w \in PG!ApplyAdvancedFilter(g, filter[g]) : Satisfies(r, w)
  BY <1>2, <1>3, SQLServerAnswer
<1>5. r[f] \in Value
  BY <1>4 DEF MS!RowsOf, TableOf
<1>6. MS!Lookup(n) \in DOMAIN S /\ f \in S[MS!Lookup(n)]
  BY <1>3, <1>4, SQLServerColumns
<1>7. CASE \A op \in Operators : c[op] = <<>>
  BY <1>7, MeetsEmpty
<1>8. CASE ~\A op \in Operators : c[op] = <<>>
  <2>1. f \in applied
    BY <1>1, <1>3, <1>6, <1>8 DEF MS!FilteredFields, MS!IsFilterConditionEmpty, MS!Operators, Operators
  <2>2. PG!ValidateFilterCondition(f, c) /\ \A w \in PG!ApplyAdvancedFilter(f, c) : Satisfies(r, w)
    BY <1>1, <1>4, <2>1
  <2> QED BY <1>5, <2>2, ClausesMeet
<1> QED BY <1>7, <1>8

LEMMA OracleMeets ==
    ASSUME NEW b, \A x \in b : TableOf("ORACLE", x), NEW tables, NEW filters, NEW n \in DOMAIN filters,
           NEW y \in b, n = QualifyTableName(y.schema, y.name, CurrentSchema),
           NEW answer, answer = OR!Query(b, tables, filters, n), answer # Failed,
           NEW f \in DOMAIN filters[n], NEW c, c = filters[n][f], IsCondition(c),
           Len(c.like) <= 1, \A x \in Range(c.like) : x.kind \in Strings,
           NEW r \in answer.rows, f \in DOMAIN r, r[f] # Null
    PROVE  Meets(r[f], c, Upper[f] = "CREATED_AT")
<1>1. PICK filter : filter = filters[n] /\ f \in DOMAIN filter /\ c = filter[f]
  OBVIOUS
<1>2. filter = OR!GetTableFilters(filters, n)
  BY <1>1 DEF OR!GetTableFilters
<1>3. PICK S, applied : S = OracleSchema(b, tables) /\ applied = OR!FilteredFields(S, n, filter)
  OBVIOUS
<1>4. /\ OR!ValidateTableAndFields(S, n, tables[n]) # {}
      /\ \A g \in applied : PG!ValidateFilterCondition(g, filter[g])
      /\ r \in OR!RowsOf(b, n)
      /\ \A g \in applied : 
           \A w \in PG!ApplyAdvancedFilter(OracleColumn(b, tables, n, g), filter[g]) : Satisfies(r, w)
  BY <1>2, <1>3, OracleAnswer
<1>5. r[f] \in Value
  BY <1>4 DEF OR!RowsOf, TableOf
<1>6. f \in OR!ColumnsOf(S, n) /\ Upper[f] = f
  <2>1. (\A x \in b : TableOf("ORACLE", x)) /\ y \in b /\ f \in DOMAIN r
        /\ n = QualifyTableName(y.schema, y.name, CurrentSchema)
    OBVIOUS
  <2> QED BY ONLY <1>3, <1>4, <2>1, OracleColumns
<1>c. OracleColumn(b, tables, n, f) = f
  BY <1>3, <1>6, OracleColumnIs DEF OR!EqualFold
<1>7. CASE \A op \in Operators : c[op] = <<>>
  BY <1>7, MeetsEmpty
<1>8. CASE ~\A op \in Operators : c[op] = <<>>
  <2>1. f \in applied
    BY <1>1, <1>3, <1>6, <1>8 DEF OR!EqualFold, OR!FilteredFields, OR!IsFilterConditionEmpty, OR!Operators, Operators
  <2>2. PG!ValidateFilterCondition(f, c) /\ \A w \in PG!ApplyAdvancedFilter(f, c) : Satisfies(r, w)
    BY <1>1, <1>4, <1>c, <2>1
  <2> QED BY <1>5, <2>2, ClausesMeet
<1> QED BY <1>7, <1>8

LEMMA MongoMeets ==
    ASSUME NEW b, \A x \in b : TableOf("MONGODB", x), NEW tables, NEW filters, NEW n \in DOMAIN filters,
           NEW answer, answer = Query(b, tables, filters, n), answer # Failed,
           NEW f \in DOMAIN filters[n], NEW c, c = filters[n][f], IsCondition(c), Mongoable(c), c.like = <<>>,
           NEW r \in answer.rows, f \in DOMAIN r, r[f] # Null
    PROVE  Meets(r[f], c, FALSE)
<1>1. PICK filter : filter = filters[n] /\ f \in DOMAIN filter /\ c = filter[f]
  OBVIOUS
<1>2. answer = QueryWithAdvancedFilters(b, n, tables[n], filter)
  BY <1>1 DEF Query, GetCollectionFilters
<1>3. PICK M, v : M = ConvertFilterConditionToMongoFilter(c) /\ v = r[f]
  OBVIOUS
<1>4. r \in Documents(b, n)
  BY <1>2, MongoAnswer
<1>5. v \in Value /\ v = ValueIn(r, f)
  <2>1. PICK x \in b : r \in x.rows
    BY <1>4, DocumentsAre
  <2> QED BY <1>3, <2>1 DEF TableOf, ValueIn
<1>6. CASE IsFilterConditionEmpty(c)
  BY <1>6, MeetsEmpty DEF IsFilterConditionEmpty
<1>7. CASE ~IsFilterConditionEmpty(c)
  <2>1. ValidateFilterCondition(c)
    BY <1>1, <1>2, <1>7, MongoAnswer
  <2>2. \A k \in DOMAIN M : Evaluates(r, f, k, M[k])
    BY <1>1, <1>2, <1>3, <1>7, MongoAnswer
  <2>3. Meets(v, c, FALSE)
    BY <1>3, <1>5, <1>7, <2>1, <2>2, OperatorsMeet
  <2> QED BY <1>3, <2>3
<1> QED BY <1>6, <1>7

-----------------------------------------------------------------------------
(* The filters of the mapped job: on every field the request filters on, one *)
(* of the conditions it states.                                             *)

Spelled(n) == {t \in DOMAIN request.filters : NormalizeTable(type, t) = n}
Variants(t, f) == {g \in DOMAIN request.filters[t] : NormalizeField(type, g) = f}

LEMMA FieldsFiltered ==
    ASSUME NEW n, NEW f
    PROVE  f \in FilteredOn(n) <=> \E t \in Spelled(n) : Variants(t, f) # {}
BY DEF FilteredOn, Spelled, Variants

LEMMA ConditionStated ==
    ASSUME NEW n, NEW f, NEW t \in Spelled(n), NEW g \in Variants(t, f)
    PROVE  request.filters[t][g] \in Stated(n, f)
BY DEF Stated, Spelled, Variants

(* Of the tables that filter on a field one is read first. *)
LEMMA ReadFirst ==
    ASSUME NEW rank \in Ranks(DOMAIN request.filters), NEW n, NEW f \in FilteredOn(n)
    PROVE  \E t \in Spelled(n) :
             /\ Variants(t, f) # {}
             /\ \A u \in Spelled(n) : Variants(u, f) # {} => rank[t] <= rank[u]
<1>1. PICK C : C = {t \in Spelled(n) : Variants(t, f) # {}}
  OBVIOUS
<1>2. C # {} /\ C \subseteq DOMAIN request.filters
  BY <1>1, FieldsFiltered DEF Spelled
<1>3. \A t \in C : rank[t] \in Nat
  BY <1>2 DEF Ranks
<1>4. PICK R : R = {rank[t] : t \in C}
  OBVIOUS
<1>5. R \subseteq Nat /\ R # {}
  BY <1>2, <1>3, <1>4
<1>6. PICK least \in R : \A x \in R : least <= x
  BY <1>5, MinIsLeast
<1>7. PICK t \in C : least = rank[t]
  BY <1>4, <1>6
<1> QED BY <1>1, <1>4, <1>6, <1>7

LEMMA ReadLast ==
    ASSUME NEW late \in Ranks(FilterFields(request)), NEW n, NEW t \in Spelled(n), NEW f,
           Variants(t, f) # {}
    PROVE  \E g \in Variants(t, f) : \A h \in Variants(t, f) : late[g] <= late[h]
<1>1. PICK C : C = Variants(t, f)
  OBVIOUS
<1>2. C # {} /\ C \subseteq FilterFields(request)
  BY <1>1 DEF Spelled, Variants, FilterFields
<1>3. \A g \in C : late[g] \in Nat
  BY <1>2 DEF Ranks
<1>4. PICK R : R = {late[g] : g \in C}
  OBVIOUS
<1>5. R \subseteq Nat /\ R # {}
  BY <1>2, <1>3, <1>4
<1>6. PICK least \in R : \A x \in R : least <= x
  BY <1>5, MinIsLeast
<1>7. PICK g \in C : least = late[g]
  BY <1>4, <1>6
<1> QED BY <1>1, <1>4, <1>6, <1>7

FiltersMapped ==
    /\ DOMAIN job.filters = {NormalizeTable(type, t) : t \in DOMAIN request.filters}
    /\ \A n \in DOMAIN job.filters :
         /\ DOMAIN job.filters[n] = FilteredOn(n)
         /\ \A f \in FilteredOn(n) : job.filters[n][f] \in Stated(n, f)

LEMMA MapFiltersKeeps ==
    ASSUME NEW rank \in Ranks(DOMAIN request.filters), NEW late \in Ranks(FilterFields(request)),
           NEW F, F = MapFilters(request, rank, late)
    PROVE  /\ DOMAIN F = {NormalizeTable(type, t) : t \in DOMAIN request.filters}
           /\ \A n \in DOMAIN F : /\ DOMAIN F[n] = FilteredOn(n)
                                  /\ \A f \in FilteredOn(n) : F[n][f] \in Stated(n, f)
<1> DEFINE Winner(n, f) == CHOOSE t \in Spelled(n) :
             /\ Variants(t, f) # {}
             /\ \A u \in Spelled(n) : Variants(u, f) # {} => rank[t] <= rank[u]
           Latest(t, f) == CHOOSE g \in Variants(t, f) : \A h \in Variants(t, f) : late[g] <= late[h]
<1>1. F = [n \in {NormalizeTable(type, t) : t \in DOMAIN request.filters} |->
             [f \in FilteredOn(n) |->
                request.filters[Winner(n, f)][Latest(Winner(n, f), f)]]]
  BY Zenon DEF MapFilters, FilteredOn, Spelled, Variants
<1>2. ASSUME NEW n, NEW f \in FilteredOn(n)
      PROVE  request.filters[Winner(n, f)][Latest(Winner(n, f), f)] \in Stated(n, f)
  <2>1. PICK t : t = Winner(n, f)
    OBVIOUS
  <2>2. t \in Spelled(n) /\ Variants(t, f) # {}
    BY <2>1, ReadFirst
  <2>3. PICK g : g = Latest(t, f)
    OBVIOUS
  <2>4. g \in Variants(t, f)
    BY <2>2, <2>3, ReadLast
  <2>5. request.filters[t][g] \in Stated(n, f)
    BY <2>2, <2>4, ConditionStated
  <2> QED BY <2>1, <2>3, <2>5
<1> HIDE DEF Winner, Latest
<1>3. DOMAIN F = {NormalizeTable(type, t) : t \in DOMAIN request.filters}
  BY <1>1
<1>4. ASSUME NEW n \in DOMAIN F PROVE DOMAIN F[n] = FilteredOn(n)
  BY <1>1, <1>3
<1>5. ASSUME NEW n \in DOMAIN F, NEW f \in FilteredOn(n)
      PROVE  F[n][f] = request.filters[Winner(n, f)][Latest(Winner(n, f), f)]
  BY <1>1, <1>3
<1> QED BY <1>2, <1>3, <1>4, <1>5

-----------------------------------------------------------------------------
(* Names that a job is mapped to, and the tables of an accepted plan.        *)

LEMMA NormalIsName ==
    ASSUME NEW t \in D!DBTypes, t # "ORACLE", NEW u, IsName(u)
    PROVE  IsName(NormalizeTable(t, u))
<1>1. PICK d : d = DefaultSchemaForType(t)
  OBVIOUS
<1>2. d \in Identifiers \cup {NoSchema}
  BY <1>1, WordsAssumption DEF DefaultSchemaForType, D!DBTypes
<1>3. PICK n : n = NormalizeTableNameForLookup(u, d) /\ NormalizeTable(t, u) = n
  BY <1>1 DEF NormalizeTable, FoldsFieldCase
<1>4. u \in Seq(Identifiers) /\ u # <<>>
  BY DEF IsName
<1>5. CASE Len(u) > 3
  BY <1>3, <1>5 DEF NormalizeTableNameForLookup
<1>6. CASE Len(u) \in {1, 2, 3}
  <2>1. PICK s \in Identifiers \cup {NoSchema}, w \in Identifiers :
          n = IF s = NoSchema \/ (d # NoSchema /\ EqualFold(s, d)) THEN <<w>> ELSE <<s, w>>
    BY <1>2, <1>3, <1>4, <1>6, ParsedName
  <2>2. <<w>> \in Seq(Identifiers) /\ (s # NoSchema => <<s, w>> \in Seq(Identifiers))
    OBVIOUS
  <2>3. n \in Seq(Identifiers) /\ n # <<>>
    BY <2>1, <2>2
  <2> QED BY <1>3, <2>3 DEF IsName
<1> QED BY <1>4, <1>5, <1>6, ShortName

(* A collection with a name of one word keeps it. *)
LEMMA OneWord ==
    ASSUME NEW u, IsName(u), Len(u) = 1
    PROVE  NormalizeTable("MONGODB", u) = u
<1>1. DefaultSchemaForType("MONGODB") = NoSchema
  BY DEF DefaultSchemaForType
<1>2. NormalizeTable("MONGODB", u) = NormalizeTableNameForLookup(u, NoSchema)
  BY <1>1 DEF NormalizeTable, FoldsFieldCase
<1>3. ParseQualifiedTableName(u, NoSchema) = <<NoSchema, u[1]>>
  BY DEF ParseQualifiedTableName
<1>4. PICK q : q = ParseQualifiedTableName(u, NoSchema) /\ q[1] = NoSchema /\ q[2] = u[1]
  BY <1>3
<1>5. ~(Len(u) > 3)
  BY NotLong
<1>6. NormalizeTableNameForLookup(u, NoSchema) = <<u[1]>>
  BY <1>4, <1>5 DEF NormalizeTableNameForLookup
<1>7. u = <<u[1]>>
  BY DEF IsName
<1> QED BY <1>2, <1>6, <1>7

(* Oracle's tables are planned by the names its discovery gave them, put    *)
(* into lower case and back.                                                *)
LEMMA RaisedName ==
    ASSUME NEW s \in Identifiers, NEW w \in Identifiers, NEW n, n = <<w>> \/ n = <<s, w>>
    PROVE  NormalizeTable("ORACLE", n) = UpperName(n)
<1>1. DefaultSchemaForType("ORACLE") = NoSchema /\ NoSchema \notin Identifiers
  BY WordsAssumption DEF DefaultSchemaForType
<1>2. NormalizeTable("ORACLE", n) = UpperName(NormalizeTableNameForLookup(n, NoSchema))
  BY <1>1 DEF NormalizeTable, FoldsFieldCase
<1>3. NormalizeTableNameForLookup(n, NoSchema) = n
  <2>1. CASE n = <<w>>
    <3>1. IsName(n) /\ Len(n) = 1
      BY <2>1 DEF IsName
    <3>2. NormalizeTable("MONGODB", n) = n
      BY <3>1, OneWord
    <3> QED BY <3>2 DEF NormalizeTable, FoldsFieldCase, DefaultSchemaForType
  <2>2. CASE n = <<s, w>>
    <3>1. ParseQualifiedTableName(n, NoSchema) = <<s, w>> /\ Len(n) = 2
      BY <2>2 DEF ParseQualifiedTableName
    <3>2. PICK q : q = ParseQualifiedTableName(n, NoSchema) /\ q[1] = s /\ q[2] = w /\ q = n
      BY <2>2, <3>1
    <3>3. ~(Len(n) > 3) /\ s # NoSchema
      BY <1>1, <3>1, NotLong
    <3> QED BY <3>2, <3>3 DEF NormalizeTableNameForLookup
  <2> QED BY <2>1, <2>2
<1> QED BY <1>2, <1>3

LEMMA LoweredAndRaised ==
    ASSUME NEW b, \A x \in b : TableOf("ORACLE", x), NEW y \in b,
           NEW k, k = QualifyTableName(y.schema, y.name, CurrentSchema)
    PROVE  NormalizeTable("ORACLE", LowerName(k)) = k
<1>1. /\ y.schema \in Identifiers /\ y.name \in Identifiers
      /\ Upper[y.schema] = y.schema /\ Upper[y.name] = y.name
  BY OracleTable
<1>2. /\ Lower[y.schema] \in Identifiers /\ Lower[y.name] \in Identifiers
      /\ Upper[Lower[y.schema]] = y.schema /\ Upper[Lower[y.name]] = y.name
      /\ NoSchema \notin Identifiers
  BY <1>1, WordsAssumption
<1>3. PICK s, w : s = Lower[y.schema] /\ w = Lower[y.name]
  OBVIOUS
<1>4. k = IF y.schema = CurrentSchema THEN <<y.name>> ELSE <<y.schema, y.name>>
  BY <1>1, QualifiedName
<1>5. ASSUME NEW n, n = <<w>> \/ n = <<s, w>>
      PROVE  NormalizeTable("ORACLE", n) = UpperName(n)
  BY <1>2, <1>3, <1>5, RaisedName
<1>6. CASE y.schema = CurrentSchema
  <2>1. k = <<y.name>>
    BY <1>4, <1>6
  <2>2. LowerName(k) = <<w>> /\ UpperName(<<w>>) = <<Upper[w]>>
    BY <1>3, <2>1, FoldedNames
  <2> QED BY <1>2, <1>3, <1>5, <2>1, <2>2
<1>7. CASE y.schema # CurrentSchema
  <2>1. k = <<y.schema, y.name>>
    BY <1>4, <1>7
  <2>2. LowerName(k) = <<s, w>> /\ UpperName(<<s, w>>) = <<Upper[s], Upper[w]>>
    BY <1>3, <2>1, FoldedNames
  <2> QED BY <1>2, <1>3, <1>5, <2>1, <2>2
<1> QED BY <1>6, <1>7

LEMMA OraclePlan ==
    ASSUME NEW b, \A x \in b : TableOf("ORACLE", x), NEW scope, NEW schema,
           schema = OR!GetSchemaInfo(b, scope), NEW n \in DOMAIN BuildSnapshot("ORACLE", schema, TRUE)
    PROVE  \E y \in b : n = QualifyTableName(y.schema, y.name, CurrentSchema)
<1>1. PICK m \in DOMAIN schema : n = NormalizeTable("ORACLE", m)
  BY DEF BuildSnapshot
<1>2. PICK found : found = OR!GetDatabaseSchema(b, scope)
  OBVIOUS
<1>3. DOMAIN schema = {OR!LowerName(k) : k \in DOMAIN found}
  BY <1>2 DEF OR!GetSchemaInfo
<1>4. PICK k \in DOMAIN found : m = OR!LowerName(k)
  BY <1>1, <1>3
<1>5. OR!LowerName(k) = LowerName(k)
  BY DEF OR!LowerName, LowerName
<1>6. PICK y \in b : k = QualifyTableName(y.schema, y.name, CurrentSchema)
  BY <1>2, <1>4, OracleNames DEF OR!GetDatabaseSchema, OR!QueryTables
<1>7. NormalizeTable("ORACLE", LowerName(k)) = k
  BY <1>6, LoweredAndRaised
<1> QED BY <1>1, <1>4, <1>5, <1>6, <1>7

-----------------------------------------------------------------------------
(* What an answer is an answer to.                                           *)

(* The request is one of the instance or states no filters. *)
RequestKept ==
    /\ request \in Requests \/ request.filters = <<>>
    /\ phase = "browsing" => request.filters = <<>>

Planned == phase \in {"planned", "done"}

Unanswered == phase \notin {"planned", "done", "failed"} => answers = <<>>

TypeKnown == Planned => type \in D!DBTypes

(* What was mapped is what is planned and queried. *)
JobMapped ==
    /\ phase \in {"mapped", "planned"} => ~IsCRM
    /\ phase = "mapped" \/ (Planned /\ ~IsCRM) => FiltersMapped

TablesPlanned ==
    Planned /\ type = "ORACLE" => \A n \in DOMAIN job.selection : \E y \in db :
        n = QualifyTableName(y.schema, y.name, CurrentSchema)

AnsweredByDriver ==
    Planned /\ ~IsCRM => \A n \in DOMAIN answers :
        n \in DOMAIN job.selection /\ Answer(n) # Failed /\ answers[n].rows \subseteq Answer(n).rows

FromCRM(t) == QueryPluginCRM(db, t[1], request.tables[t],
                             GetCollectionFilters(request.filters, t), request.keys)

AnsweredByCRM ==
    phase = "done" /\ IsCRM => \A t \in DOMAIN answers : answers[t] = FromCRM(t) /\ answers[t] # Failed

PathInv == /\ RequestKept /\ Unanswered /\ TypeKnown /\ JobMapped /\ TablesPlanned
           /\ AnsweredByDriver /\ AnsweredByCRM

LEMMA SamePath ==
    ASSUME request' = request, conn' = conn, job' = job
    PROVE  /\ IsCRM' <=> IsCRM
           /\ FiltersMapped' <=> FiltersMapped
           /\ type' = type /\ db' = db
           /\ \A n : Answer(n)' = Answer(n)
           /\ \A n : FromCRM(n)' = FromCRM(n)
<1>1. type' = type /\ db' = db
  BY DEF type, db
<1>2. IsCRM' <=> IsCRM
  BY <1>1 DEF IsCRM
<1>3. FiltersMapped' <=> FiltersMapped
  BY <1>1 DEF FiltersMapped, FilteredOn, Stated
<1>4. \A n : Answer(n)' = Answer(n)
  BY <1>1 DEF Answer, FiltersForConfig
<1>5. \A n : FromCRM(n)' = FromCRM(n)
  BY <1>1 DEF FromCRM
<1> QED BY <1>1, <1>2, <1>3, <1>4, <1>5

(* A step that neither plans nor answers. *)
LEMMA PathKept ==
    ASSUME PathInv, phase' \notin {"browsing", "mapped", "planned", "done"},
           phase' # "failed" => answers' = <<>>, request' = request
    PROVE  PathInv'
<1>1. RequestKept'
  BY DEF PathInv, RequestKept
<1> QED BY <1>1 DEF PathInv, Unanswered, TypeKnown, JobMapped, TablesPlanned, AnsweredByDriver,
     AnsweredByCRM, Planned

LEMMA PathStays ==
    ASSUME PathInv, request' = request, conn' = conn, job' = job, answers' = answers, phase' = phase
    PROVE  PathInv'
<1>1. RequestKept' /\ Unanswered' /\ (Planned' <=> Planned)
  BY DEF PathInv, RequestKept, Unanswered, Planned
<1>2. TypeKnown' /\ TablesPlanned'
  BY <1>1, SamePath DEF PathInv, TypeKnown, TablesPlanned
<1>3. JobMapped'
  BY <1>1, SamePath DEF PathInv, JobMapped
<1>4. AnsweredByDriver'
  BY <1>1, SamePath DEF PathInv, AnsweredByDriver
<1>5. AnsweredByCRM'
  BY <1>1, SamePath DEF PathInv, AnsweredByCRM
<1> QED BY <1>1, <1>2, <1>3, <1>4, <1>5 DEF PathInv

LEMMA AnswerIsRecord ==
    ASSUME type \in D!DBTypes, NEW n, Answer(n) # Failed
    PROVE  \E fields, rows : Answer(n) = [fields |-> fields, rows |-> rows]
<1>1. CASE type = "POSTGRESQL"
  <2>1. Answer(n) = PG!Query(db, job.selection, FiltersForConfig, n)
    BY <1>1 DEF Answer
  <2> QED BY <2>1 DEF PG!Query, PG!QueryAll, PG!QueryWithAdvancedFilters, PG!Select
<1>2. CASE type = "MYSQL"
  <2>1. Answer(n) = MY!Query(db, job.selection, FiltersForConfig, n)
    BY <1>2 DEF Answer
  <2> QED BY <2>1 DEF MY!Query, MY!QueryAll, MY!QueryWithAdvancedFilters, MY!Select
<1>3. CASE type = "ORACLE"
  <2>1. Answer(n) = OR!Query(db, job.selection, FiltersForConfig, n)
    BY <1>3 DEF Answer
  <2> QED BY <2>1 DEF OR!Query, OR!QueryAll, OR!QueryWithAdvancedFilters, OR!Select
<1>4. CASE type = "SQL_SERVER"
  <2>1. Answer(n) = MS!Query(db, job.selection, FiltersForConfig, n)
    BY <1>4 DEF Answer
  <2> QED BY <2>1 DEF MS!Query, MS!QueryAll, MS!QueryWithAdvancedFilters, MS!Select
<1>5. CASE type = "MONGODB"
  <2>1. Answer(n) = Query(db, job.selection, FiltersForConfig, n)
    BY <1>5 DEF Answer
  <2> QED BY <2>1 DEF Query, QueryAll, QueryWithAdvancedFilters
<1> QED BY <1>1, <1>2, <1>3, <1>4, <1>5 DEF D!DBTypes

(* A stream that was cut adds no rows. *)
LEMMA ScannedIsPart ==
    ASSUME type \in D!DBTypes, NEW n, Answer(n) # Failed, NEW read,
           Scanned(Answer(n), read) # Failed
    PROVE  Scanned(Answer(n), read).rows \subseteq Answer(n).rows
<1>1. PICK a : a = Answer(n)
  OBVIOUS
<1>2. PICK fields, rows : a = [fields |-> fields, rows |-> rows]
  BY <1>1, AnswerIsRecord
<1>3. PICK cut : cut = [a EXCEPT !.rows = @ \cap read]
  OBVIOUS
<1>4. cut.rows \subseteq a.rows
  BY <1>2, <1>3
<1>5. Scanned(a, read) = cut \/ Scanned(a, read) = a
  BY <1>1, <1>3 DEF Scanned, D!DBTypes, PG!ScanRows, MY!ScanRows, OR!ScanRows, MS!ScanRows, ProcessQueryResults
<1> QED BY <1>1, <1>4, <1>5

-----------------------------------------------------------------------------
(* The path of a request keeps it.                                           *)

LEMMA ConnectedTyped ==
    ASSUME EnsureConnected("worker")
    PROVE  type \in D!DBTypes
BY DEF EnsureConnected, Dialed, D!NewDataSourceFromConnection, type, D!DBTypes

(* One more table is answered. *)
LEMMA PathAnswers ==
    ASSUME PathInv, phase = "planned", request' = request, conn' = conn, job' = job,
           NEW t \in DOMAIN job.selection, Answer(t) # Failed,
           NEW a, a.rows \subseteq Answer(t).rows, Record(t, a)
    PROVE  PathInv'
<1>1. answers' = Answered(t, a) /\ phase' \in {"planned", "done"}
  BY DEF Record
<1>a. /\ DOMAIN answers' = DOMAIN answers \cup {t} /\ answers'[t] = a
      /\ \A n \in DOMAIN answers : n # t => answers'[n] = answers[n]
  BY ONLY <1>1 DEF Answered
<1>2. Planned /\ Planned' /\ ~IsCRM /\ ~IsCRM'
  BY <1>1, SamePath DEF Planned, PathInv, JobMapped
<1>3. RequestKept' /\ Unanswered'
  BY <1>1 DEF PathInv, RequestKept, Unanswered
<1>4. TypeKnown' /\ TablesPlanned'
  BY <1>2, SamePath DEF PathInv, TypeKnown, TablesPlanned
<1>5. JobMapped'
  BY <1>2, SamePath DEF PathInv, JobMapped
<1>6. AnsweredByDriver'
  <2>1. ASSUME NEW n \in DOMAIN answers'
        PROVE  n \in DOMAIN job.selection /\ Answer(n) # Failed /\ answers'[n].rows \subseteq Answer(n).rows
    <3>1. CASE n = t
      BY <1>a, <3>1
    <3>2. CASE n # t
      <4>1. n \in DOMAIN answers /\ answers'[n] = answers[n]
        BY <1>a, <3>2
      <4> QED BY <1>2, <4>1 DEF PathInv, AnsweredByDriver
    <3> QED BY <3>1, <3>2
  <2> QED BY <2>1, SamePath DEF AnsweredByDriver
<1>7. AnsweredByCRM'
  BY <1>2 DEF AnsweredByCRM
<1> QED BY <1>3, <1>4, <1>5, <1>6, <1>7 DEF PathInv

LEMMA PathInit == Init => PathInv
BY RequestsAssumption
   DEF Init, PathInv, RequestKept, Unanswered, TypeKnown, JobMapped, TablesPlanned, AnsweredByDriver,
       AnsweredByCRM, Planned

(* The worker maps the job. *)
LEMMA PathMaps == ASSUME PathInv, MapJob PROVE PathInv'
<1>1. /\ phase = "claimed" /\ phase' = "mapped" /\ ~IsCRM
      /\ request' = request /\ conn' = conn /\ answers' = answers
  BY DEF MapJob
<1>2. PICK rank \in Ranks(DOMAIN request.filters), late \in Ranks(FilterFields(request)) :
        job' = [selection |-> MapMappedFields(request), filters |-> MapFilters(request, rank, late),
                scope |-> SchemaScopeForTables(type, DOMAIN request.tables)]
  BY DEF MapJob
<1>3. PICK F : F = job'.filters /\ F = MapFilters(request, rank, late)
  BY <1>2
<1>4. type' = type /\ ~IsCRM'
  BY <1>1 DEF type, IsCRM
<1>5. FiltersMapped'
  <2>1. /\ DOMAIN F = {NormalizeTable(type, t) : t \in DOMAIN request.filters}
        /\ \A n \in DOMAIN F : /\ DOMAIN F[n] = FilteredOn(n)
                               /\ \A f \in FilteredOn(n) : F[n][f] \in Stated(n, f)
    BY <1>3, MapFiltersKeeps
  <2>2. /\ \A n : FilteredOn(n)' = FilteredOn(n)
        /\ \A n, f : Stated(n, f)' = Stated(n, f)
    BY <1>1, <1>4 DEF FilteredOn, Stated
  <2> QED BY <1>1, <1>3, <1>4, <2>1, <2>2 DEF FiltersMapped
<1>6. RequestKept' /\ Unanswered'
  BY <1>1 DEF PathInv, RequestKept, Unanswered
<1> QED BY <1>1, <1>4, <1>5, <1>6 DEF PathInv, TypeKnown, JobMapped, TablesPlanned,
     AnsweredByDriver, AnsweredByCRM, Planned

(* The engine accepts the plan. *)
LEMMA PathPlans == ASSUME PathInv, PlanExtraction, phase' = "planned" PROVE PathInv'
<1>1. /\ phase = "mapped" /\ request' = request /\ conn' = conn /\ job' = job /\ answers' = answers
  BY DEF PlanExtraction
<1>2. PICK schema \in SchemaInfos(type, SchemaArg(job.scope, conn)) :
        EnsureConnected("worker") /\ MappingValid(Mapping, BuildSnapshot(type, schema, TRUE))
  BY DEF PlanExtraction
<1>3. type \in D!DBTypes
  BY <1>2, ConnectedTyped
<1>4. answers = <<>> /\ ~IsCRM /\ FiltersMapped
  BY <1>1 DEF PathInv, Unanswered, JobMapped
<1>5. ASSUME type = "ORACLE", NEW n \in DOMAIN job.selection
      PROVE  \E y \in db : n = QualifyTableName(y.schema, y.name, CurrentSchema)
  <2>1. db = Databases["ORACLE"] /\ \A x \in db : TableOf("ORACLE", x)
    BY <1>5, DatabasesAssumption DEF db, D!DBTypes
  <2>2. PICK scope : scope = SchemaArg(job.scope, conn)
    OBVIOUS
  <2>3. SchemaInfos("ORACLE", scope) = {OR!GetSchemaInfo(Databases["ORACLE"], scope)}
    BY DEF SchemaInfos
  <2>4. schema = OR!GetSchemaInfo(db, scope)
    BY <1>2, <1>5, <2>1, <2>2, <2>3
  <2>5. n \in DOMAIN BuildSnapshot("ORACLE", schema, TRUE)
    BY <1>2, <1>5 DEF MappingValid, Mapping, SchemaValidationRequestFromExtraction
  <2> QED BY <2>1, <2>4, <2>5, OraclePlan
<1>6. RequestKept' /\ Unanswered'
  BY <1>1 DEF PathInv, RequestKept, Unanswered
<1>7. TypeKnown' /\ JobMapped'
  BY <1>1, <1>3, <1>4, SamePath DEF TypeKnown, JobMapped
<1>8. TablesPlanned'
  BY <1>1, <1>5, SamePath DEF TablesPlanned
<1>9. AnsweredByDriver' /\ AnsweredByCRM'
  BY <1>1, <1>4, EmptyMap DEF AnsweredByDriver, AnsweredByCRM
<1> QED BY <1>6, <1>7, <1>8, <1>9 DEF PathInv

(* The worker queries the CRM. *)
LEMMA PathExtractsCRM == ASSUME PathInv, ExtractCRM, phase' = "done" PROVE PathInv'
<1>1. /\ phase = "claimed" /\ IsCRM /\ request' = request /\ conn' = conn /\ job' = job
      /\ answers' = [t \in DOMAIN request.tables |-> FromCRM(t)]
      /\ \A t \in DOMAIN request.tables : FromCRM(t) # Failed
  BY DEF ExtractCRM, FromCRM
<1>2. type = "MONGODB" /\ type' = type /\ IsCRM'
  BY <1>1, SamePath DEF IsCRM
<1>3. RequestKept' /\ Unanswered'
  BY <1>1 DEF PathInv, RequestKept, Unanswered
<1>4. TypeKnown' /\ JobMapped' /\ TablesPlanned' /\ AnsweredByDriver'
  BY <1>2 DEF TypeKnown, JobMapped, TablesPlanned, AnsweredByDriver, D!DBTypes
<1>5. AnsweredByCRM'
  <2>1. \A t : FromCRM(t)' = FromCRM(t)
    BY <1>1, SamePath
  <2>2. DOMAIN answers' = DOMAIN request.tables /\ \A t \in DOMAIN answers' : answers'[t] = FromCRM(t)
    BY <1>1
  <2> QED BY <1>1, <2>1, <2>2 DEF AnsweredByCRM
<1> QED BY <1>3, <1>4, <1>5 DEF PathInv

LEMMA PathStep == DialInv /\ PathInv /\ [Next]_vars => PathInv'
<1> SUFFICES ASSUME DialInv, PathInv, [Next]_vars PROVE PathInv'
  OBVIOUS
<1>0. phase \notin {"planned", "done", "failed"} => answers = <<>>
  BY DEF PathInv, Unanswered
<1>1. CASE ManagerResolves
  BY <1>0, <1>1, PathKept DEF ManagerResolves
<1>2. CASE ValidateSchema
  BY <1>0, <1>2, PathKept DEF ValidateSchema
<1>3. CASE WorkerResolves
  BY <1>0, <1>3, PathKept DEF WorkerResolves
<1>4. CASE MapJob
  BY <1>4, PathMaps
<1>5. CASE PlanExtraction
  <2>1. /\ phase = "mapped" /\ phase' \in {"planned", "rejected"}
        /\ request' = request /\ answers' = answers
    BY <1>5 DEF PlanExtraction
  <2>2. CASE phase' = "rejected"
    BY <1>0, <2>1, <2>2, PathKept
  <2> QED BY <1>5, <2>1, <2>2, PathPlans
<1>6. CASE ExtractCRM
  <2>1. phase' \in {"failed", "done"} /\ request' = request
    BY <1>6 DEF ExtractCRM
  <2>2. CASE phase' = "failed"
    BY <2>1, <2>2, PathKept
  <2> QED BY <1>6, <2>1, <2>2, PathExtractsCRM
<1>7. ASSUME NEW page \in 1..2, NEW only \in {"", "POSTGRESQL"}, List(page, only)
      PROVE  PathInv'
  <2>1. /\ request' = request /\ conn' = conn /\ job' = job /\ answers' = answers /\ phase' = phase
    BY <1>7 DEF List
  <2> QED BY <2>1, PathStays
<1>8. ASSUME NEW id \in browse.ids, Show(id) \/ GetConnectionSchema(id)
      PROVE  PathInv'
  <2>1. /\ request' = request /\ conn' = conn /\ job' = job /\ answers' = answers /\ phase' = phase
    BY <1>8 DEF Show, GetConnectionSchema
  <2> QED BY <2>1, PathStays
<1>9. ASSUME NEW t \in DOMAIN browse.tables, NEW f \in browse.tables[t], Submit(t, f)
      PROVE  PathInv'
  <2>1. phase = "browsing" /\ phase' = "received" /\ answers' = answers
    BY <1>9 DEF Submit
  <2>2. DOMAIN request = RequestFields /\ request.filters = <<>>
    BY <2>1 DEF DialInv, FromRequests, PathInv, RequestKept
  <2>3. PICK config, tables, origin :
          request' = [request EXCEPT !.config = config, !.tables = tables, !.origin = origin]
    BY <1>9 DEF Submit
  <2>4. request'.filters = <<>>
    BY <2>2, <2>3 DEF RequestFields
  <2> QED BY <1>0, <2>1, <2>4 DEF PathInv, RequestKept, Unanswered, TypeKnown, JobMapped, TablesPlanned,
       AnsweredByDriver, AnsweredByCRM, Planned
<1>10. ASSUME NEW t \in DOMAIN job.selection, QueryTable(t) \/ QueryFails(t) \/ QueryCut(t)
       PROVE  PathInv'
  <2>1. phase = "planned" /\ request' = request /\ conn' = conn /\ job' = job
    BY <1>10 DEF QueryTable, QueryFails, QueryCut
  <2>2. CASE phase' = "failed"
    BY <2>1, <2>2, PathKept
  <2>3. CASE phase' # "failed"
    <3>1. Answer(t) # Failed /\ \E a : Record(t, a) /\ (a = Answer(t) \/
            \E read : a = Scanned(Answer(t), read) /\ a # Failed)
      BY <1>10, <2>3 DEF QueryTable, QueryFails, QueryCut, Abandon
    <3>2. type \in D!DBTypes
      BY <2>1 DEF PathInv, TypeKnown, Planned
    <3>3. PICK a : Record(t, a) /\ (a = Answer(t) \/
            \E read : a = Scanned(Answer(t), read) /\ a # Failed)
      BY <3>1
    <3>4. a.rows \subseteq Answer(t).rows
      BY <3>1, <3>2, <3>3, ScannedIsPart
    <3> QED BY <2>1, <3>1, <3>3, <3>4, PathAnswers
  <2> QED BY <2>2, <2>3
<1>11. CASE UNCHANGED vars
  BY <1>11, PathStays DEF vars
<1> QED BY <1>1, <1>2, <1>3, <1>4, <1>5, <1>6, <1>7, <1>8, <1>9, <1>10, <1>11 DEF Next

-----------------------------------------------------------------------------
(* No filter is lost on the way.                                             *)

LEMMA FilteredRequest ==
    ASSUME PathInv, NEW n, NEW f \in FilteredOn(n)
    PROVE  /\ request \in Requests
           /\ \E t \in DOMAIN request.filters : /\ NormalizeTable(type, t) = n
                                                /\ \E g \in DOMAIN request.filters[t] : NormalizeField(type, g) = f
<1>1. PICK t \in DOMAIN request.filters :
        NormalizeTable(type, t) = n /\ \E g \in DOMAIN request.filters[t] : NormalizeField(type, g) = f
  BY DEF FilteredOn
<1>2. request.filters # <<>>
  BY <1>1, EmptyMap
<1> QED BY <1>1, <1>2 DEF PathInv, RequestKept

LEMMA StatedIsCondition ==
    ASSUME request \in Requests, NEW n, NEW f, NEW c \in Stated(n, f)
    PROVE  IsCondition(c)
<1>1. PICK t \in DOMAIN request.filters : \E g \in DOMAIN request.filters[t] : c = request.filters[t][g]
  BY DEF Stated
<1> QED BY <1>1, RequestsAssumption

(* A row of a driver meets the condition that was mapped. *)
LEMMA DriverKeepsFilters ==
    ASSUME PathInv, phase = "done", ~IsCRM, NEW n \in DOMAIN answers, NEW r \in answers[n].rows,
           NEW f \in FilteredOn(n), ValueOf(r, f) # Null
    PROVE  \E c \in Stated(n, f) :
             Expressible(c, f) /\ (type = "MONGODB" => c.like = <<>>) => Meets(ValueOf(r, f), c, Dated(f))
<1>1. /\ n \in DOMAIN job.selection /\ Answer(n) # Failed /\ r \in Answer(n).rows
      /\ FiltersMapped /\ type \in D!DBTypes
  BY DEF PathInv, AnsweredByDriver, JobMapped, TypeKnown, Planned
<1>2. f \in DOMAIN r /\ ValueOf(r, f) = r[f] /\ r[f] # Null
  BY DEF ValueOf
<1>3. request \in Requests
  BY FilteredRequest
<1>4. PICK t \in DOMAIN request.filters : NormalizeTable(type, t) = n
  BY FilteredRequest
<1>5. PICK filters : filters = FiltersForConfig
  OBVIOUS
<1>6. n \in DOMAIN job.filters /\ DOMAIN job.filters[n] = FilteredOn(n) /\ job.filters[n][f] \in Stated(n, f)
  BY <1>1, <1>4 DEF FiltersMapped
<1>7. n \in DOMAIN filters /\ filters[n] = job.filters[n] /\ f \in DOMAIN filters[n]
  <2>1. job.filters[n] # <<>>
    BY <1>6, EmptyMap
  <2> QED BY <1>5, <1>6, <2>1 DEF FiltersForConfig
<1>8. PICK c : c = filters[n][f] /\ c \in Stated(n, f) /\ IsCondition(c)
  BY <1>3, <1>6, <1>7, StatedIsCondition
<1>9. type # "ORACLE" => IsName(n)
  BY <1>1, <1>3, <1>4, NormalIsName, RequestsAssumption
<1>10. \A x \in db : TableOf(type, x)
  BY <1>1, DatabasesAssumption DEF db
<1>11. PICK b, a, tables : b = db /\ a = Answer(n) /\ tables = job.selection
  OBVIOUS
<1>12. SUFFICES ASSUME Expressible(c, f), type = "MONGODB" => c.like = <<>>
                PROVE  Meets(r[f], c, Dated(f))
  BY <1>2, <1>8
<1>13. Len(c.like) <= 1 /\ \A x \in Range(c.like) : x.kind \in Strings
  BY <1>12 DEF Expressible
<1>14. CASE type = "MONGODB"
  <2>1. a = Query(b, tables, filters, n) /\ Mongoable(c) /\ c.like = <<>> /\ Dated(f) = FALSE
    BY <1>5, <1>11, <1>12, <1>14 DEF Answer, Expressible, Dated
  <2>2. Meets(r[f], c, FALSE)
    BY <1>1, <1>2, <1>7, <1>8, <1>10, <1>11, <1>14, <2>1, MongoMeets
  <2> QED BY <2>1, <2>2
<1>15. CASE type = "POSTGRESQL"
  <2>1. a = PG!Query(b, tables, filters, n) /\ Dated(f) = (Upper[f] = "CREATED_AT")
    BY <1>5, <1>11, <1>15 DEF Answer, Dated
  <2>2. Meets(r[f], c, Upper[f] = "CREATED_AT")
    <3>1. /\ (\A x \in b : TableOf("POSTGRESQL", x)) /\ IsName(n)
          /\ n \in DOMAIN filters /\ a # Failed /\ r \in a.rows /\ f \in DOMAIN filters[n]
      BY <1>1, <1>7, <1>9, <1>10, <1>11, <1>15
    <3> QED BY ONLY <1>2, <1>8, <1>13, <2>1, <3>1, PostgresMeets
  <2> QED BY <2>1, <2>2
<1>16. CASE type = "MYSQL"
  <2>1. a = MY!Query(b, tables, filters, n) /\ Dated(f) = (Upper[f] = "CREATED_AT")
    BY <1>5, <1>11, <1>16 DEF Answer, Dated
  <2>2. Meets(r[f], c, Upper[f] = "CREATED_AT")
    <3>1. /\ (\A x \in b : TableOf("MYSQL", x)) /\ IsName(n)
          /\ n \in DOMAIN filters /\ a # Failed /\ r \in a.rows /\ f \in DOMAIN filters[n]
      BY <1>1, <1>7, <1>9, <1>10, <1>11, <1>16
    <3> QED BY ONLY <1>2, <1>8, <1>13, <2>1, <3>1, MySQLMeets
  <2> QED BY <2>1, <2>2
<1>17. CASE type = "SQL_SERVER"
  <2>1. a = MS!Query(b, tables, filters, n) /\ Dated(f) = (Upper[f] = "CREATED_AT")
    BY <1>5, <1>11, <1>17 DEF Answer, Dated
  <2>2. Meets(r[f], c, Upper[f] = "CREATED_AT")
    <3>1. /\ (\A x \in b : TableOf("SQL_SERVER", x)) /\ IsName(n)
          /\ n \in DOMAIN filters /\ a # Failed /\ r \in a.rows /\ f \in DOMAIN filters[n]
      BY <1>1, <1>7, <1>9, <1>10, <1>11, <1>17
    <3> QED BY ONLY <1>2, <1>8, <1>13, <2>1, <3>1, SQLServerMeets
  <2> QED BY <2>1, <2>2
<1>18. CASE type = "ORACLE"
  <2>1. a = OR!Query(b, tables, filters, n) /\ Dated(f) = (Upper[f] = "CREATED_AT")
    BY <1>5, <1>11, <1>18 DEF Answer, Dated
  <2>2. PICK y \in b : n = QualifyTableName(y.schema, y.name, CurrentSchema)
    BY <1>1, <1>11, <1>18 DEF PathInv, TablesPlanned, Planned
  <2>3. Meets(r[f], c, Upper[f] = "CREATED_AT")
    <3>1. /\ \A x \in b : TableOf("ORACLE", x)
          /\ n \in DOMAIN filters /\ a # Failed /\ r \in a.rows /\ f \in DOMAIN filters[n]
      BY <1>1, <1>7, <1>10, <1>11, <1>18
    <3> QED BY ONLY <1>2, <1>8, <1>13, <2>1, <2>2, <3>1, OracleMeets
  <2> QED BY <2>1, <2>3
<1> QED BY <1>1, <1>14, <1>15, <1>16, <1>17, <1>18 DEF D!DBTypes

LEMMA CrmRows ==
    ASSUME NEW b, NEW logical, NEW fields, NEW filter, NEW keys, NEW answer,
           answer = QueryPluginCRM(b, logical, fields, filter, keys), answer # Failed, NEW r \in answer.rows
    PROVE  \E m \in MatchingCollections(b, logical) : \E a :
             /\ a = QueryPluginCRMCollection(b, m, fields, filter, keys) /\ a # Failed
             /\ r \in a.rows
<1>1. PICK matching : matching = MatchingCollections(b, logical)
  OBVIOUS
<1>2. PICK A : A = {QueryPluginCRMCollection(b, m, fields, filter, keys) : m \in matching}
  OBVIOUS
<1>3. PICK docs : docs = UNION {a.rows : a \in A}
  OBVIOUS
<1>4. PICK clear : clear = DecryptPluginCRMData({[f \in Projected(d, fields) |-> d[f]] : d \in docs}, keys)
  OBVIOUS
<1>5. answer = ProcessPluginCRMCollection(b, matching, fields, filter, keys)
  BY <1>1 DEF QueryPluginCRM
<1>6. answer = IF Failed \in A \/ clear = Failed THEN Failed
               ELSE [fields |-> fields, rows |-> docs, clear |-> clear]
  BY <1>2, <1>3, <1>4, <1>5, Zenon DEF ProcessPluginCRMCollection
<1>7. Failed \notin A /\ answer = [fields |-> fields, rows |-> docs, clear |-> clear]
  BY <1>6
<1>8. answer.rows = docs
  BY <1>7
<1>9. PICK a \in A : r \in a.rows
  BY <1>3, <1>8
<1> QED BY <1>1, <1>2, <1>7, <1>9

LEMMA CrmDocuments ==
    ASSUME NEW b, NEW m, NEW fields, NEW filter, NEW keys, NEW a,
           a = QueryPluginCRMCollection(b, m, fields, filter, keys), a # Failed, NEW r \in a.rows
    PROVE  r \in Documents(b, <<m>>)
<1>1. CASE DOMAIN filter = {}
  BY <1>1 DEF QueryPluginCRMCollection, QueryAll
<1>2. CASE DOMAIN filter # {}
  <2>1. PICK T : a = QueryWithAdvancedFilters(b, <<m>>, fields, T)
    BY <1>2 DEF QueryPluginCRMCollection
  <2> QED BY <2>1, MongoAnswer
<1> QED BY <1>1, <1>2

(* A document of the CRM meets the condition of the request. *)
LEMMA CrmKeepsFilters ==
    ASSUME PathInv, phase = "done", IsCRM, NEW n \in DOMAIN answers, NEW r \in answers[n].rows,
           NEW f \in FilteredOn(n), ValueOf(r, f) # Null
    PROVE  \E c \in Stated(n, f) :
             Expressible(c, f) /\ (type = "MONGODB" => c.like = <<>>) => Meets(ValueOf(r, f), c, Dated(f))
<1>1. type = "MONGODB" /\ request.config = CrmConfig
  BY DEF IsCRM
<1>2. request \in Requests
  BY FilteredRequest
<1>3. PICK t \in DOMAIN request.filters :
        NormalizeTable(type, t) = n /\ \E g \in DOMAIN request.filters[t] : NormalizeField(type, g) = f
  BY FilteredRequest
<1>4. IsName(t) /\ Len(t) = 1
  BY <1>1, <1>2, RequestsAssumption
<1>5. t = n /\ f \in DOMAIN request.filters[n]
  BY <1>1, <1>3, <1>4, OneWord DEF NormalizeField, FoldsFieldCase
<1>6. PICK filter : filter = request.filters[n] /\ f \in DOMAIN filter /\ n \in DOMAIN request.filters
  BY <1>3, <1>5
<1>7. filter[f] \in Stated(n, f)
  <2>1. NormalizeField(type, f) = f
    BY <1>1 DEF NormalizeField, FoldsFieldCase
  <2> QED BY <1>3, <1>5, <1>6, <2>1 DEF Stated
<1>8. PICK b, logical, fields, keys, answer :
        /\ b = db /\ logical = n[1] /\ fields = request.tables[n] /\ keys = request.keys
        /\ answer = answers[n]
  OBVIOUS
<1>9. answer = QueryPluginCRM(b, logical, fields, filter, keys) /\ answer # Failed
  BY <1>6, <1>8 DEF PathInv, AnsweredByCRM, FromCRM, GetCollectionFilters
<1>a. PICK m \in MatchingCollections(b, logical) : \E a :
        a = QueryPluginCRMCollection(b, m, fields, filter, keys) /\ a # Failed /\ r \in a.rows
  BY <1>8, <1>9, CrmRows
<1>10. PICK a : a = QueryPluginCRMCollection(b, m, fields, filter, keys) /\ a # Failed /\ r \in a.rows
  BY <1>a
<1>11. PICK x \in b : x.name = m /\ r \in x.rows
  <2>1. r \in Documents(b, <<m>>)
    BY <1>10, CrmDocuments
  <2>2. PICK x \in b : <<x.name>> = <<m>> /\ r \in x.rows
    BY <2>1, DocumentsAre
  <2> QED BY <2>2, PairEquals
<1>12. DocumentOf(r) /\ \A e \in DOMAIN r : r[e] \in Value
  <2>1. <<logical, m>> \in Prefixes
    BY <1>10 DEF MatchingCollections
  <2>2. \E p \in Prefixes : p[2] = x.name
    BY <1>11, <2>1
  <2>3. b = Databases["MONGODB"]
    BY <1>1, <1>8 DEF db
  <2> QED BY <1>11, <2>2, <2>3, DatabasesAssumption DEF TableOf, D!DBTypes
<1>13. \A e \in DOMAIN filter : e \notin Range(SearchFields) /\ IsCondition(filter[e])
  BY <1>2, <1>6, RequestsAssumption
<1>14. f \in DOMAIN r /\ ValueOf(r, f) = DecryptFieldValue(r[f])
  BY DEF ValueOf
<1>15. r[f] # Null
  BY <1>14 DEF DecryptFieldValue, Null, V
<1>16. SUFFICES ASSUME Expressible(filter[f], f), filter[f].like = <<>>
                PROVE  Meets(ValueOf(r, f), filter[f], Dated(f))
  BY <1>1, <1>7
<1>17. Mongoable(filter[f]) /\ (f \in EncryptedFields => Searchable(filter[f], f)) /\ Dated(f) = FALSE
  BY <1>1, <1>16 DEF Expressible, Dated
<1>18. Meets(DecryptFieldValue(r[f]), filter[f], FALSE)
  BY <1>6, <1>10, <1>12, <1>13, <1>14, <1>15, <1>16, <1>17, CrmMeets
<1> QED BY <1>14, <1>17, <1>18

(* Whatever the names, the spellings, the driver and the conditions of a     *)
(* request, no row is extracted that breaks a condition the request states: *)
(* tablenorm, mapFilters, the plan and the drivers' clauses, Mongo          *)
(* operators and hashes of the CRM never lose or weaken a filter.           *)
THEOREM NoFilterIsDropped == Spec => []FiltersNeverDropped
<1>1. PathInv => FiltersNeverDropped
  BY DriverKeepsFilters, CrmKeepsFilters DEF FiltersNeverDropped
<1> QED BY <1>1, DialInit, DialStep, PathInit, PathStep, PTL DEF Spec

-----------------------------------------------------------------------------
(* Why a query fails: no field is selected, or a condition is not valid.     *)

LEMMA AnswerIsNoFailure ==
    ASSUME NEW fields, fields \subseteq AllFields, NEW rows, rows \subseteq AllRows
    PROVE  [fields |-> fields, rows |-> rows] # Failed
BY FailedAssumption

LEMMA SelectIsNoFailure ==
    ASSUME NEW fields, fields \subseteq AllFields, NEW rows, rows \subseteq AllRows, NEW where
    PROVE  Select(fields, rows, where) # Failed
<1>1. PICK found : found = {r \in rows : \A w \in where : Satisfies(r, w)}
  OBVIOUS
<1>2. found \subseteq AllRows
  BY <1>1
<1>3. Select(fields, rows, where) = [fields |-> fields, rows |-> found]
  BY <1>1 DEF Select
<1> QED BY <1>2, <1>3, AnswerIsNoFailure

LEMMA PostgresFails ==
    ASSUME NEW b, NEW tables, NEW filters, NEW n, PG!Query(b, tables, filters, n) = Failed,
           NEW filter, filter = PG!GetTableFilters(filters, n),
           NEW selected, selected = PG!ValidateTableAndFields(PostgresSchema(b, tables), n, tables[n]),
           selected \subseteq AllFields, PG!RowsOf(b, n) \subseteq AllRows
    PROVE  selected = {} \/ \E f \in DOMAIN filter : ~PG!ValidateFilterCondition(f, filter[f])
<1>1. PICK schema, rows : schema = PostgresSchema(b, tables) /\ rows = PG!RowsOf(b, n)
  OBVIOUS
<1>2. PICK applied, where : /\ applied = PG!FilteredFields(schema, n, filter)
                            /\ where = PG!BuildAdvancedFilters(schema, n, filter)
  OBVIOUS
<1>3. \A w : Select(selected, rows, w) # Failed
  BY <1>1, SelectIsNoFailure
<1>4. CASE DOMAIN filter = {}
  BY <1>1, <1>3, <1>4, PostgresEvaluates DEF PG!Query, PG!QueryAll, PostgresSchema
<1>5. CASE DOMAIN filter # {}
  <2>1. selected = {} \/ \E f \in applied : ~PG!ValidateFilterCondition(f, filter[f])
    BY <1>1, <1>2, <1>3, <1>5, PostgresEvaluates
       DEF PG!Query, PG!QueryWithAdvancedFilters, PostgresSchema
  <2> QED BY <1>2, <2>1 DEF PG!FilteredFields
<1> QED BY <1>4, <1>5

LEMMA MySQLFails ==
    ASSUME NEW b, NEW tables, NEW filters, NEW n, MY!Query(b, tables, filters, n) = Failed,
           NEW filter, filter = MY!GetTableFilters(filters, n),
           NEW selected, selected = MY!ValidateTableAndFields(MySQLSchema(b, tables), n, tables[n]),
           selected \subseteq AllFields, MY!RowsOf(b, n) \subseteq AllRows
    PROVE  selected = {} \/ \E f \in DOMAIN filter : ~PG!ValidateFilterCondition(f, filter[f])
<1>1. PICK schema, rows : schema = MySQLSchema(b, tables) /\ rows = MY!RowsOf(b, n)
  OBVIOUS
<1>2. PICK applied, where : /\ applied = MY!FilteredFields(schema, n, filter)
                            /\ where = MY!BuildAdvancedFilters(schema, n, filter)
  OBVIOUS
<1>3. \A w : Select(selected, rows, w) # Failed
  BY <1>1, SelectIsNoFailure
<1>4. CASE DOMAIN filter = {}
  BY <1>1, <1>3, <1>4, MySQLEvaluates DEF MY!Query, MY!QueryAll, MySQLSchema
<1>5. CASE DOMAIN filter # {}
  <2>1. selected = {} \/ \E f \in applied : ~PG!ValidateFilterCondition(f, filter[f])
    BY <1>1, <1>2, <1>3, <1>5, MySQLEvaluates, MySQLBuildsAlike
       DEF MY!Query, MY!QueryWithAdvancedFilters, MySQLSchema
  <2> QED BY <1>2, <2>1 DEF MY!FilteredFields
<1> QED BY <1>4, <1>5

LEMMA SQLServerFails ==
    ASSUME NEW b, NEW tables, NEW filters, NEW n, MS!Query(b, tables, filters, n) = Failed,
           NEW filter, filter = MS!GetTableFilters(filters, n),
           NEW selected, selected = MS!ValidateTableAndFields(SQLServerSchema(b, tables), n, tables[n]),
           selected \subseteq AllFields, MS!RowsOf(b, n) \subseteq AllRows
    PROVE  selected = {} \/ \E f \in DOMAIN filter : ~PG!ValidateFilterCondition(f, filter[f])
<1>1. PICK schema, rows : schema = SQLServerSchema(b, tables) /\ rows = MS!RowsOf(b, n)
  OBVIOUS
<1>2. PICK applied, where : /\ applied = MS!FilteredFields(schema, n, filter)
                            /\ where = MS!BuildAdvancedFilters(schema, n, filter)
  OBVIOUS
<1>3. \A w : Select(selected, rows, w) # Failed
  BY <1>1, SelectIsNoFailure
<1>4. CASE DOMAIN filter = {}
  BY <1>1, <1>3, <1>4, SQLServerEvaluates DEF MS!Query, MS!QueryAll, SQLServerSchema
<1>5. CASE DOMAIN filter # {}
  <2>1. selected = {} \/ \E f \in applied : ~PG!ValidateFilterCondition(f, filter[f])
    BY <1>1, <1>2, <1>3, <1>5, SQLServerEvaluates, SQLServerBuildsAlike
       DEF MS!Query, MS!QueryWithAdvancedFilters, SQLServerSchema
  <2> QED BY <1>2, <2>1 DEF MS!FilteredFields
<1> QED BY <1>4, <1>5

LEMMA OracleFails ==
    ASSUME NEW b, NEW tables, NEW filters, NEW n, OR!Query(b, tables, filters, n) = Failed,
           NEW filter, filter = OR!GetTableFilters(filters, n),
           NEW selected, selected = OR!ValidateTableAndFields(OracleSchema(b, tables), n, tables[n]),
           selected \subseteq AllFields, OR!RowsOf(b, n) \subseteq AllRows
    PROVE  selected = {} \/ \E f \in DOMAIN filter : ~PG!ValidateFilterCondition(f, filter[f])
<1>1. PICK schema, rows : schema = OracleSchema(b, tables) /\ rows = OR!RowsOf(b, n)
  OBVIOUS
<1>2. PICK applied, where : /\ applied = OR!FilteredFields(schema, n, filter)
                            /\ where = OR!BuildAdvancedFilters(schema, n, filter)
  OBVIOUS
<1>3. \A w : Select(selected, rows, w) # Failed
  BY <1>1, SelectIsNoFailure
<1>4. CASE DOMAIN filter = {}
  BY <1>1, <1>3, <1>4, OracleEvaluates DEF OR!Query, OR!QueryAll, OracleSchema
<1>5. CASE DOMAIN filter # {}
  <2>1. selected = {} \/ \E f \in applied : ~PG!ValidateFilterCondition(f, filter[f])
    BY <1>1, <1>2, <1>3, <1>5, OracleEvaluates, OracleBuildsAlike
       DEF OR!Query, OR!QueryWithAdvancedFilters, OracleSchema
  <2> QED BY <1>2, <2>1 DEF OR!FilteredFields
<1> QED BY <1>4, <1>5

(* The filters of a table are filters of the job. *)
LEMMA FiltersOfJob ==
    ASSUME NEW filter, NEW k, filter = <<>> \/ (k \in DOMAIN FiltersForConfig /\ filter = FiltersForConfig[k]),
           NEW f \in DOMAIN filter
    PROVE  \E n \in DOMAIN job.filters : f \in DOMAIN job.filters[n] /\ filter[f] = job.filters[n][f]
<1>1. k \in DOMAIN FiltersForConfig /\ filter = FiltersForConfig[k]
  BY EmptyMap
<1>2. k \in DOMAIN job.filters /\ filter = job.filters[k]
  BY <1>1 DEF FiltersForConfig
<1> QED BY <1>2

(* A condition that is well formed is valid. *)
LEMMA WellFormedIsValid ==
    ASSUME type # "MONGODB", NEW f, NEW c, IsCondition(c), WellFormed(f, c)
    PROVE  PG!ValidateFilterCondition(f, c)
<1>1. \A op \in Comparisons : Len(c[op]) \in {0, 1}
  <2>1. SUFFICES ASSUME NEW op \in Comparisons PROVE Len(c[op]) \in {0, 1}
    OBVIOUS
  <2>2. c[op] \in Seq(Value) /\ Len(c[op]) <= 1
    BY DEF WellFormed, IsCondition, Comparisons, Operators
  <2> QED BY <2>2, AtMostOne
<1>2. PG!IsLikelyUUIDField(f) => PG!ValidateUUIDFieldValues(c)
  BY DEF WellFormed, PG!IsLikelyUUIDField, PG!ValidateUUIDFieldValues, PG!Operators, Operators,
     PG!Strings, Strings, PG!Range, Range
<1>3. Len(c.between) \in {0, 2}
  BY DEF WellFormed
<1> QED BY <1>1, <1>2, <1>3 DEF PG!ValidateFilterCondition, PG!Comparisons, Comparisons

-----------------------------------------------------------------------------
(* A planned table is one the driver knows, with the columns planned.       *)

(* A table's own name is looked up as it is. *)
LEMMA OwnName ==
    ASSUME NEW d \in Identifiers, NEW s \in Identifiers, NEW w \in Identifiers, EqualFold(s, d) => s = d,
           NEW m, m = QualifyTableName(s, w, d)
    PROVE  /\ m = IF s = d THEN <<w>> ELSE <<s, w>>
           /\ NormalizeTableNameForLookup(m, d) = m /\ ParseQualifiedTableName(m, d) = <<s, w>>
<1>1. m = (IF s = d THEN <<w>> ELSE <<s, w>>) /\ NoSchema \notin Identifiers
  BY QualifiedName, WordsAssumption
<1>2. ParseQualifiedTableName(m, d) = <<s, w>>
  BY <1>1 DEF ParseQualifiedTableName
<1>3. m \in Seq(Identifiers) /\ Len(m) \in {1, 2, 3}
  <2>1. CASE s = d
    BY <1>1, <2>1
  <2>2. CASE s # d
    BY <1>1, <2>2
  <2> QED BY <2>1, <2>2
<1>4. PICK q : q = ParseQualifiedTableName(m, d) /\ q[1] = s /\ q[2] = w
  BY <1>2
<1>5. ~(Len(m) > 3)
  BY <1>3, NotLong
<1>6. NormalizeTableNameForLookup(m, d)
        = IF s = NoSchema \/ (d # NoSchema /\ EqualFold(s, d)) THEN <<w>> ELSE q
  BY <1>4, <1>5 DEF NormalizeTableNameForLookup
<1>7. EqualFold(d, d)
  BY DEF EqualFold
<1>8. CASE s = d
  BY <1>1, <1>2, <1>6, <1>7, <1>8
<1>9. CASE s # d
  BY <1>1, <1>2, <1>4, <1>6, <1>9
<1> QED BY <1>1, <1>2, <1>8, <1>9

(* Where no column is inside another a planned field is a column. *)
LEMMA HasIsColumn ==
    ASSUME NEW fields, NEW f, Has(fields, f), \A p \in Prefixes : p[2] \notin fields
    PROVE  f \in fields
<1>1. SUFFICES ASSUME NEW g \in fields, <<f, g>> \in Prefixes PROVE FALSE
  BY DEF Has
<1>2. PICK p : p = <<f, g>>
  OBVIOUS
<1>3. p[2] = g
  BY <1>2
<1> QED BY <1>1, <1>2, <1>3

Snapshot(t, schema) == BuildSnapshot(t, schema, TRUE)

LEMMA SnapshotOf ==
    ASSUME NEW t, NEW schema, NEW snapshot, snapshot = Snapshot(t, schema), NEW n \in DOMAIN snapshot
    PROVE  /\ \E m \in DOMAIN schema : n = NormalizeTable(t, m)
           /\ \A f \in snapshot[n] : \E m \in DOMAIN schema :
                n = NormalizeTable(t, m) /\ \E g \in schema[m] : f = NormalizeField(t, g)
<1>1. PICK kept : kept = {m \in DOMAIN schema : ~IsSystemTable(t, m)}
  OBVIOUS
<1>2. snapshot = [k \in {NormalizeTable(t, m) : m \in kept} |->
                    UNION {{NormalizeField(t, f) : f \in schema[m]} : m \in {j \in kept : NormalizeTable(t, j) = k}}]
  BY <1>1 DEF Snapshot, BuildSnapshot
<1>3. \E m \in kept : n = NormalizeTable(t, m)
  BY <1>2
<1>4. snapshot[n] = UNION {{NormalizeField(t, f) : f \in schema[m]} : m \in {j \in kept : NormalizeTable(t, j) = n}}
  BY <1>2
<1> QED BY <1>1, <1>3, <1>4

(* Every table of the plan, and every field, is in the snapshot. *)
InSnapshot(tables, snapshot) ==
    \A n \in DOMAIN tables : n \in DOMAIN snapshot /\ \A f \in tables[n] : Has(snapshot[n], f)

LEMMA PostgresPlanned ==
    ASSUME NEW b, \A x \in b : TableOf("POSTGRESQL", x), NEW scope, NEW snapshot,
           snapshot = Snapshot("POSTGRESQL", PG!GetSchemaInfo(b, scope)),
           NEW tables, InSnapshot(tables, snapshot), NEW n \in DOMAIN tables, tables[n] # {},
           NEW selected, selected = PG!ValidateTableAndFields(PostgresSchema(b, tables), n, tables[n])
    PROVE  selected # {} /\ selected \subseteq Identifiers
<1>1. PICK schema : schema = PG!GetDatabaseSchema(b, scope)
  OBVIOUS
<1>2. snapshot = Snapshot("POSTGRESQL", schema)
  BY <1>1 DEF PG!GetSchemaInfo
<1>3. \A m, f : NormalizeTable("POSTGRESQL", m) = NormalizeTableNameForLookup(m, "public")
                /\ NormalizeField("POSTGRESQL", f) = f
  BY DEF NormalizeTable, NormalizeField, FoldsFieldCase, DefaultSchemaForType
<1>4. ASSUME NEW m \in DOMAIN schema
      PROVE  \E x \in b : /\ x.schema \in Identifiers /\ x.name \in Identifiers
                          /\ m = IF x.schema = "public" THEN <<x.name>> ELSE <<x.schema, x.name>>
                          /\ NormalizeTableNameForLookup(m, "public") = m
  <2>1. PICK x \in b : m = QualifyTableName(x.schema, x.name, "public")
    BY <1>1, <1>4, PostgresNames DEF PG!GetDatabaseSchema, PG!QueryTables, PG!DefaultSchema
  <2>2. x.schema \in Identifiers /\ x.name \in Identifiers /\ (EqualFold(x.schema, "public") => x.schema = "public")
    BY DEF TableOf
  <2>3. "public" \in Identifiers
    BY WordsAssumption
  <2>4. PICK s, w : s = x.schema /\ w = x.name
    OBVIOUS
  <2>5. m = (IF s = "public" THEN <<w>> ELSE <<s, w>>) /\ NormalizeTableNameForLookup(m, "public") = m
    BY <2>1, <2>2, <2>3, <2>4, OwnName
  <2> QED BY <2>2, <2>4, <2>5
<1>5. n \in DOMAIN schema /\ \A f \in snapshot[n] : f \in schema[n]
  <2>1. n \in DOMAIN snapshot
    BY DEF InSnapshot
  <2>2. /\ \E m \in DOMAIN schema : n = NormalizeTable("POSTGRESQL", m)
        /\ \A f \in snapshot[n] : \E m \in DOMAIN schema :
             n = NormalizeTable("POSTGRESQL", m) /\ \E g \in schema[m] : f = NormalizeField("POSTGRESQL", g)
    BY <1>2, <2>1, SnapshotOf
  <2>3. \A m \in DOMAIN schema : NormalizeTable("POSTGRESQL", m) = m
    BY <1>3, <1>4
  <2> QED BY <1>3, <2>2, <2>3
<1>6. PICK x \in b : /\ x.schema \in Identifiers /\ x.name \in Identifiers
                     /\ n = IF x.schema = "public" THEN <<x.name>> ELSE <<x.schema, x.name>>
                     /\ NormalizeTableNameForLookup(n, "public") = n
  BY <1>4, <1>5
<1>7. PICK S, named : /\ S = PostgresSchema(b, tables) /\ named = PG!EnsureDefaultSchemaIncluded(DOMAIN tables)
                      /\ S = PG!GetDatabaseSchema(b, named)
  BY DEF PostgresSchema
<1>8. x.schema \in named
  <2>1. CASE x.schema = "public"
    <3>1. ~Qualified(n)
      BY <1>6, <2>1 DEF Qualified
    <3> QED BY <1>7, <2>1, <3>1, PostgresNames DEF PG!EnsureDefaultSchemaIncluded, PG!DefaultSchema
  <2>2. CASE x.schema # "public"
    <3>1. Qualified(n) /\ Head(n) = x.schema
      BY <1>6, <2>2 DEF Qualified
    <3>2. x.schema \in GetUniqueSchemas(DOMAIN tables)
      BY <3>1 DEF GetUniqueSchemas
    <3> QED BY <1>7, <3>2, PostgresNames DEF PG!EnsureDefaultSchemaIncluded
  <2> QED BY <2>1, <2>2
<1>9. n \in DOMAIN S
  <2>1. QualifyTableName(x.schema, x.name, "public") = n
    BY <1>6, QualifiedName
  <2> QED BY <1>7, <1>8, <2>1, PostgresNames DEF PG!GetDatabaseSchema, PG!QueryTables, PG!DefaultSchema
<1>10. S[n] = schema[n]
  BY <1>1, <1>5, <1>7, <1>9 DEF PG!GetDatabaseSchema
<1>11. S[n] \subseteq Identifiers /\ \A p \in Prefixes : p[2] \notin S[n]
  <2>1. \A f \in S[n] : \E y \in b : f \in y.columns
    BY <1>7, <1>9 DEF PG!GetDatabaseSchema, PG!BuildTableSchema
  <2> QED BY <2>1 DEF TableOf
<1>12. tables[n] \subseteq S[n]
  <2>1. \A f \in tables[n] : Has(snapshot[n], f)
    BY DEF InSnapshot
  <2>2. \A p \in Prefixes : p[2] \notin snapshot[n]
    BY <1>5, <1>10, <1>11
  <2>3. \A f \in tables[n] : f \in snapshot[n]
    BY <2>1, <2>2, HasIsColumn
  <2> QED BY <1>5, <1>10, <2>3
<1>13. PG!Lookup(n) = n
  BY <1>6, PostgresNames DEF PG!Lookup, PG!DefaultSchema
<1>14. selected = IF tables[n] = {"*"} THEN S[n] ELSE tables[n]
  BY <1>7, <1>9, <1>12, <1>13 DEF PG!ValidateTableAndFields
<1> QED BY <1>11, <1>12, <1>14

LEMMA MySQLPlanned ==
    ASSUME NEW b, \A x \in b : TableOf("MYSQL", x), NEW scope, NEW snapshot,
           snapshot = Snapshot("MYSQL", MY!GetSchemaInfo(b, scope)),
           NEW tables, InSnapshot(tables, snapshot), NEW n \in DOMAIN tables, tables[n] # {},
           NEW selected, selected = MY!ValidateTableAndFields(MySQLSchema(b, tables), n, tables[n])
    PROVE  selected # {} /\ selected \subseteq Identifiers
<1>1. PICK schema : schema = MY!GetDatabaseSchema(b) /\ MySQLSchema(b, tables) = schema
  BY DEF MySQLSchema
<1>2. snapshot = Snapshot("MYSQL", schema)
  BY <1>1 DEF MY!GetSchemaInfo
<1>3. ASSUME NEW m \in DOMAIN schema
      PROVE  NormalizeTable("MYSQL", m) = m
  <2>1. PICK x \in b : m = <<x.name>>
    BY <1>1, <1>3 DEF MY!GetDatabaseSchema, MY!QueryTables
  <2>2. x.name \in Identifiers
    BY DEF TableOf
  <2>3. IsName(m) /\ Len(m) = 1
    BY <2>1, <2>2 DEF IsName
  <2>4. NormalizeTable("MONGODB", m) = m
    BY <2>3, OneWord
  <2> QED BY <2>4 DEF NormalizeTable, FoldsFieldCase, DefaultSchemaForType
<1>4. \A f : NormalizeField("MYSQL", f) = f
  BY DEF NormalizeField, FoldsFieldCase
<1>5. n \in DOMAIN schema /\ \A f \in snapshot[n] : f \in schema[n]
  <2>1. n \in DOMAIN snapshot
    BY DEF InSnapshot
  <2>2. /\ \E m \in DOMAIN schema : n = NormalizeTable("MYSQL", m)
        /\ \A f \in snapshot[n] : \E m \in DOMAIN schema :
             n = NormalizeTable("MYSQL", m) /\ \E g \in schema[m] : f = NormalizeField("MYSQL", g)
    BY <1>2, <2>1, SnapshotOf
  <2> QED BY <1>3, <1>4, <2>2
<1>6. schema[n] \subseteq Identifiers /\ \A p \in Prefixes : p[2] \notin schema[n]
  <2>1. \A f \in schema[n] : \E y \in b : f \in y.columns
    BY <1>1, <1>5 DEF MY!GetDatabaseSchema, MY!BuildTableSchema
  <2> QED BY <2>1 DEF TableOf
<1>7. tables[n] \subseteq schema[n]
  <2>1. \A f \in tables[n] : Has(snapshot[n], f)
    BY DEF InSnapshot
  <2>2. \A p \in Prefixes : p[2] \notin snapshot[n]
    BY <1>5, <1>6
  <2>3. \A f \in tables[n] : f \in snapshot[n]
    BY <2>1, <2>2, HasIsColumn
  <2> QED BY <1>5, <2>3
<1>8. selected = IF tables[n] = {"*"} THEN schema[n] ELSE tables[n]
  BY <1>1, <1>5, <1>7 DEF MY!ValidateTableAndFields
<1> QED BY <1>6, <1>7, <1>8

-----------------------------------------------------------------------------
(* SQL Server and Oracle, where the scope decides the columns.              *)

(* No name of the request has a schema where its catalog should be. *)
NoCatalog(names, b) == ~\E t \in names : Len(t) = 3 /\ \E x \in b : EqualFold(t[1], x.schema)

LEMMA LenOfName ==
    ASSUME NEW u, IsName(u)
    PROVE  /\ Len(u) = 1 \/ Len(u) = 2 \/ Len(u) = 3 \/ Len(u) > 3
           /\ Qualified(u) <=> Len(u) # 1
           /\ Qualified(u) => Head(u) = u[1] /\ u[1] \in Identifiers
<1>1. u \in Seq(Identifiers) /\ u # <<>>
  BY DEF IsName
<1>2. PICK k \in Nat : k = Len(u) /\ k # 0
  BY <1>1
<1>3. (k = 1 \/ k = 2 \/ k = 3 \/ k > 3) /\ (k > 1 <=> k # 1)
  BY <1>2
<1>4. Head(u) = u[1] /\ u[1] \in Identifiers
  BY <1>1
<1> QED BY <1>2, <1>3, <1>4 DEF Qualified

(* A long name stays as it is; it is the name of no table. *)
LEMMA LongName ==
    ASSUME NEW t, NEW u, IsName(u), Len(u) > 3
    PROVE  ~(Len(NormalizeTable(t, u)) \in {1, 2})
<1>1. NormalizeTableNameForLookup(u, DefaultSchemaForType(t)) = u
  BY DEF NormalizeTableNameForLookup
<1>2. u \in Seq(Identifiers)
  BY DEF IsName
<1>3. UpperName(u) \in Seq(Identifiers) /\ Len(UpperName(u)) = Len(u)
  BY <1>2, WordsAssumption DEF UpperName
<1>4. PICK k \in Nat : k = Len(u) /\ k > 3
  BY <1>2
<1>5. ~(k \in {1, 2})
  BY <1>4
<1>6. Len(NormalizeTable(t, u)) = k
  BY <1>1, <1>3, <1>4 DEF NormalizeTable
<1> QED BY <1>5, <1>6

(* With all tables in dbo, the scope holds no other schema of the database. *)
LEMMA ScopeIsDbo ==
    ASSUME NEW b, \A x \in b : TableOf("SQL_SERVER", x), NEW names, \A u \in names : IsName(u),
           NoCatalog(names, b), \A u \in names : ~Qualified(NormalizeTable("SQL_SERVER", u)),
           NEW x \in b, x.schema \in SchemaScopeForTables("SQL_SERVER", names)
    PROVE  x.schema = "dbo"
<1>1. SUFFICES ASSUME x.schema \in GetUniqueSchemas(names), x.schema # "dbo" PROVE FALSE
  BY DEF SchemaScopeForTables, DefaultSchemaForType
<1>2. PICK u \in names : Qualified(u) /\ x.schema = Head(u)
  BY <1>1 DEF GetUniqueSchemas
<1>3. IsName(u) /\ u[1] = x.schema /\ Len(u) # 1
  BY <1>2, LenOfName
<1>4. x.schema \in Identifiers /\ ~EqualFold(x.schema, "dbo") /\ x.schema # NoSchema
  BY <1>1, WordsAssumption DEF TableOf
<1>5. NormalizeTable("SQL_SERVER", u) = NormalizeTableNameForLookup(u, "dbo")
  BY DEF NormalizeTable, FoldsFieldCase, DefaultSchemaForType
<1>6. CASE Len(u) = 2
  <2>1. ParseQualifiedTableName(u, "dbo") = <<x.schema, u[2]>>
    BY <1>3, <1>6 DEF ParseQualifiedTableName
  <2>2. PICK q : q = ParseQualifiedTableName(u, "dbo") /\ q[1] = x.schema
    BY <2>1
  <2>3. ~(Len(u) > 3)
    BY <1>6, NotLong
  <2>4. NormalizeTableNameForLookup(u, "dbo") = q
    BY <1>4, <2>2, <2>3 DEF NormalizeTableNameForLookup
  <2>5. Len(q) = 2
    BY ONLY <2>1, <2>2
  <2>6. Qualified(q)
    BY ONLY <2>5 DEF Qualified
  <2> QED BY <1>5, <2>4, <2>6
<1>7. CASE Len(u) = 3
  <2>1. EqualFold(u[1], x.schema)
    BY <1>3 DEF EqualFold
  <2> QED BY <1>7, <2>1 DEF NoCatalog
<1>8. CASE Len(u) > 3
  <2>1. NormalizeTable("SQL_SERVER", u) = u
    BY <1>5, <1>8 DEF NormalizeTableNameForLookup
  <2> QED BY <1>2, <2>1
<1> QED BY <1>3, <1>6, <1>7, <1>8, LenOfName

LEMMA SQLServerPlanned ==
    ASSUME NEW b, \A x \in b : TableOf("SQL_SERVER", x), NEW names, \A u \in names : IsName(u), NoCatalog(names, b),
           NEW scope, scope = SchemaScopeForTables("SQL_SERVER", names), scope # {}, NEW snapshot,
           snapshot = Snapshot("SQL_SERVER", MS!GetSchemaInfo(b, scope)),
           NEW tables, InSnapshot(tables, snapshot), NEW n \in DOMAIN tables, tables[n] # {},
           DOMAIN tables = {NormalizeTable("SQL_SERVER", u) : u \in names},
           \A k \in DOMAIN tables : Qualified(k) <=> Qualified(n),
           NEW selected, selected = MS!ValidateTableAndFields(SQLServerSchema(b, tables), n, tables[n])
    PROVE  selected # {} /\ selected \subseteq Identifiers
<1>1. PICK schema : schema = MS!GetDatabaseSchema(b, scope)
  OBVIOUS
<1>2. snapshot = Snapshot("SQL_SERVER", schema)
  BY <1>1 DEF MS!GetSchemaInfo
<1>3. \A m, f : NormalizeTable("SQL_SERVER", m) = NormalizeTableNameForLookup(m, "dbo")
                /\ NormalizeField("SQL_SERVER", f) = f
  BY DEF NormalizeTable, NormalizeField, FoldsFieldCase, DefaultSchemaForType
<1>4. ASSUME NEW m \in DOMAIN schema
      PROVE  \E x \in b : /\ x.schema \in scope /\ x.schema \in Identifiers /\ x.name \in Identifiers
                          /\ m = IF x.schema = "dbo" THEN <<x.name>> ELSE <<x.schema, x.name>>
                          /\ NormalizeTableNameForLookup(m, "dbo") = m
  <2>1. PICK x \in b : x.schema \in scope /\ m = QualifyTableName(x.schema, x.name, "dbo")
    BY <1>1, <1>4, SQLServerNames DEF MS!GetDatabaseSchema, MS!QueryTables, MS!DefaultSchema
  <2>2. x.schema \in Identifiers /\ x.name \in Identifiers /\ (EqualFold(x.schema, "dbo") => x.schema = "dbo")
    BY DEF TableOf
  <2>3. "dbo" \in Identifiers
    BY WordsAssumption
  <2>4. PICK s, w : s = x.schema /\ w = x.name
    OBVIOUS
  <2>5. m = (IF s = "dbo" THEN <<w>> ELSE <<s, w>>) /\ NormalizeTableNameForLookup(m, "dbo") = m
    BY <2>1, <2>2, <2>3, <2>4, OwnName
  <2> QED BY <2>1, <2>2, <2>4, <2>5
<1>5. n \in DOMAIN schema /\ \A f \in snapshot[n] : f \in schema[n]
  <2>1. n \in DOMAIN snapshot
    BY DEF InSnapshot
  <2>2. /\ \E m \in DOMAIN schema : n = NormalizeTable("SQL_SERVER", m)
        /\ \A f \in snapshot[n] : \E m \in DOMAIN schema :
             n = NormalizeTable("SQL_SERVER", m) /\ \E g \in schema[m] : f = NormalizeField("SQL_SERVER", g)
    BY <1>2, <2>1, SnapshotOf
  <2>3. \A m \in DOMAIN schema : NormalizeTable("SQL_SERVER", m) = m
    BY <1>3, <1>4
  <2> QED BY <1>3, <2>2, <2>3
<1>6. PICK x \in b : /\ x.schema \in scope /\ x.schema \in Identifiers /\ x.name \in Identifiers
                     /\ n = IF x.schema = "dbo" THEN <<x.name>> ELSE <<x.schema, x.name>>
                     /\ NormalizeTableNameForLookup(n, "dbo") = n
  BY <1>4, <1>5
<1>7. PICK S, named, known : /\ S = SQLServerSchema(b, tables) /\ named = GetUniqueSchemas(DOMAIN tables)
                             /\ S = MS!GetDatabaseSchema(b, named)
                             /\ known = IF named = {} THEN {"dbo"} ELSE named
  BY SQLServerNames DEF SQLServerSchema
<1>8. Qualified(n) <=> x.schema # "dbo"
  BY <1>6 DEF Qualified
<1>9. ASSUME x.schema = "dbo" PROVE n \in DOMAIN S /\ S[n] = schema[n]
  <2>1. named = {} /\ known = {"dbo"}
    BY <1>7, <1>8, <1>9 DEF GetUniqueSchemas
  <2>2. \A u \in names : ~Qualified(NormalizeTable("SQL_SERVER", u))
    BY <1>8, <1>9
  <2>3. \A y \in b : y.schema \in scope <=> y.schema = "dbo"
    BY <1>6, <1>9, <2>2, ScopeIsDbo
  <2>4. \A y \in b : y.schema \in scope <=> y.schema \in known
    BY <2>1, <2>3
  <2>5. ~Qualified(n)
    BY <1>8, <1>9
  <2>6. n \in DOMAIN S /\ S[n] = schema[n]
    <3>1. QualifyTableName(x.schema, x.name, "dbo") = n
      BY <1>6, QualifiedName
    <3>2. n \in DOMAIN S
      BY <1>6, <1>7, <2>4, <3>1, SQLServerNames DEF MS!GetDatabaseSchema, MS!QueryTables, MS!DefaultSchema
    <3>3. S[n] = UNION {t.columns : t \in {z \in b : z.schema \in known /\ z.name = n[Len(n)]}}
      BY <1>7, <2>5, <3>2, SQLServerNames DEF MS!GetDatabaseSchema, MS!BuildTableSchema, MS!DefaultSchema
    <3>4. schema[n] = UNION {t.columns : t \in {z \in b : z.schema \in scope /\ z.name = n[Len(n)]}}
      BY <1>1, <1>5, <2>5, SQLServerNames DEF MS!GetDatabaseSchema, MS!BuildTableSchema, MS!DefaultSchema
    <3>5. {z \in b : z.schema \in known /\ z.name = n[Len(n)]} = {z \in b : z.schema \in scope /\ z.name = n[Len(n)]}
      BY <2>4
    <3> QED BY <3>2, <3>3, <3>4, <3>5
  <2> QED BY <2>6
<1>10. ASSUME x.schema # "dbo" PROVE n \in DOMAIN S /\ S[n] = schema[n]
  <2>1. Qualified(n) /\ Head(n) = x.schema
    BY <1>6, <1>10 DEF Qualified
  <2>2. x.schema \in known
    BY <1>7, <2>1 DEF GetUniqueSchemas
  <2>3. n \in DOMAIN S
    <3>1. QualifyTableName(x.schema, x.name, "dbo") = n
      BY <1>6, QualifiedName
    <3> QED BY <1>7, <2>2, <3>1, SQLServerNames DEF MS!GetDatabaseSchema, MS!QueryTables, MS!DefaultSchema
  <2>4. S[n] = MS!BuildTableSchema(b, n, named) /\ schema[n] = MS!BuildTableSchema(b, n, scope)
    BY <1>1, <1>5, <1>7, <2>3 DEF MS!GetDatabaseSchema
  <2>5. MS!BuildTableSchema(b, n, named) = MS!BuildTableSchema(b, n, scope)
    BY <2>1, SQLServerNames DEF MS!BuildTableSchema
  <2> QED BY <2>3, <2>4, <2>5
<1>11. n \in DOMAIN S /\ S[n] = schema[n]
  BY <1>9, <1>10
<1>12. S[n] \subseteq Identifiers /\ \A p \in Prefixes : p[2] \notin S[n]
  <2>1. \A f \in S[n] : \E y \in b : f \in y.columns
    BY <1>7, <1>11 DEF MS!GetDatabaseSchema, MS!BuildTableSchema
  <2> QED BY <2>1 DEF TableOf
<1>13. tables[n] \subseteq S[n]
  <2>1. \A f \in tables[n] : Has(snapshot[n], f)
    BY DEF InSnapshot
  <2>2. \A p \in Prefixes : p[2] \notin snapshot[n]
    BY <1>5, <1>11, <1>12
  <2>3. \A f \in tables[n] : f \in snapshot[n]
    BY <2>1, <2>2, HasIsColumn
  <2> QED BY <1>5, <1>11, <2>3
<1>14. MS!Lookup(n) = n
  BY <1>6, SQLServerNames DEF MS!Lookup, MS!DefaultSchema
<1>15. selected = IF tables[n] = {"*"} THEN S[n] ELSE tables[n]
  BY <1>7, <1>11, <1>13, <1>14 DEF MS!ValidateTableAndFields
<1> QED BY <1>12, <1>13, <1>15

(* Oracle discovers a table in lower case and plans it in upper case. *)
LEMMA OracleFolds ==
    ASSUME NEW b, \A x \in b : TableOf("ORACLE", x), NEW y \in b,
           NEW k, k = QualifyTableName(y.schema, y.name, CurrentSchema)
    PROVE  UpperName(LowerName(k)) = k /\ UpperName(k) = k
<1>1. /\ y.schema \in Identifiers /\ y.name \in Identifiers
      /\ Upper[y.schema] = y.schema /\ Upper[y.name] = y.name
  BY OracleTable
<1>2. Upper[Lower[y.schema]] = y.schema /\ Upper[Lower[y.name]] = y.name
  BY <1>1, WordsAssumption
<1>3. k = IF y.schema = CurrentSchema THEN <<y.name>> ELSE <<y.schema, y.name>>
  BY <1>1, QualifiedName
<1>4. CASE y.schema = CurrentSchema
  <2>1. k = <<y.name>> /\ LowerName(k) = <<Lower[y.name]>>
    BY <1>3, <1>4, FoldedNames
  <2> QED BY <1>1, <1>2, <2>1, FoldedNames
<1>5. CASE y.schema # CurrentSchema
  <2>1. k = <<y.schema, y.name>>
    BY <1>3, <1>5
  <2>2. PICK s, w : s = Lower[y.schema] /\ w = Lower[y.name]
    OBVIOUS
  <2>3. LowerName(k) = <<s, w>> /\ UpperName(<<s, w>>) = <<Upper[s], Upper[w]>>
    BY <2>1, <2>2, FoldedNames
  <2>4. UpperName(k) = <<Upper[y.schema], Upper[y.name]>>
    BY <2>1, FoldedNames
  <2> QED BY <1>1, <1>2, <2>1, <2>2, <2>3, <2>4
<1> QED BY <1>4, <1>5

LEMMA OracleSchemaIs ==
    ASSUME NEW b, \A x \in b : TableOf("ORACLE", x), NEW scope, NEW found, found = OR!GetDatabaseSchema(b, scope),
           NEW schema, schema = OR!GetSchemaInfo(b, scope), NEW k \in DOMAIN found, NEW m, m = LowerName(k)
    PROVE  /\ NormalizeTable("ORACLE", m) = k
           /\ \A col \in found[k] : col \in Identifiers /\ Upper[col] = col
           /\ m \in DOMAIN schema /\ \A g : g \in schema[m] <=> \E col \in found[k] : g = Lower[col]
<1>1. schema = [n \in {LowerName(j) : j \in DOMAIN found} |-> {Lower[col] : col \in OR!ColumnsOf(found, n)}]
  BY DEF OR!GetSchemaInfo, OR!LowerName, LowerName
<1>2. ASSUME NEW j \in DOMAIN found
      PROVE  /\ NormalizeTable("ORACLE", LowerName(j)) = j
             /\ UpperName(LowerName(j)) = j /\ UpperName(j) = j
             /\ \A col \in found[j] : col \in Identifiers /\ Upper[col] = col
  <2>1. PICK y \in b : j = QualifyTableName(y.schema, y.name, CurrentSchema)
    BY <1>2, OracleNames DEF OR!GetDatabaseSchema, OR!QueryTables
  <2>2. \A col \in found[j] : \E z \in b : col \in z.columns
    BY <1>2 DEF OR!GetDatabaseSchema, OR!BuildTableSchema
  <2>3. \A col \in found[j] : col \in Identifiers /\ Upper[col] = col
    BY <2>2, OracleTable
  <2> QED BY <2>1, <2>3, LoweredAndRaised, OracleFolds
<1>3. OR!ColumnsOf(found, m) = found[k]
  <2>1. {j \in DOMAIN found : UpperName(j) = UpperName(m)} = {k}
    BY <1>2
  <2>2. OR!ColumnsOf(found, m) = UNION {found[j] : j \in {i \in DOMAIN found : UpperName(i) = UpperName(m)}}
    BY OracleNames DEF OR!ColumnsOf, OR!SameName
  <2>3. UNION {found[j] : j \in {k}} = found[k]
    OBVIOUS
  <2> QED BY <2>1, <2>2, <2>3
<1>4. m \in DOMAIN schema /\ schema[m] = {Lower[col] : col \in OR!ColumnsOf(found, m)}
  BY <1>1
<1> QED BY <1>2, <1>3, <1>4

LEMMA OracleSchemaNames ==
    ASSUME NEW b, NEW scope, NEW m \in DOMAIN OR!GetSchemaInfo(b, scope)
    PROVE  \E k \in DOMAIN OR!GetDatabaseSchema(b, scope) : m = LowerName(k)
BY DEF OR!GetSchemaInfo, OR!LowerName, LowerName

LEMMA OracleSnapshot ==
    ASSUME NEW b, \A x \in b : TableOf("ORACLE", x), NEW scope, NEW found, found = OR!GetDatabaseSchema(b, scope),
           NEW snapshot, snapshot = Snapshot("ORACLE", OR!GetSchemaInfo(b, scope)), NEW n \in DOMAIN snapshot
    PROVE  n \in DOMAIN found /\ \A f \in snapshot[n] : f \in found[n]
<1>1. PICK schema : schema = OR!GetSchemaInfo(b, scope)
  OBVIOUS
<1>2. ASSUME NEW m \in DOMAIN schema
      PROVE  /\ NormalizeTable("ORACLE", m) \in DOMAIN found
             /\ \A g \in schema[m] : NormalizeField("ORACLE", g) \in found[NormalizeTable("ORACLE", m)]
  <2>1. PICK k \in DOMAIN found : m = LowerName(k)
    BY <1>1, <1>2, OracleSchemaNames
  <2>2. /\ NormalizeTable("ORACLE", m) = k /\ \A g : g \in schema[m] <=> \E col \in found[k] : g = Lower[col]
        /\ \A col \in found[k] : col \in Identifiers /\ Upper[col] = col
    BY <1>1, <2>1, OracleSchemaIs
  <2>3. ASSUME NEW g \in schema[m] PROVE NormalizeField("ORACLE", g) \in found[k]
    <3>1. PICK col \in found[k] : g = Lower[col]
      BY <2>2
    <3>2. Upper[g] = col
      BY <2>2, <3>1, WordsAssumption
    <3> QED BY <3>2 DEF NormalizeField, FoldsFieldCase
  <2> QED BY <2>2, <2>3
<1>3. snapshot = Snapshot("ORACLE", schema)
  BY <1>1
<1>4. /\ \E m \in DOMAIN schema : n = NormalizeTable("ORACLE", m)
      /\ \A f \in snapshot[n] : \E m \in DOMAIN schema :
           n = NormalizeTable("ORACLE", m) /\ \E g \in schema[m] : f = NormalizeField("ORACLE", g)
  BY <1>3, SnapshotOf
<1> QED BY <1>2, <1>4

(* The user's own schema is in a plan by no name of the request. *)
LEMMA OwnSchemaUnnamed ==
    ASSUME NEW b, \A x \in b : TableOf("ORACLE", x), NEW names, \A u \in names : IsName(u), NoCatalog(names, b),
           NEW found, \A u \in names : NormalizeTable("ORACLE", u) \in DOMAIN found,
           \A k \in DOMAIN found : \E y \in b : k = QualifyTableName(y.schema, y.name, CurrentSchema),
           NEW x \in b, x.schema = CurrentSchema
    PROVE  CurrentSchema \notin OR!OwnerScope(GetUniqueSchemas(names))
<1>1. SUFFICES ASSUME NEW u \in names, Qualified(u), Upper[Head(u)] = CurrentSchema PROVE FALSE
  BY DEF OR!OwnerScope, GetUniqueSchemas
<1>2. IsName(u) /\ Head(u) = u[1] /\ u[1] \in Identifiers /\ Len(u) # 1 /\ Upper[u[1]] = CurrentSchema
  BY <1>1, LenOfName
<1>3. PICK k : k = NormalizeTable("ORACLE", u)
  OBVIOUS
<1>4. PICK y \in b : k = QualifyTableName(y.schema, y.name, CurrentSchema)
  BY <1>3
<1>5. k = (IF y.schema = CurrentSchema THEN <<y.name>> ELSE <<y.schema, y.name>>) /\ Len(k) \in {1, 2}
  <2>1. y.schema \in Identifiers
    BY <1>4, OracleTable
  <2> QED BY <1>4, <2>1, QualifiedName
<1>6. CASE Len(u) = 2
  <2>1. ParseQualifiedTableName(u, NoSchema) = <<u[1], u[2]>>
    BY <1>6 DEF ParseQualifiedTableName
  <2>2. PICK q : q = ParseQualifiedTableName(u, NoSchema) /\ q[1] = u[1] /\ q = <<u[1], u[2]>>
    BY <2>1
  <2>3. ~(Len(u) > 3) /\ u[1] # NoSchema
    BY <1>2, <1>6, NotLong, WordsAssumption
  <2>4. NormalizeTableNameForLookup(u, NoSchema) = q
    BY <2>2, <2>3 DEF NormalizeTableNameForLookup
  <2>5. k = UpperName(q)
    BY <1>3, <2>4 DEF NormalizeTable, FoldsFieldCase, DefaultSchemaForType
  <2>6. k = <<CurrentSchema, Upper[u[2]]>>
    BY <1>2, <2>2, <2>5, FoldedNames
  <2> QED BY <1>5, <2>6, PairEquals
<1>7. CASE Len(u) = 3
  <2>1. EqualFold(u[1], x.schema)
    BY <1>2, WordsAssumption DEF EqualFold
  <2> QED BY <1>7, <2>1 DEF NoCatalog
<1>8. CASE Len(u) > 3
  BY <1>2, <1>3, <1>5, <1>8, LongName
<1> QED BY <1>2, <1>6, <1>7, <1>8, LenOfName

LEMMA OraclePlanned ==
    ASSUME NEW b, \A x \in b : TableOf("ORACLE", x), NEW names, \A u \in names : IsName(u), NoCatalog(names, b),
           NEW scope, IF GetUniqueSchemas(names) # {} THEN scope = GetUniqueSchemas(names)
                      ELSE scope = {} \/ \E s : scope = {s},
           NEW snapshot, snapshot = Snapshot("ORACLE", OR!GetSchemaInfo(b, scope)),
           NEW tables, InSnapshot(tables, snapshot), NEW n \in DOMAIN tables, tables[n] # {},
           DOMAIN tables = {NormalizeTable("ORACLE", u) : u \in names},
           NEW selected, selected = OR!ValidateTableAndFields(OracleSchema(b, tables), n, tables[n])
    PROVE  selected # {} /\ selected \subseteq Identifiers
<1>1. PICK found, wanted : /\ found = OR!GetDatabaseSchema(b, scope)
                           /\ wanted = IF scope = {} THEN {CurrentSchema} ELSE OR!OwnerScope(scope)
  OBVIOUS
<1>2. \A k \in DOMAIN tables : k \in DOMAIN snapshot
  BY DEF InSnapshot
<1>3. \A k \in DOMAIN tables : k \in DOMAIN found
  BY <1>1, <1>2, OracleSnapshot
<1>4. \A k \in DOMAIN found : \E y \in b : y.schema \in wanted /\ k = QualifyTableName(y.schema, y.name, CurrentSchema)
  BY <1>1, OracleNames DEF OR!GetDatabaseSchema, OR!QueryTables
<1>5. PICK x \in b : x.schema \in wanted /\ n = QualifyTableName(x.schema, x.name, CurrentSchema)
  BY <1>3, <1>4
<1>6. /\ x.schema \in Identifiers /\ x.name \in Identifiers /\ Upper[x.schema] = x.schema
      /\ CurrentSchema \in Identifiers /\ Upper[CurrentSchema] = CurrentSchema
  BY OracleTable, WordsAssumption
<1>7. /\ n = IF x.schema = CurrentSchema THEN <<x.name>> ELSE <<x.schema, x.name>>
      /\ NormalizeTableNameForLookup(n, CurrentSchema) = n
  <2>1. PICK s, w : s = x.schema /\ w = x.name
    OBVIOUS
  <2>2. EqualFold(s, CurrentSchema) => s = CurrentSchema
    BY <1>6, <2>1 DEF EqualFold
  <2> QED BY <1>5, <1>6, <2>1, <2>2, OwnName
<1>8. PICK S, named, known : /\ S = OracleSchema(b, tables) /\ named = GetUniqueSchemas(DOMAIN tables)
                             /\ S = OR!GetDatabaseSchema(b, named)
                             /\ known = IF named = {} THEN {CurrentSchema} ELSE OR!OwnerScope(named)
  BY OracleNames DEF OracleSchema
<1>9. ASSUME x.schema = CurrentSchema PROVE known = wanted /\ ~Qualified(n)
  <2>1. ~Qualified(n)
    BY <1>7, <1>9 DEF Qualified
  <2>2. CurrentSchema \notin OR!OwnerScope(GetUniqueSchemas(names))
    <3>1. \A u \in names : NormalizeTable("ORACLE", u) \in DOMAIN found
      BY <1>3
    <3>2. \A k \in DOMAIN found : \E y \in b : k = QualifyTableName(y.schema, y.name, CurrentSchema)
      BY <1>4
    <3> QED BY <1>9, <3>1, <3>2, OwnSchemaUnnamed
  <2>3. GetUniqueSchemas(names) = {}
    <3>1. SUFFICES ASSUME GetUniqueSchemas(names) # {} PROVE FALSE
      OBVIOUS
    <3>2. scope = GetUniqueSchemas(names) /\ wanted = OR!OwnerScope(scope)
      BY <1>1, <3>1
    <3> QED BY <1>5, <1>9, <2>2, <3>2
  <2>4. wanted = {CurrentSchema}
    <3>1. CASE scope = {}
      BY <1>1, <3>1
    <3>2. CASE \E s : scope = {s}
      <4>1. PICK s : scope = {s}
        BY <3>2
      <4>2. wanted = {Upper[s]}
        BY <1>1, <4>1 DEF OR!OwnerScope
      <4> QED BY <1>5, <1>9, <4>2
    <3> QED BY <2>3, <3>1, <3>2
  <2>5. ASSUME NEW u \in names PROVE ~Qualified(NormalizeTable("ORACLE", u))
    <3>1. IsName(u) /\ ~Qualified(u)
      BY <2>3 DEF GetUniqueSchemas
    <3>2. Len(u) = 1
      BY <3>1, LenOfName
    <3>3. NormalizeTable("MONGODB", u) = u
      BY <3>1, <3>2, OneWord
    <3>4. NormalizeTable("ORACLE", u) = UpperName(u)
      BY <3>3 DEF NormalizeTable, FoldsFieldCase, DefaultSchemaForType
    <3>5. u = <<u[1]>>
      BY <3>1, <3>2 DEF IsName
    <3>6. NormalizeTable("ORACLE", u) = <<Upper[u[1]]>>
      BY <3>4, <3>5, FoldedNames
    <3> QED BY <3>6 DEF Qualified
  <2>6. named = {}
    BY <1>8, <2>5 DEF GetUniqueSchemas
  <2> QED BY <1>8, <2>1, <2>4, <2>6
<1>10. n \in DOMAIN S /\ S[n] = found[n]
  <2>1. x.schema \in known
    <3>1. CASE x.schema = CurrentSchema
      BY <1>5, <1>9, <3>1
    <3>2. CASE x.schema # CurrentSchema
      <4>1. Qualified(n) /\ Head(n) = x.schema
        BY <1>7, <3>2 DEF Qualified
      <4>2. x.schema \in named
        BY <1>8, <4>1 DEF GetUniqueSchemas
      <4> QED BY <1>6, <1>8, <4>2 DEF OR!OwnerScope
    <3> QED BY <3>1, <3>2
  <2>2. n \in DOMAIN S
    BY <1>5, <1>8, <2>1, OracleNames DEF OR!GetDatabaseSchema, OR!QueryTables
  <2>3. S[n] = OR!BuildTableSchema(b, n, named) /\ found[n] = OR!BuildTableSchema(b, n, scope)
    BY <1>1, <1>3, <1>8, <2>2 DEF OR!GetDatabaseSchema
  <2>4. OR!BuildTableSchema(b, n, named) = OR!BuildTableSchema(b, n, scope)
    <3>1. PICK own, planned : /\ own = IF Qualified(n) THEN {Upper[n[1]]} ELSE known
                              /\ planned = IF Qualified(n) THEN {Upper[n[1]]} ELSE wanted
      OBVIOUS
    <3>2. own = planned
      <4>1. CASE x.schema = CurrentSchema
        BY <1>9, <3>1, <4>1
      <4>2. CASE x.schema # CurrentSchema
        <5>1. Qualified(n)
          BY <1>7, <4>2 DEF Qualified
        <5> QED BY <3>1, <5>1
      <4> QED BY <4>1, <4>2
    <3>3. OR!BuildTableSchema(b, n, named)
            = UNION {t.columns : t \in {z \in b : z.schema \in own /\ z.name = Upper[n[Len(n)]]}}
      BY <1>8, <3>1, OracleNames DEF OR!BuildTableSchema
    <3>4. OR!BuildTableSchema(b, n, scope)
            = UNION {t.columns : t \in {z \in b : z.schema \in planned /\ z.name = Upper[n[Len(n)]]}}
      BY <1>1, <3>1, OracleNames DEF OR!BuildTableSchema
    <3> QED BY <3>2, <3>3, <3>4
  <2> QED BY <2>2, <2>3, <2>4
<1>11. PICK columns : columns = OR!ColumnsOf(S, n)
  OBVIOUS
<1>12. columns \subseteq Identifiers /\ \A p \in Prefixes : p[2] \notin columns
  <2>1. \A f \in columns : \E y \in b : f \in y.columns
    BY <1>8, <1>11, OracleColumnsAreTables
  <2> QED BY <2>1 DEF TableOf
<1>13. S[n] \subseteq columns
  BY <1>10, <1>11 DEF OR!ColumnsOf, OR!SameName
<1>14. tables[n] \subseteq columns
  <2>1. (\A f \in tables[n] : Has(snapshot[n], f)) /\ n \in DOMAIN snapshot
    BY DEF InSnapshot
  <2>2. \A f \in snapshot[n] : f \in found[n]
    BY <1>1, <2>1, OracleSnapshot
  <2>3. \A f \in snapshot[n] : f \in columns
    BY <1>10, <1>13, <2>2
  <2>4. \A p \in Prefixes : p[2] \notin snapshot[n]
    BY <1>12, <2>3
  <2>5. \A f \in tables[n] : f \in snapshot[n]
    BY <2>1, <2>4, HasIsColumn
  <2> QED BY <2>3, <2>5
<1>15. OR!NormalizeTableNameForLookup(n, CurrentSchema) = n
  BY <1>7, OracleNames
<1>16. \A f : OR!EqualFold(f, f)
  BY DEF OR!EqualFold
<1>17. selected = IF tables[n] = {"*"} THEN columns
                  ELSE {col \in columns : \E f \in tables[n] : OR!EqualFold(col, f)}
  BY <1>8, <1>11, <1>14, <1>15, <1>16 DEF OR!ValidateTableAndFields
<1> QED BY <1>12, <1>14, <1>16, <1>17

-----------------------------------------------------------------------------
(* MongoDB, and the names that discovery finds.                             *)

LEMMA MongoSchemaOf ==
    ASSUME NEW b, NEW schema \in GetSchemaInfos(b)
    PROVE  /\ \A m \in DOMAIN schema : \E x \in b : m = <<x.name>>
           /\ \A m \in DOMAIN schema : \A f \in schema[m] : \E x \in b : \E d \in x.rows :
                 \E g \in DOMAIN d : f = TopLevel[g]
<1> DEFINE collections == {t.name : t \in b}
           Of(n) == (CHOOSE t \in b : t.name = n).rows
           KnownOf(n) == {DiscoverAllFields(s) : s \in Samples(Of(n))} \cup {{}}
<1>1. /\ schema \in [{<<n>> : n \in collections} -> UNION {KnownOf(n) : n \in collections}]
      /\ \A n \in collections : schema[<<n>>] \in KnownOf(n)
  BY DEF GetSchemaInfos, GetDatabaseSchemas
<1>2. DOMAIN schema = {<<n>> : n \in collections}
  BY <1>1
<1>3. ASSUME NEW n \in collections, NEW f \in schema[<<n>>]
      PROVE  \E x \in b : \E d \in x.rows : \E g \in DOMAIN d : f = TopLevel[g]
  <2>1. PICK s \in Samples(Of(n)) : f \in DiscoverAllFields(s)
    BY <1>1, <1>3
  <2>2. PICK x : x = CHOOSE t \in b : t.name = n
    OBVIOUS
  <2>3. x \in b
    BY <2>2
  <2>4. s \subseteq x.rows
    BY <2>1, <2>2 DEF Samples
  <2>5. PICK d \in s : \E g \in DOMAIN d : f = TopLevel[g]
    BY <2>1 DEF DiscoverAllFields
  <2> QED BY <2>3, <2>4, <2>5
<1> HIDE DEF KnownOf, Of
<1>4. ASSUME NEW m \in DOMAIN schema PROVE \E x \in b : m = <<x.name>>
  BY <1>2
<1>5. ASSUME NEW m \in DOMAIN schema, NEW f \in schema[m]
      PROVE  \E x \in b : \E d \in x.rows : \E g \in DOMAIN d : f = TopLevel[g]
  <2>1. PICK n \in collections : m = <<n>>
    BY <1>2
  <2> QED BY <1>3, <2>1
<1> QED BY <1>4, <1>5

LEMMA RowsOfAll ==
    ASSUME NEW t \in D!DBTypes, NEW x \in Databases[t]
    PROVE  x.rows \subseteq AllRows /\ \A d \in x.rows : DOMAIN d \subseteq AllFields
<1>1. x.rows \subseteq AllRows
  BY DEF AllRows
<1> QED BY <1>1 DEF AllFields, Paths

LEMMA WordsAreFields == Identifiers \subseteq AllFields
BY DEF AllFields

LEMMA MongoFails ==
    ASSUME NEW b, b = Databases["MONGODB"], NEW n, NEW tables, tables[n] \subseteq AllFields, NEW filters,
           Query(b, tables, filters, n) = Failed, NEW filter, filter = GetCollectionFilters(filters, n)
    PROVE  \E f \in DOMAIN filter : ~ValidateFilterCondition(filter[f])
<1>1. PICK docs : docs = Documents(b, n)
  OBVIOUS
<1>2. docs \subseteq AllRows /\ \A d \in docs : DOMAIN d \subseteq AllFields
  <2>1. \A d \in docs : \E x \in b : d \in x.rows
    BY <1>1 DEF Documents
  <2>2. "MONGODB" \in D!DBTypes
    BY DEF D!DBTypes
  <2> QED BY <2>1, <2>2, RowsOfAll
<1>3. Projection(docs, tables[n]) \subseteq AllFields
  BY <1>2 DEF Projection
<1>4. PICK proj : proj = Projection(docs, tables[n]) /\ proj \subseteq AllFields
  BY <1>3
<1>5. \A rows : rows \subseteq docs => [fields |-> proj, rows |-> rows] # Failed
  BY <1>2, <1>4, AnswerIsNoFailure
<1>6. CASE DOMAIN filter = {}
  <2>1. Query(b, tables, filters, n) = [fields |-> proj, rows |-> docs]
    BY <1>1, <1>4, <1>6 DEF Query, QueryAll
  <2> QED BY <1>5, <2>1
<1>7. CASE DOMAIN filter # {}
  <2>1. PICK found : found = Find(docs, BuildMongoFilter(filter)) /\ found \subseteq docs
    BY DEF Find
  <2>2. SUFFICES ASSUME ~\E f \in DOMAIN filter : ~ValidateFilterCondition(filter[f]) PROVE FALSE
    OBVIOUS
  <2>3. Query(b, tables, filters, n) = [fields |-> proj, rows |-> found]
    BY <1>1, <1>4, <1>7, <2>1, <2>2 DEF Query, QueryWithAdvancedFilters
  <2> QED BY <1>5, <2>1, <2>3
<1> QED BY <1>6, <1>7

(* What is planned of a collection are fields of documents, or of objects. *)
LEMMA MongoPlanned ==
    ASSUME NEW b, b = Databases["MONGODB"], NEW schema \in GetSchemaInfos(b), NEW snapshot,
           snapshot = Snapshot("MONGODB", schema), NEW tables, InSnapshot(tables, snapshot), NEW n \in DOMAIN tables
    PROVE  tables[n] \subseteq AllFields
<1>1. n \in DOMAIN snapshot /\ \A f \in tables[n] : Has(snapshot[n], f)
  BY DEF InSnapshot
<1>2. \A f \in snapshot[n] : \E m \in DOMAIN schema :
        n = NormalizeTable("MONGODB", m) /\ \E g \in schema[m] : f = NormalizeField("MONGODB", g)
  BY <1>1, SnapshotOf
<1>3. ASSUME NEW f \in snapshot[n] PROVE f \in AllFields
  <2>1. PICK m \in DOMAIN schema : \E g \in schema[m] : f = NormalizeField("MONGODB", g)
    BY <1>2
  <2>2. f \in schema[m]
    BY <2>1 DEF NormalizeField, FoldsFieldCase
  <2>3. PICK x \in b : \E d \in x.rows : \E g \in DOMAIN d : f = TopLevel[g]
    BY <2>2, MongoSchemaOf
  <2>4. "MONGODB" \in D!DBTypes
    BY DEF D!DBTypes
  <2>5. PICK d \in x.rows : \E g \in DOMAIN d : f = TopLevel[g]
    BY <2>3
  <2>6. d \in AllRows
    BY <2>3, <2>4, RowsOfAll
  <2>7. PICK g \in Paths : f = TopLevel[g]
    BY <2>5, <2>6 DEF Paths
  <2> QED BY <2>7 DEF AllFields
<1>4. ASSUME NEW f, NEW g, <<f, g>> \in Prefixes PROVE f \in AllFields
  <2>1. PICK p \in Prefixes : p = <<f, g>>
    BY <1>4
  <2>2. p[1] = f
    BY <2>1
  <2> QED BY <2>1, <2>2 DEF AllFields
<1> QED BY <1>1, <1>3, <1>4 DEF Has

LEMMA MongoValid ==
    ASSUME NEW f, NEW c, IsCondition(c), WellFormed(f, c)
    PROVE  ValidateFilterCondition(c)
<1>1. \A op \in Comparisons : Len(c[op]) \in {0, 1}
  <2>1. SUFFICES ASSUME NEW op \in Comparisons PROVE Len(c[op]) \in {0, 1}
    OBVIOUS
  <2>2. c[op] \in Seq(Value) /\ Len(c[op]) <= 1
    BY DEF WellFormed, IsCondition, Comparisons, Operators
  <2> QED BY <2>2, AtMostOne
<1>2. Len(c.between) \in {0, 2}
  BY DEF WellFormed
<1> QED BY <1>1, <1>2, Zenon DEF ValidateFilterCondition

(* The name of a table is a name. *)
LEMMA TableHasName ==
    ASSUME NEW s \in Identifiers, NEW w \in Identifiers, NEW d
    PROVE  IsName(QualifyTableName(s, w, d)) /\ IsName(<<w>>)
<1>1. <<w>> \in Seq(Identifiers) /\ <<s, w>> \in Seq(Identifiers)
  OBVIOUS
<1>2. QualifyTableName(s, w, d) = <<w>> \/ QualifyTableName(s, w, d) = <<s, w>>
  BY DEF QualifyTableName
<1>3. <<w>> # <<>> /\ <<s, w>> # <<>>
  OBVIOUS
<1>4. IsName(<<w>>) /\ IsName(<<s, w>>)
  BY <1>1, <1>3 DEF IsName
<1> QED BY <1>2, <1>4

LEMMA DiscoveredNames ==
    ASSUME NEW t \in D!DBTypes, NEW scope, NEW schema \in SchemaInfos(t, scope), NEW fold \in BOOLEAN,
           NEW n \in DOMAIN BuildSnapshot(t, schema, fold), t = "ORACLE" => fold = TRUE
    PROVE  IsName(n)
<1>0. PICK b : b = Databases[t] /\ \A x \in b : TableOf(t, x)
  BY DatabasesAssumption
<1>1. PICK m \in DOMAIN schema : n = m \/ n = NormalizeTable(t, m)
  BY DEF BuildSnapshot
<1>2. CASE t = "ORACLE"
  <2>1. schema = OR!GetSchemaInfo(b, scope)
    BY <1>0, <1>2 DEF SchemaInfos
  <2>2. n \in DOMAIN BuildSnapshot("ORACLE", schema, TRUE)
    BY <1>2, Zenon
  <2>3. PICK y \in b : n = QualifyTableName(y.schema, y.name, CurrentSchema)
    BY <1>0, <1>2, <2>1, <2>2, OraclePlan
  <2>4. y.schema \in Identifiers /\ y.name \in Identifiers
    BY <1>0, <1>2, OracleTable
  <2> QED BY <2>3, <2>4, TableHasName
<1>3. CASE t # "ORACLE"
  <2>1. IsName(m)
    <3>1. CASE t = "POSTGRESQL"
      <4>1. PICK x \in b : m = QualifyTableName(x.schema, x.name, "public")
        BY <1>0, <1>1, <3>1, PostgresNames
           DEF SchemaInfos, PG!GetSchemaInfo, PG!GetDatabaseSchema, PG!QueryTables, PG!DefaultSchema
      <4>2. x.schema \in Identifiers /\ x.name \in Identifiers
        BY <1>0, <3>1 DEF TableOf
      <4> QED BY <4>1, <4>2, TableHasName
    <3>2. CASE t = "SQL_SERVER"
      <4>1. PICK x \in b : m = QualifyTableName(x.schema, x.name, "dbo")
        BY <1>0, <1>1, <3>2, SQLServerNames
           DEF SchemaInfos, MS!GetSchemaInfo, MS!GetDatabaseSchema, MS!QueryTables, MS!DefaultSchema
      <4>2. x.schema \in Identifiers /\ x.name \in Identifiers
        BY <1>0, <3>2 DEF TableOf
      <4> QED BY <4>1, <4>2, TableHasName
    <3>3. CASE t = "MYSQL"
      <4>1. PICK x \in b : m = <<x.name>>
        BY <1>0, <1>1, <3>3 DEF SchemaInfos, MY!GetSchemaInfo, MY!GetDatabaseSchema, MY!QueryTables
      <4>2. x.schema \in Identifiers /\ x.name \in Identifiers
        BY <1>0, <3>3 DEF TableOf
      <4> QED BY <4>1, <4>2, TableHasName
    <3>4. CASE t = "MONGODB"
      <4>1. schema \in GetSchemaInfos(b)
        BY <1>0, <3>4 DEF SchemaInfos
      <4>2. PICK x \in b : m = <<x.name>>
        BY <1>1, <4>1, MongoSchemaOf
      <4>3. x.name \in Identifiers
        BY <1>0 DEF TableOf
      <4> QED BY <4>2, <4>3, TableHasName
    <3> QED BY <1>3, <3>1, <3>2, <3>3, <3>4 DEF D!DBTypes
  <2> QED BY <1>1, <1>3, <2>1, NormalIsName
<1> QED BY <1>2, <1>3

-----------------------------------------------------------------------------
(* What is planned can be queried.                                          *)

(* Clients are shown names, and ask for them. *)
TablesNamed ==
    /\ \A t \in DOMAIN request.tables : IsName(t)
    /\ DOMAIN browse = {"ids", "conn", "tables"} /\ \A t \in DOMAIN browse.tables : IsName(t)

JobOfRequest ==
    phase \in {"mapped", "planned"} =>
        /\ DOMAIN job.selection = {NormalizeTable(type, t) : t \in DOMAIN request.tables}
        /\ job.scope = SchemaScopeForTables(type, DOMAIN request.tables)

(* The planner has found every table and field it accepted. *)
PlanAccepted ==
    phase = "planned" => \E schema \in SchemaInfos(type, SchemaArg(job.scope, conn)) :
        InSnapshot(job.selection, Snapshot(type, schema))

ExecInv == TablesNamed /\ JobOfRequest /\ PlanAccepted /\ PlanIsExecutable

(* The conditions of a job. *)
LEMMA JobConditions ==
    ASSUME PathInv, phase = "planned", NEW n \in DOMAIN job.filters, NEW f \in DOMAIN job.filters[n]
    PROVE  IsCondition(job.filters[n][f])
<1>0. ~IsCRM
  BY DEF PathInv, Planned, JobMapped
<1>1. FiltersMapped
  BY <1>0 DEF PathInv, JobMapped, Planned
<1>2. f \in FilteredOn(n) /\ job.filters[n][f] \in Stated(n, f)
  BY <1>1 DEF FiltersMapped
<1>3. request \in Requests
  BY <1>2, FilteredRequest
<1> QED BY <1>2, <1>3, StatedIsCondition

Malformed == \E n \in DOMAIN job.filters : \E f \in DOMAIN job.filters[n] : ~WellFormed(f, job.filters[n][f])

LEMMA SQLFilterValid ==
    ASSUME PathInv, phase = "planned", type # "MONGODB", ~Malformed,
           NEW filter, NEW k, filter = <<>> \/ (k \in DOMAIN FiltersForConfig /\ filter = FiltersForConfig[k])
    PROVE  \A f \in DOMAIN filter : PG!ValidateFilterCondition(f, filter[f])
<1>1. SUFFICES ASSUME NEW f \in DOMAIN filter PROVE PG!ValidateFilterCondition(f, filter[f])
  OBVIOUS
<1>2. PICK n \in DOMAIN job.filters : f \in DOMAIN job.filters[n] /\ filter[f] = job.filters[n][f]
  BY FiltersOfJob
<1>3. IsCondition(filter[f]) /\ WellFormed(f, filter[f])
  BY <1>2, JobConditions DEF Malformed
<1> QED BY <1>3, WellFormedIsValid

(* A query of a planned table fails for the reasons the property names. *)
LEMMA PlanRuns ==
    ASSUME PathInv, TablesNamed, JobOfRequest, PlanAccepted, phase = "planned",
           NEW n \in DOMAIN job.selection, Answer(n) = Failed,
           \A k \in DOMAIN job.selection : job.selection[k] # {}, ~Malformed,
           type = "SQL_SERVER" => {Qualified(k) : k \in DOMAIN job.selection} # BOOLEAN,
           type \in {"ORACLE", "SQL_SERVER"} => NoCatalog(DOMAIN request.tables, db)
    PROVE  FALSE
<1>1. type \in D!DBTypes
  BY DEF PathInv, TypeKnown, Planned
<1>2. PICK b, names, tables, filters : /\ b = db /\ names = DOMAIN request.tables
                                       /\ tables = job.selection /\ filters = FiltersForConfig
  OBVIOUS
<1>3. b = Databases[type] /\ \A x \in b : TableOf(type, x) /\ x.rows \subseteq AllRows
  BY <1>1, <1>2, DatabasesAssumption, RowsOfAll DEF db
<1>4. /\ \A u \in names : IsName(u)
      /\ DOMAIN tables = {NormalizeTable(type, u) : u \in names} /\ job.scope = SchemaScopeForTables(type, names)
      /\ n \in DOMAIN tables /\ tables[n] # {}
  BY <1>2 DEF TablesNamed, JobOfRequest
<1>5. PICK scope, schema, snapshot :
        /\ scope = SchemaArg(job.scope, conn) /\ schema \in SchemaInfos(type, scope)
        /\ snapshot = Snapshot(type, schema) /\ InSnapshot(tables, snapshot)
  BY <1>2 DEF PlanAccepted
<1>6. Identifiers \subseteq AllFields
  BY WordsAreFields
<1>7. CASE type = "POSTGRESQL"
  <2>1. PG!Query(b, tables, filters, n) = Failed
    BY <1>2, <1>7 DEF Answer
  <2>2. snapshot = Snapshot("POSTGRESQL", PG!GetSchemaInfo(b, scope))
    BY <1>3, <1>5, <1>7 DEF SchemaInfos
  <2>3. PICK selected : selected = PG!ValidateTableAndFields(PostgresSchema(b, tables), n, tables[n])
    OBVIOUS
  <2>4. selected # {} /\ selected \subseteq Identifiers
    BY <1>3, <1>4, <1>5, <1>7, <2>2, <2>3, PostgresPlanned
  <2>5. PICK filter : filter = PG!GetTableFilters(filters, n)
    OBVIOUS
  <2>6. \E k : filter = <<>> \/ (k \in DOMAIN FiltersForConfig /\ filter = FiltersForConfig[k])
    BY <1>2, <2>5 DEF PG!GetTableFilters
  <2>7. \A f \in DOMAIN filter : PG!ValidateFilterCondition(f, filter[f])
    BY <1>7, <2>6, SQLFilterValid
  <2>8. PG!RowsOf(b, n) \subseteq AllRows
    BY <1>3 DEF PG!RowsOf
  <2> QED BY <1>6, <2>1, <2>3, <2>4, <2>5, <2>7, <2>8, PostgresFails
<1>8. CASE type = "MYSQL"
  <2>1. MY!Query(b, tables, filters, n) = Failed
    BY <1>2, <1>8 DEF Answer
  <2>2. snapshot = Snapshot("MYSQL", MY!GetSchemaInfo(b, scope))
    BY <1>3, <1>5, <1>8 DEF SchemaInfos
  <2>3. PICK selected : selected = MY!ValidateTableAndFields(MySQLSchema(b, tables), n, tables[n])
    OBVIOUS
  <2>4. selected # {} /\ selected \subseteq Identifiers
    BY <1>3, <1>4, <1>5, <1>8, <2>2, <2>3, MySQLPlanned
  <2>5. PICK filter : filter = MY!GetTableFilters(filters, n)
    OBVIOUS
  <2>6. \E k : filter = <<>> \/ (k \in DOMAIN FiltersForConfig /\ filter = FiltersForConfig[k])
    BY <1>2, <2>5 DEF MY!GetTableFilters
  <2>7. \A f \in DOMAIN filter : PG!ValidateFilterCondition(f, filter[f])
    BY <1>8, <2>6, SQLFilterValid
  <2>8. MY!RowsOf(b, n) \subseteq AllRows
    BY <1>3 DEF MY!RowsOf
  <2> QED BY <1>6, <2>1, <2>3, <2>4, <2>5, <2>7, <2>8, MySQLFails
<1>9. CASE type = "SQL_SERVER"
  <2>1. MS!Query(b, tables, filters, n) = Failed
    BY <1>2, <1>9 DEF Answer
  <2>a. PICK raw : raw = SchemaScopeForTables("SQL_SERVER", names)
    OBVIOUS
  <2>b. raw # {}
    <3>1. PICK u \in names : TRUE
      BY <1>4
    <3>2. CASE Qualified(u)
      <4>1. Head(u) \in raw
        BY <2>a, <3>2 DEF SchemaScopeForTables, GetUniqueSchemas
      <4> QED BY <4>1
    <3>3. CASE ~Qualified(u)
      <4>1. DefaultSchemaForType("SQL_SERVER") = "dbo"
        BY DEF DefaultSchemaForType
      <4>2. "dbo" \in raw
        BY <2>a, <3>1, <3>3, <4>1 DEF SchemaScopeForTables, NoSchema
      <4> QED BY <4>2
    <3> QED BY <3>2, <3>3
  <2>c. scope = raw
    BY <1>4, <1>5, <1>9, <2>a, <2>b DEF SchemaArg
  <2>d. \A k \in DOMAIN tables : Qualified(k) <=> Qualified(n)
    <3>1. SUFFICES ASSUME NEW k \in DOMAIN tables, ~(Qualified(k) <=> Qualified(n)) PROVE FALSE
      OBVIOUS
    <3>a. \A j : Qualified(j) \in BOOLEAN
      BY DEF Qualified
    <3>b. \E j \in DOMAIN tables : Qualified(j) = TRUE
      BY <1>4, <3>a, <3>1
    <3>c. \E j \in DOMAIN tables : Qualified(j) = FALSE
      BY <1>4, <3>a, <3>1
    <3>2. {Qualified(j) : j \in DOMAIN tables} = BOOLEAN
      BY <3>a, <3>b, <3>c, Zenon
    <3> QED BY <1>2, <1>9, <3>2
  <2>2. snapshot = Snapshot("SQL_SERVER", MS!GetSchemaInfo(b, scope))
    BY <1>3, <1>5, <1>9 DEF SchemaInfos
  <2>3. PICK selected : selected = MS!ValidateTableAndFields(SQLServerSchema(b, tables), n, tables[n])
    OBVIOUS
  <2>4. selected # {} /\ selected \subseteq Identifiers
    <3>1. /\ \A x \in b : TableOf("SQL_SERVER", x)
          /\ NoCatalog(names, b) /\ DOMAIN tables = {NormalizeTable("SQL_SERVER", u) : u \in names}
      BY <1>2, <1>3, <1>4, <1>9
    <3> QED BY ONLY <1>4, <1>5, <2>a, <2>b, <2>c, <2>d, <2>2, <2>3, <3>1, SQLServerPlanned
  <2>5. PICK filter : filter = MS!GetTableFilters(filters, n)
    OBVIOUS
  <2>6. \E k : filter = <<>> \/ (k \in DOMAIN FiltersForConfig /\ filter = FiltersForConfig[k])
    BY <1>2, <2>5 DEF MS!GetTableFilters
  <2>7. \A f \in DOMAIN filter : PG!ValidateFilterCondition(f, filter[f])
    BY <1>9, <2>6, SQLFilterValid
  <2>8. MS!RowsOf(b, n) \subseteq AllRows
    BY <1>3 DEF MS!RowsOf
  <2> QED BY <1>6, <2>1, <2>3, <2>4, <2>5, <2>7, <2>8, SQLServerFails
<1>10. CASE type = "ORACLE"
  <2>1. OR!Query(b, tables, filters, n) = Failed
    BY <1>2, <1>10 DEF Answer
  <2>a. IF GetUniqueSchemas(names) # {} THEN scope = GetUniqueSchemas(names) ELSE scope = {} \/ \E s : scope = {s}
    <3>1. SchemaScopeForTables("ORACLE", names) = GetUniqueSchemas(names)
      BY DEF SchemaScopeForTables, DefaultSchemaForType
    <3> QED BY <1>4, <1>5, <1>10, <3>1 DEF SchemaArg
  <2>2. snapshot = Snapshot("ORACLE", OR!GetSchemaInfo(b, scope))
    BY <1>3, <1>5, <1>10 DEF SchemaInfos
  <2>3. PICK selected : selected = OR!ValidateTableAndFields(OracleSchema(b, tables), n, tables[n])
    OBVIOUS
  <2>4. selected # {} /\ selected \subseteq Identifiers
    <3>1. /\ \A x \in b : TableOf("ORACLE", x)
          /\ NoCatalog(names, b) /\ DOMAIN tables = {NormalizeTable("ORACLE", u) : u \in names}
      BY <1>2, <1>3, <1>4, <1>10
    <3> QED BY ONLY <1>4, <1>5, <2>a, <2>2, <2>3, <3>1, OraclePlanned
  <2>5. PICK filter : filter = OR!GetTableFilters(filters, n)
    OBVIOUS
  <2>6. \E k : filter = <<>> \/ (k \in DOMAIN FiltersForConfig /\ filter = FiltersForConfig[k])
    BY <1>2, <2>5 DEF OR!GetTableFilters
  <2>7. \A f \in DOMAIN filter : PG!ValidateFilterCondition(f, filter[f])
    BY <1>10, <2>6, SQLFilterValid
  <2>8. OR!RowsOf(b, n) \subseteq AllRows
    BY <1>3 DEF OR!RowsOf
  <2> QED BY <1>6, <2>1, <2>3, <2>4, <2>5, <2>7, <2>8, OracleFails
<1>11. CASE type = "MONGODB"
  <2>1. Query(b, tables, filters, n) = Failed /\ b = Databases["MONGODB"]
    BY <1>2, <1>3, <1>11 DEF Answer
  <2>2. schema \in GetSchemaInfos(b)
    BY <1>3, <1>5, <1>11 DEF SchemaInfos
  <2>3. tables[n] \subseteq AllFields
    BY <1>4, <1>5, <1>11, <2>1, <2>2, MongoPlanned
  <2>4. PICK filter : filter = GetCollectionFilters(filters, n)
    OBVIOUS
  <2>5. PICK f \in DOMAIN filter : ~ValidateFilterCondition(filter[f])
    BY <2>1, <2>3, <2>4, MongoFails
  <2>6. \E k : filter = <<>> \/ (k \in DOMAIN FiltersForConfig /\ filter = FiltersForConfig[k])
    BY <1>2, <2>4 DEF GetCollectionFilters
  <2>7. PICK k \in DOMAIN job.filters : f \in DOMAIN job.filters[k] /\ filter[f] = job.filters[k][f]
    BY <2>6, FiltersOfJob
  <2>8. IsCondition(filter[f]) /\ WellFormed(f, filter[f])
    BY <2>7, JobConditions DEF Malformed
  <2> QED BY <2>5, <2>8, MongoValid
<1> QED BY <1>1, <1>7, <1>8, <1>9, <1>10, <1>11 DEF D!DBTypes

-----------------------------------------------------------------------------
(* The steps.                                                               *)

LEMMA NamesKept ==
    ASSUME TablesNamed, request' = request, browse' = browse
    PROVE  TablesNamed'
BY DEF TablesNamed

LEMMA JobKept ==
    ASSUME request' = request, conn' = conn, job' = job
    PROVE  /\ phase \in {"mapped", "planned"} /\ JobOfRequest => JobOfRequest'
           /\ phase = "planned" /\ PlanAccepted => PlanAccepted'
<1>1. type' = type
  BY DEF type
<1> QED BY <1>1 DEF JobOfRequest, PlanAccepted

(* Nothing is mapped, planned or failed. *)
LEMMA NotPlanned ==
    ASSUME TablesNamed', phase' \notin {"mapped", "planned", "failed"}
    PROVE  ExecInv'
BY DEF ExecInv, JobOfRequest, PlanAccepted, PlanIsExecutable

LEMMA ExecStays ==
    ASSUME ExecInv, request' = request, conn' = conn, job' = job, phase' = phase, outages' = outages,
           TablesNamed'
    PROVE  ExecInv'
<1>1. type' = type /\ db' = db /\ (IsCRM' <=> IsCRM)
  BY SamePath
<1>2. JobOfRequest' /\ PlanAccepted'
  BY <1>1 DEF ExecInv, JobOfRequest, PlanAccepted
<1>3. \A f, c : WellFormed(f, c)' <=> WellFormed(f, c)
  BY <1>1 DEF WellFormed
<1>4. PlanIsExecutable'
  BY <1>1, <1>3 DEF ExecInv, PlanIsExecutable
<1> QED BY <1>2, <1>4 DEF ExecInv

(* The job is mapped. *)
LEMMA ExecMaps == ASSUME ExecInv, MapJob PROVE ExecInv'
<1>1. phase' = "mapped" /\ request' = request /\ conn' = conn /\ browse' = browse
  BY DEF MapJob
<1>2. PICK filters :
        job' = [selection |-> MapMappedFields(request), filters |-> filters,
                scope |-> SchemaScopeForTables(type, DOMAIN request.tables)]
  BY DEF MapJob
<1>3. type' = type
  BY <1>1 DEF type
<1>4. /\ job'.selection = MapMappedFields(request)
      /\ job'.scope = SchemaScopeForTables(type, DOMAIN request.tables)
  BY <1>2
<1>5. DOMAIN job'.selection = {NormalizeTable(type, t) : t \in DOMAIN request.tables}
  BY <1>4 DEF MapMappedFields
<1>6. JobOfRequest'
  BY <1>1, <1>3, <1>4, <1>5 DEF JobOfRequest
<1>7. TablesNamed'
  BY <1>1, NamesKept DEF ExecInv
<1> QED BY <1>1, <1>6, <1>7 DEF ExecInv, PlanAccepted, PlanIsExecutable

(* The plan is accepted. *)
LEMMA ExecPlans == ASSUME ExecInv, PlanExtraction, phase' = "planned" PROVE ExecInv'
<1>1. phase = "mapped" /\ request' = request /\ conn' = conn /\ job' = job /\ browse' = browse
  BY DEF PlanExtraction
<1>2. PICK schema \in SchemaInfos(type, SchemaArg(job.scope, conn)) :
        MappingValid(Mapping, BuildSnapshot(type, schema, TRUE))
  BY DEF PlanExtraction
<1>3. PICK snapshot : snapshot = Snapshot(type, schema)
  OBVIOUS
<1>4. MappingValid(Mapping, snapshot)
  BY <1>2, <1>3, Zenon DEF Snapshot
<1>5. DOMAIN Mapping = DOMAIN job.selection /\ \A t \in DOMAIN job.selection : Mapping[t].fields = job.selection[t]
  BY DEF Mapping, SchemaValidationRequestFromExtraction
<1>6. InSnapshot(job.selection, snapshot)
  BY <1>4, <1>5 DEF InSnapshot, MappingValid
<1>7. type' = type
  BY <1>1 DEF type
<1>8. PlanAccepted'
  BY <1>1, <1>3, <1>6, <1>7 DEF PlanAccepted
<1>9. TablesNamed' /\ JobOfRequest'
  BY <1>1, JobKept, NamesKept DEF ExecInv
<1> QED BY <1>8, <1>9 DEF ExecInv, PlanIsExecutable

(* A query fails. *)
LEMMA ExecFails ==
    ASSUME PathInv, ExecInv, NEW t \in DOMAIN job.selection, QueryFails(t)
    PROVE  ExecInv'
<1>1. /\ phase = "planned" /\ Answer(t) = Failed /\ phase' = "failed"
      /\ request' = request /\ conn' = conn /\ job' = job /\ browse' = browse
  BY DEF QueryFails, Abandon
<1>2. \/ \E n \in DOMAIN job.selection : job.selection[n] = {}
      \/ Malformed
      \/ type = "SQL_SERVER" /\ {Qualified(n) : n \in DOMAIN job.selection} = BOOLEAN
      \/ type \in {"ORACLE", "SQL_SERVER"} /\ ~NoCatalog(DOMAIN request.tables, db)
  BY <1>1, PlanRuns DEF ExecInv
<1>3. type' = type /\ db' = db
  BY <1>1, SamePath
<1>4. \A f, c : WellFormed(f, c)' <=> WellFormed(f, c)
  BY <1>3 DEF WellFormed
<1>5. PlanIsExecutable'
  BY <1>1, <1>2, <1>3, <1>4 DEF PlanIsExecutable, Malformed, NoCatalog
<1>6. TablesNamed'
  BY <1>1, NamesKept DEF ExecInv
<1> QED BY <1>1, <1>5, <1>6 DEF ExecInv, JobOfRequest, PlanAccepted

(* What a client is shown are names. *)
LEMMA ShownNames ==
    ASSUME TablesNamed, NEW id, GetConnectionSchema(id)
    PROVE  TablesNamed'
<1> DEFINE multi == deployment.mode = "multi"
           c == D!ApplySchemaResolutionHeuristic(D!ResolveConnection(deployment, request.tenant, id), multi)
           dial == D!NewDataSourceFromConnection(c, multi)
<1>0. /\ dial # Failed /\ request' = request
      /\ \E schema \in SchemaInfos(c.type, SchemaArg({}, c)) :
           browse' = [browse EXCEPT !.tables = BuildSnapshot(c.type, schema, FoldsFieldCase(c.type))]
  BY Zenon DEF GetConnectionSchema
<1>1. PICK schema \in SchemaInfos(c.type, SchemaArg({}, c)) :
        browse' = [browse EXCEPT !.tables = BuildSnapshot(c.type, schema, FoldsFieldCase(c.type))]
  BY <1>0
<1>2. c.type \in D!DBTypes
  BY <1>0 DEF D!NewDataSourceFromConnection, D!DBTypes
<1> HIDE DEF multi, c, dial
<1>3. PICK tables : tables = BuildSnapshot(c.type, schema, FoldsFieldCase(c.type))
  OBVIOUS
<1>4. FoldsFieldCase(c.type) \in BOOLEAN /\ (c.type = "ORACLE" => FoldsFieldCase(c.type) = TRUE)
  BY DEF FoldsFieldCase
<1>5. \A n \in DOMAIN tables : IsName(n)
  BY <1>1, <1>2, <1>3, <1>4, DiscoveredNames
<1>6. browse' = [browse EXCEPT !.tables = tables] /\ "tables" \in DOMAIN browse
  BY <1>1, <1>3 DEF TablesNamed
<1>7. DOMAIN browse' = DOMAIN browse /\ browse'.tables = tables
  BY <1>6
<1> QED BY <1>0, <1>5, <1>7 DEF TablesNamed

LEMMA ExecInit == Init => ExecInv
<1> SUFFICES ASSUME Init PROVE ExecInv
  OBVIOUS
<1>1. request \in Requests /\ browse = [ids |-> {}, conn |-> NoConn, tables |-> <<>>]
  BY DEF Init, NothingShown
<1>2. \A t \in DOMAIN request.tables : IsName(t)
  BY <1>1, RequestsAssumption
<1>3. DOMAIN browse = {"ids", "conn", "tables"} /\ browse.tables = <<>>
  BY <1>1
<1>4. TablesNamed
  BY <1>2, <1>3, EmptyMap DEF TablesNamed
<1> QED BY <1>4 DEF Init, ExecInv, JobOfRequest, PlanAccepted, PlanIsExecutable

LEMMA ExecStep == DialInv /\ PathInv /\ ExecInv /\ [Next]_vars => ExecInv'
<1> SUFFICES ASSUME DialInv, PathInv, ExecInv, [Next]_vars PROVE ExecInv'
  OBVIOUS
<1>0. TablesNamed
  BY DEF ExecInv
<1>1. CASE ManagerResolves
  BY <1>0, <1>1, NamesKept, NotPlanned DEF ManagerResolves
<1>2. CASE ValidateSchema
  BY <1>0, <1>2, NamesKept, NotPlanned DEF ValidateSchema
<1>3. CASE WorkerResolves
  BY <1>0, <1>3, NamesKept, NotPlanned DEF WorkerResolves
<1>4. CASE MapJob
  BY <1>4, ExecMaps
<1>5. CASE PlanExtraction
  <2>1. phase' \in {"planned", "rejected"} /\ request' = request /\ browse' = browse
    BY <1>5 DEF PlanExtraction
  <2> QED BY <1>0, <1>5, <2>1, ExecPlans, NamesKept, NotPlanned
<1>6. CASE ExtractCRM
  <2>1. /\ phase' \in {"failed", "done"} /\ IsCRM
        /\ request' = request /\ browse' = browse /\ conn' = conn /\ job' = job
    BY <1>6 DEF ExtractCRM
  <2>2. TablesNamed' /\ IsCRM'
    BY <1>0, <2>1, NamesKept, SamePath
  <2> QED BY <2>1, <2>2 DEF ExecInv, JobOfRequest, PlanAccepted, PlanIsExecutable
<1>7. ASSUME NEW page \in 1..2, NEW only \in {"", "POSTGRESQL"}, List(page, only)
      PROVE  ExecInv'
  <2>1. phase = "browsing" /\ phase' = phase /\ request' = request
    BY <1>7 DEF List
  <2>2. PICK ids : browse' = [browse EXCEPT !.ids = ids]
    BY <1>7 DEF List
  <2>3. DOMAIN browse' = DOMAIN browse /\ browse'.tables = browse.tables
    BY <1>0, <2>2 DEF TablesNamed
  <2>4. TablesNamed'
    BY <1>0, <2>1, <2>3 DEF TablesNamed
  <2> QED BY <2>1, <2>4, NotPlanned
<1>8. ASSUME NEW id \in browse.ids, Show(id) \/ GetConnectionSchema(id)
      PROVE  ExecInv'
  <2>1. phase = "browsing" /\ phase' = phase /\ request' = request
    BY <1>8 DEF Show, GetConnectionSchema
  <2>2. ASSUME Show(id) PROVE TablesNamed'
    <3>1. PICK ids, c : browse' = [browse EXCEPT !.ids = ids, !.conn = c]
      BY <2>2 DEF Show
    <3>2. DOMAIN browse' = DOMAIN browse /\ browse'.tables = browse.tables
      BY <1>0, <3>1 DEF TablesNamed
    <3> QED BY <1>0, <2>1, <3>2 DEF TablesNamed
  <2> QED BY <1>0, <1>8, <2>1, <2>2, ShownNames, NotPlanned
<1>9. ASSUME NEW t \in DOMAIN browse.tables, NEW f \in browse.tables[t], Submit(t, f)
      PROVE  ExecInv'
  <2>1. phase' = "received" /\ browse' = browse
    BY <1>9 DEF Submit
  <2>2. PICK config, origin, tables :
          /\ request' = [request EXCEPT !.config = config, !.tables = tables, !.origin = origin]
          /\ tables = [u \in {t} |-> {f}]
    BY <1>9 DEF Submit
  <2>3. request'.tables = tables
    BY <2>2 DEF DialInv, FromRequests, RequestFields
  <2>4. TablesNamed'
    BY <1>0, <2>1, <2>2, <2>3 DEF TablesNamed
  <2> QED BY <2>1, <2>4, NotPlanned
<1>10. ASSUME NEW t \in DOMAIN job.selection, QueryTable(t) \/ QueryFails(t) \/ QueryCut(t)
       PROVE  ExecInv'
  <2>1. /\ phase = "planned" /\ request' = request /\ conn' = conn /\ job' = job /\ browse' = browse
        /\ phase' \in {"planned", "done", "failed"}
    BY <1>10 DEF QueryTable, QueryFails, QueryCut, Record, Abandon
  <2>2. TablesNamed' /\ JobOfRequest' /\ PlanAccepted'
    BY <1>0, <2>1, NamesKept, JobKept DEF ExecInv
  <2>3. ASSUME QueryTable(t) \/ QueryCut(t) PROVE PlanIsExecutable'
    BY <2>3 DEF QueryTable, QueryCut, Record, PlanIsExecutable
  <2> QED BY <1>10, <2>2, <2>3, ExecFails DEF ExecInv
<1>11. CASE UNCHANGED vars
  BY <1>0, <1>11, NamesKept, ExecStays DEF vars
<1> QED BY <1>1, <1>2, <1>3, <1>4, <1>5, <1>6, <1>7, <1>8, <1>9, <1>10, <1>11 DEF Next

(* What the planner accepted every driver can run, for every database and    *)
(* request: although planner and driver discover the schema under different *)
(* scopes and fold names in code of their own, no query of an accepted plan *)
(* fails for a table or field not found (ValidateTableAndFields), only for  *)
(* the reasons PlanIsExecutable names.                                      *)
THEOREM AcceptedPlansRun == Spec => []PlanIsExecutable
<1>1. ExecInv => PlanIsExecutable
  BY DEF ExecInv
<1> QED BY <1>1, DialInit, DialStep, PathInit, PathStep, ExecInit, ExecStep, PTL DEF Spec

-----------------------------------------------------------------------------
(* The Manager and the Worker agree.                                        *)

(* What is spelled in one way is counted alike. *)
LEMMA CountedAlike ==
    ASSUME NEW S, NEW T, IsFiniteSet(S), NEW F \in [S -> T], T = {F[x] : x \in S},
           \A x, y \in S : F[x] = F[y] => x = y
    PROVE  IsFiniteSet(T) /\ Cardinality(T) = Cardinality(S)
<1>1. F \in Bijection(S, T)
  BY DEF Bijection, Injection, Surjection, IsInjective
<1>2. ExistsBijection(S, T)
  BY <1>1 DEF ExistsBijection
<1> QED BY <1>2, FS_Bijection

(* Databases but MongoDB are discovered in one way, under names that are    *)
(* already normal.                                                          *)
LEMMA DiscoveredNormal ==
    ASSUME NEW t \in D!DBTypes, t \notin {"MONGODB", "ORACLE"}, NEW scope,
           NEW schema \in SchemaInfos(t, scope), NEW m \in DOMAIN schema
    PROVE  NormalizeTable(t, m) = m
<1>0. PICK b : b = Databases[t] /\ \A x \in b : TableOf(t, x)
  BY DatabasesAssumption
<1>1. CASE t = "POSTGRESQL"
  <2>1. PICK x \in b : m = QualifyTableName(x.schema, x.name, "public")
    BY <1>0, <1>1, PostgresNames
       DEF SchemaInfos, PG!GetSchemaInfo, PG!GetDatabaseSchema, PG!QueryTables, PG!DefaultSchema
  <2>2. x.schema \in Identifiers /\ x.name \in Identifiers /\ (EqualFold(x.schema, "public") => x.schema = "public")
    BY <1>0, <1>1 DEF TableOf
  <2>a. PICK s, w, d : s = x.schema /\ w = x.name /\ d = "public" /\ d \in Identifiers
    BY WordsAssumption
  <2>b. s \in Identifiers /\ w \in Identifiers /\ (EqualFold(s, d) => s = d) /\ m = QualifyTableName(s, w, d)
    BY <2>1, <2>2, <2>a
  <2>c. NormalizeTableNameForLookup(m, d) = m
    BY ONLY <2>a, <2>b, OwnName
  <2>3. NormalizeTableNameForLookup(m, "public") = m
    BY <2>a, <2>c
  <2> QED BY <1>1, <2>3 DEF NormalizeTable, DefaultSchemaForType, FoldsFieldCase
<1>2. CASE t = "SQL_SERVER"
  <2>1. PICK x \in b : m = QualifyTableName(x.schema, x.name, "dbo")
    BY <1>0, <1>2, SQLServerNames
       DEF SchemaInfos, MS!GetSchemaInfo, MS!GetDatabaseSchema, MS!QueryTables, MS!DefaultSchema
  <2>2. x.schema \in Identifiers /\ x.name \in Identifiers /\ (EqualFold(x.schema, "dbo") => x.schema = "dbo")
    BY <1>0, <1>2 DEF TableOf
  <2>a. PICK s, w, d : s = x.schema /\ w = x.name /\ d = "dbo" /\ d \in Identifiers
    BY WordsAssumption
  <2>b. s \in Identifiers /\ w \in Identifiers /\ (EqualFold(s, d) => s = d) /\ m = QualifyTableName(s, w, d)
    BY <2>1, <2>2, <2>a
  <2>c. NormalizeTableNameForLookup(m, d) = m
    BY ONLY <2>a, <2>b, OwnName
  <2>3. NormalizeTableNameForLookup(m, "dbo") = m
    BY <2>a, <2>c
  <2> QED BY <1>2, <2>3 DEF NormalizeTable, DefaultSchemaForType, FoldsFieldCase
<1>3. CASE t = "MYSQL"
  <2>1. PICK x \in b : m = <<x.name>>
    BY <1>0, <1>3 DEF SchemaInfos, MY!GetSchemaInfo, MY!GetDatabaseSchema, MY!QueryTables
  <2>2. Len(m) = 1 /\ m[1] = x.name
    BY <2>1
  <2>a. ParseQualifiedTableName(m, NoSchema) = <<NoSchema, x.name>>
    BY <2>2 DEF ParseQualifiedTableName
  <2>3. PICK q : q = ParseQualifiedTableName(m, NoSchema) /\ q[1] = NoSchema /\ q[2] = x.name
    BY <2>a
  <2>4. NormalizeTableNameForLookup(m, NoSchema) = m
    BY <2>1, <2>2, <2>3 DEF NormalizeTableNameForLookup
  <2> QED BY <1>3, <2>4 DEF NormalizeTable, DefaultSchemaForType, FoldsFieldCase
<1> QED BY <1>1, <1>2, <1>3 DEF D!DBTypes

(* So the Manager and the planner compare with one snapshot. *)
LEMMA OneSnapshot ==
    ASSUME NEW t \in D!DBTypes, t # "MONGODB", NEW scope, NEW schema \in SchemaInfos(t, scope)
    PROVE  BuildSnapshot(t, schema, FoldsFieldCase(t)) = Snapshot(t, schema)
<1>1. CASE t = "ORACLE"
  <2>1. FoldsFieldCase(t) = TRUE
    BY <1>1 DEF FoldsFieldCase
  <2> QED BY <2>1, Zenon DEF Snapshot
<1>2. CASE t # "ORACLE"
  <2>0. FoldsFieldCase(t) = FALSE
    BY <1>2 DEF FoldsFieldCase
  <2>1. \A m \in DOMAIN schema : NormalizeTable(t, m) = m
    BY <1>2, DiscoveredNormal
  <2>2. \A f : NormalizeField(t, f) = f
    BY <2>0 DEF NormalizeField
  <2>3. PICK kept : kept = {m \in DOMAIN schema : ~IsSystemTable(t, m)}
    OBVIOUS
  <2>4. Snapshot(t, schema) = [k \in {NormalizeTable(t, m) : m \in kept} |->
          UNION {{NormalizeField(t, f) : f \in schema[m]} : m \in {j \in kept : NormalizeTable(t, j) = k}}]
    BY <2>3 DEF Snapshot, BuildSnapshot
  <2>5. BuildSnapshot(t, schema, FALSE) = [k \in {m : m \in kept} |->
          UNION {schema[m] : m \in {j \in kept : j = k}}]
    BY <2>3 DEF BuildSnapshot
  <2>6. {NormalizeTable(t, m) : m \in kept} = kept /\ {m : m \in kept} = kept
    BY <2>1, <2>3
  <2>7. \A m \in kept : {NormalizeField(t, f) : f \in schema[m]} = schema[m]
    BY <2>2
  <2>8. \A k \in kept :
          UNION {{NormalizeField(t, f) : f \in schema[m]} : m \in {j \in kept : NormalizeTable(t, j) = k}}
            = UNION {schema[m] : m \in {j \in kept : j = k}}
    BY <2>1, <2>3, <2>7
  <2>9. BuildSnapshot(t, schema, FALSE) = Snapshot(t, schema)
    BY <2>4, <2>5, <2>6, <2>8
  <2> QED BY <2>0, <2>9, Zenon
<1> QED BY <1>1, <1>2

-----------------------------------------------------------------------------
(* One answer to one request.                                               *)

TheConn == CHOOSE c \in Resolved : c.config = request.config

DialOf(c, by) == D!NewDataSourceFromConnection(c, by = "manager" /\ deployment.mode = "multi")

TablesKnown(t, tables, snapshot) ==
    \A u \in DOMAIN tables :
        /\ NormalizeTable(t, u) \in DOMAIN snapshot
        /\ \A f \in tables[u] : Has(snapshot[NormalizeTable(t, u)], NormalizeField(t, f))

ScopeOf(c) == SchemaArg(SchemaScopeForTables(c.type, DOMAIN request.tables), c)

ManagerAccepts(c) ==
    /\ DialOf(c, "manager") # Failed /\ D!Connect(DialOf(c, "manager")) # Failed /\ Known
    /\ \E schema \in SchemaInfos(c.type, ScopeOf(c)) :
         TablesKnown(c.type, request.tables, Snapshot(c.type, schema))

(* Manager and Worker use the connection that the name stands for. *)
ConnChosen ==
    /\ phase \in {"browsing", "received", "validated"} => conn = NoConn
    /\ phase \in Connected => Found /\ conn = TheConn

(* The Manager's answer is about the request as it still is. *)
ManagerSaid ==
    /\ phase \in {"browsing", "received", "found"} => valid = FALSE
    /\ phase = "found" => SpecValid
    /\ phase \notin {"browsing", "received", "found"} /\ "validating" \notin outages =>
         /\ ~(SpecValid /\ Found) => ~valid
         /\ SpecValid /\ Found /\ TheConn.type # "MONGODB" /\ request.config # CrmConfig
              => (valid <=> ManagerAccepts(TheConn))

SelectionMapped ==
    phase = "mapped" => /\ job.selection = MapMappedFields(request)
                        /\ job.scope = SchemaScopeForTables(type, DOMAIN request.tables)

TablesFinite ==
    IsFiniteSet(DOMAIN request.tables) /\ \A t \in DOMAIN request.tables : IsFiniteSet(request.tables[t])

AgreeInv == ConnChosen /\ ManagerSaid /\ SelectionMapped /\ TablesFinite /\ ManagerAndWorkerAgree

LEMMA OneSchema ==
    ASSUME NEW t \in D!DBTypes, t # "MONGODB", NEW scope
    PROVE  \E schema : SchemaInfos(t, scope) = {schema}
BY DEF SchemaInfos, D!DBTypes

LEMMA DialedOf == ASSUME NEW by PROVE Dialed(by) = DialOf(conn, by)
BY Zenon DEF Dialed, DialOf

(* A host that is not forbidden is dialed by both. *)
LEMMA OpenHost ==
    ASSUME NEW c, c.host = "open"
    PROVE  DialOf(c, "manager") = DialOf(c, "worker")
<1>1. \A g \in BOOLEAN : D!ValidateHostForConnection(g, c)
  BY DEF D!ValidateHostForConnection
<1>2. \A g, h \in BOOLEAN : D!NewDataSourceFromConnection(c, g) = D!NewDataSourceFromConnection(c, h)
  BY <1>1 DEF D!NewDataSourceFromConnection
<1> QED BY <1>2, Zenon DEF DialOf

LEMMA SameTables ==
    ASSUME NEW tables, NEW snapshot
    PROVE  ValidateTablesAgainstSchema(tables, snapshot) <=> TablesKnown(type, tables, snapshot)
BY DEF ValidateTablesAgainstSchema, TablesKnown, HasField, Has

(* The mapped tables are those of the request. *)
LEMMA SelectionKnown ==
    ASSUME NEW snapshot, NEW sel, sel = MapMappedFields(request)
    PROVE  InSnapshot(sel, snapshot) <=> TablesKnown(type, request.tables, snapshot)
<1>1. /\ DOMAIN sel = {NormalizeTable(type, t) : t \in DOMAIN request.tables}
      /\ \A n \in DOMAIN sel : sel[n] =
           UNION {{NormalizeField(type, f) : f \in request.tables[t]} :
                    t \in {u \in DOMAIN request.tables : NormalizeTable(type, u) = n}}
  BY DEF MapMappedFields, NormalizeFieldsForType
<1>2. ASSUME InSnapshot(sel, snapshot), NEW u \in DOMAIN request.tables
      PROVE  /\ NormalizeTable(type, u) \in DOMAIN snapshot
             /\ \A f \in request.tables[u] : Has(snapshot[NormalizeTable(type, u)], NormalizeField(type, f))
  <2>1. PICK n \in DOMAIN sel : n = NormalizeTable(type, u)
    BY <1>1
  <2>2. \A f \in request.tables[u] : NormalizeField(type, f) \in sel[n]
    BY <1>1, <2>1
  <2> QED BY <1>2, <2>1, <2>2 DEF InSnapshot
<1>3. ASSUME TablesKnown(type, request.tables, snapshot), NEW n \in DOMAIN sel
      PROVE  n \in DOMAIN snapshot /\ \A f \in sel[n] : Has(snapshot[n], f)
  <2>1. n \in DOMAIN snapshot
    BY <1>1, <1>3 DEF TablesKnown
  <2>2. ASSUME NEW f \in sel[n] PROVE Has(snapshot[n], f)
    <3>1. PICK u \in DOMAIN request.tables : NormalizeTable(type, u) = n /\
            \E g \in request.tables[u] : f = NormalizeField(type, g)
      BY <1>1
    <3> QED BY <1>3, <3>1 DEF TablesKnown
  <2> QED BY <2>1, <2>2
<1> QED BY <1>2, <1>3 DEF InSnapshot, TablesKnown

-----------------------------------------------------------------------------
(* The planner's checks are the Manager's.                                  *)

SpelledOnce ==
    /\ \A t, u \in DOMAIN request.tables : NormalizeTable(type, t) = NormalizeTable(type, u) => t = u
    /\ \A t \in DOMAIN request.tables : \A f, g \in request.tables[t] :
         NormalizeField(type, f) = NormalizeField(type, g) => f = g

FiltersSelected ==
    \A n \in DOMAIN job.selection \cap DOMAIN job.filters : DOMAIN job.filters[n] \subseteq job.selection[n]

LEMMA MappingOf ==
    ASSUME NEW sel, sel = job.selection, FiltersSelected
    PROVE  /\ DOMAIN Mapping = DOMAIN sel
           /\ \A n \in DOMAIN sel : Mapping[n].fields = sel[n] /\ Mapping[n].filterFields \subseteq sel[n]
<1>1. PICK ff : ff = FilterFieldsByTable(job.filters)
  OBVIOUS
<1>2. DOMAIN ff = DOMAIN job.filters /\ \A n \in DOMAIN ff : ff[n] = DOMAIN job.filters[n]
  BY <1>1 DEF FilterFieldsByTable
<1>3. Mapping = [t \in DOMAIN sel |-> [fields |-> sel[t],
                                       filterFields |-> IF t \in DOMAIN ff THEN ff[t] ELSE {}]]
  BY <1>1 DEF Mapping, SchemaValidationRequestFromExtraction
<1>4. \A n \in DOMAIN sel : /\ Mapping[n].fields = sel[n]
                            /\ Mapping[n].filterFields = IF n \in DOMAIN ff THEN ff[n] ELSE {}
  BY <1>3
<1> QED BY <1>2, <1>3, <1>4 DEF FiltersSelected

LEMMA MappingInSnapshot ==
    ASSUME FiltersSelected, NEW snapshot
    PROVE  MappingValid(Mapping, snapshot) <=> InSnapshot(job.selection, snapshot)
<1>1. PICK sel : sel = job.selection
  OBVIOUS
<1>2. /\ DOMAIN Mapping = DOMAIN sel
      /\ \A n \in DOMAIN sel : Mapping[n].fields = sel[n] /\ Mapping[n].filterFields \subseteq sel[n]
  BY <1>1, MappingOf
<1>3. \A n \in DOMAIN sel : Mapping[n].fields \cup Mapping[n].filterFields = sel[n]
  BY <1>2
<1> QED BY <1>1, <1>2, <1>3 DEF MappingValid, InSnapshot

(* Normal names are counted as the names of the request. *)
LEMMA SelectionCounted ==
    ASSUME TablesFinite, SpelledOnce, NEW sel, sel = MapMappedFields(request)
    PROVE  /\ IsFiniteSet(DOMAIN sel) /\ Cardinality(DOMAIN sel) = Cardinality(DOMAIN request.tables)
           /\ \A t \in DOMAIN request.tables :
                /\ NormalizeTable(type, t) \in DOMAIN sel
                /\ IsFiniteSet(sel[NormalizeTable(type, t)])
                /\ Cardinality(sel[NormalizeTable(type, t)]) = Cardinality(request.tables[t])
           /\ \A n \in DOMAIN sel : \E t \in DOMAIN request.tables : n = NormalizeTable(type, t)
<1>1. /\ DOMAIN sel = {NormalizeTable(type, t) : t \in DOMAIN request.tables}
      /\ \A n \in DOMAIN sel : sel[n] =
           UNION {{NormalizeField(type, f) : f \in request.tables[t]} :
                    t \in {u \in DOMAIN request.tables : NormalizeTable(type, u) = n}}
  BY DEF MapMappedFields, NormalizeFieldsForType
<1>2. IsFiniteSet(DOMAIN sel) /\ Cardinality(DOMAIN sel) = Cardinality(DOMAIN request.tables)
  <2>1. PICK S, T, F : /\ S = DOMAIN request.tables /\ T = DOMAIN sel
                       /\ F = [t \in S |-> NormalizeTable(type, t)]
    OBVIOUS
  <2>2. F \in [S -> T] /\ T = {F[x] : x \in S}
    BY <1>1, <2>1
  <2>3. \A x, y \in S : F[x] = F[y] => x = y
    BY <2>1 DEF SpelledOnce
  <2>4. IsFiniteSet(S)
    BY <2>1 DEF TablesFinite
  <2>5. IsFiniteSet(T) /\ Cardinality(T) = Cardinality(S)
    BY ONLY <2>2, <2>3, <2>4, CountedAlike
  <2> QED BY <2>1, <2>5
<1>3. ASSUME NEW t \in DOMAIN request.tables
      PROVE  /\ NormalizeTable(type, t) \in DOMAIN sel
             /\ IsFiniteSet(sel[NormalizeTable(type, t)])
             /\ Cardinality(sel[NormalizeTable(type, t)]) = Cardinality(request.tables[t])
  <2>1. PICK n \in DOMAIN sel : n = NormalizeTable(type, t)
    BY <1>1
  <2>2. {u \in DOMAIN request.tables : NormalizeTable(type, u) = n} = {t}
    BY <2>1 DEF SpelledOnce
  <2>3. sel[n] = {NormalizeField(type, f) : f \in request.tables[t]}
    BY <1>1, <2>2
  <2>4. PICK S, T, F : /\ S = request.tables[t] /\ T = sel[n]
                       /\ F = [f \in S |-> NormalizeField(type, f)]
    OBVIOUS
  <2>5. F \in [S -> T] /\ T = {F[x] : x \in S}
    BY <2>3, <2>4
  <2>6. \A x, y \in S : F[x] = F[y] => x = y
    BY <2>4 DEF SpelledOnce
  <2>7. IsFiniteSet(S)
    BY <2>4 DEF TablesFinite
  <2>8. IsFiniteSet(T) /\ Cardinality(T) = Cardinality(S)
    BY ONLY <2>5, <2>6, <2>7, CountedAlike
  <2> QED BY <2>1, <2>4, <2>8
<1> QED BY <1>1, <1>2, <1>3

(* Where nothing is overridden the planner refuses what the Manager does. *)
LEMMA RefusedAlike ==
    ASSUME TablesFinite, SpelledOnce, FiltersSelected, job.selection = MapMappedFields(request),
           DOMAIN request.tables # {}, \A k \in DOMAIN Limits : request.overrides[k] = 0
    PROVE  ~Refused <=> SpecValid /\ Known
<1>1. PICK sel, tables, lim : sel = job.selection /\ tables = request.tables /\ lim = Effective(request.overrides)
  OBVIOUS
<1>2. /\ DOMAIN Limits = {"datasources", "tables", "fields"}
      /\ \A k \in DOMAIN Limits : Limits[k] \in Nat /\ Limits[k] # 0
  BY LimitsAssumption
<1>3. DOMAIN lim = DOMAIN Limits /\ \A k \in DOMAIN Limits : lim[k] = Limits[k]
  BY <1>1, <1>2 DEF Effective
<1>4. \A k \in DOMAIN Limits : \A n : Within(n, lim[k]) <=> n <= Limits[k]
  BY <1>2, <1>3 DEF Within
<1>5. \A k \in DOMAIN Limits : OverrideAllowed(request.overrides[k], Limits[k])
  BY DEF OverrideAllowed
<1>6. /\ IsFiniteSet(DOMAIN sel) /\ Cardinality(DOMAIN sel) = Cardinality(DOMAIN tables)
      /\ \A t \in DOMAIN tables : /\ NormalizeTable(type, t) \in DOMAIN sel
                                  /\ IsFiniteSet(sel[NormalizeTable(type, t)])
                                  /\ Cardinality(sel[NormalizeTable(type, t)]) = Cardinality(tables[t])
      /\ \A n \in DOMAIN sel : \E t \in DOMAIN tables : n = NormalizeTable(type, t)
  BY <1>1, SelectionCounted
<1>7. /\ DOMAIN Mapping = DOMAIN sel
      /\ \A n \in DOMAIN sel : Mapping[n].fields = sel[n] /\ Mapping[n].filterFields \subseteq sel[n]
  BY <1>1, MappingOf
<1>8. RequireNonEmptySelections(job.selection)
  BY <1>1, <1>6 DEF RequireNonEmptySelections
<1>9. RequireScopedConnections(lim) <=> Known /\ Cardinality(Names) <= Limits.datasources
  BY <1>2, <1>4 DEF RequireScopedConnections
<1>10. ~LimitFailures(Mapping, lim) <=>
         /\ Cardinality(DOMAIN tables) <= Limits.tables
         /\ \A t \in DOMAIN tables : Cardinality(tables[t]) <= Limits.fields
  <2>1. ~LimitFailures(Mapping, lim) <=>
          /\ Cardinality(DOMAIN sel) <= Limits.tables
          /\ \A n \in DOMAIN sel : /\ Cardinality(sel[n]) <= Limits.fields
                                   /\ Cardinality(Mapping[n].filterFields) <= Limits.fields
    BY <1>2, <1>4, <1>7 DEF LimitFailures
  <2>2. ASSUME NEW n \in DOMAIN sel, Cardinality(sel[n]) <= Limits.fields
        PROVE  Cardinality(Mapping[n].filterFields) <= Limits.fields
    <3>1. PICK S, T : S = sel[n] /\ T = Mapping[n].filterFields
      OBVIOUS
    <3>2. IsFiniteSet(S) /\ T \in SUBSET S
      BY <1>6, <1>7, <3>1
    <3>3. IsFiniteSet(T) /\ Cardinality(T) <= Cardinality(S)
      BY ONLY <3>2, FS_Subset
    <3>4. Cardinality(T) \in Nat /\ Cardinality(S) \in Nat
      BY ONLY <3>2, <3>3, FS_CardinalityType
    <3> QED BY <1>2, <2>2, <3>1, <3>3, <3>4
  <2>3. (\A n \in DOMAIN sel : Cardinality(sel[n]) <= Limits.fields)
          <=> \A t \in DOMAIN tables : Cardinality(tables[t]) <= Limits.fields
    BY <1>6
  <2> QED BY <1>6, <2>1, <2>2, <2>3
<1> QED BY <1>1, <1>5, <1>8, <1>9, <1>10 DEF Refused, SpecValid

-----------------------------------------------------------------------------
(* Validation, and planning after it.                                       *)

LEMMA SameAnswer ==
    ASSUME request' = request
    PROVE  /\ SpecValid' <=> SpecValid
           /\ Found' <=> Found
           /\ TheConn' = TheConn
           /\ TablesFinite' <=> TablesFinite
           /\ \A c : ManagerAccepts(c)' <=> ManagerAccepts(c)
<1>1. Resolved' = Resolved /\ Names' = Names /\ deployment' = deployment
  BY DEF Resolved, Names, deployment
<1>2. (Known' <=> Known) /\ (Found' <=> Found) /\ (SpecValid' <=> SpecValid) /\ TheConn' = TheConn
  BY <1>1 DEF Known, Found, SpecValid, TheConn
<1>3. \A c, by : DialOf(c, by)' = DialOf(c, by)
  BY <1>1, Zenon DEF DialOf
<1>4. \A c : ScopeOf(c)' = ScopeOf(c)
  BY DEF ScopeOf
<1>5. ASSUME NEW c PROVE ManagerAccepts(c)' <=> ManagerAccepts(c)
  BY <1>2, <1>3, <1>4 DEF ManagerAccepts
<1>6. TablesFinite' <=> TablesFinite
  BY DEF TablesFinite
<1> QED BY <1>2, <1>5, <1>6

LEMMA DialTyped ==
    ASSUME NEW c, NEW by, DialOf(c, by) # Failed
    PROVE  c.type \in D!DBTypes
BY DEF DialOf, D!NewDataSourceFromConnection, D!DBTypes

LEMMA ConnectedAs ==
    ASSUME NEW by
    PROVE  EnsureConnected(by) <=> DialOf(conn, by) # Failed /\ D!Connect(DialOf(conn, by)) # Failed
BY DialedOf, Zenon DEF EnsureConnected

(* What the Manager finds of a schema. *)
LEMMA ConfigKnown ==
    ASSUME NEW t, t = type, t \in D!DBTypes, t # "MONGODB", request.config # CrmConfig,
           NEW scope, NEW schema \in SchemaInfos(t, scope)
    PROVE  ValidateConfig(schema) <=> TablesKnown(t, request.tables, Snapshot(t, schema))
<1>1. PICK snapshot : snapshot = BuildSnapshot(t, schema, FoldsFieldCase(t))
  OBVIOUS
<1>2. snapshot = Snapshot(t, schema)
  BY <1>1, OneSnapshot
<1>3. ValidateConfig(schema) <=> ValidateTablesAgainstSchema(request.tables, snapshot)
  BY <1>1, Zenon DEF ValidateConfig
<1> QED BY <1>2, <1>3, SameTables

LEMMA ManagerValidates == ASSUME AgreeInv, ValidateSchema PROVE ManagerSaid'
<1>1. /\ phase = "found" /\ phase' = "validated" /\ request' = request
      /\ SpecValid /\ Found /\ conn = TheConn /\ valid = FALSE
  BY DEF ValidateSchema, AgreeInv, ConnChosen, ManagerSaid, Connected
<1>2. SUFFICES ASSUME "validating" \notin outages', TheConn.type # "MONGODB", request.config # CrmConfig
               PROVE  valid' <=> ManagerAccepts(conn)
  BY <1>1, SameAnswer DEF ManagerSaid
<1>3. \/ ~EnsureConnected("manager") /\ valid' = valid
      \/ EnsureConnected("manager") /\ \E schema \in SchemaInfos(type, ScopeOf(conn)) :
           valid' = (Known /\ ValidateConfig(schema))
  BY <1>2 DEF ValidateSchema, ScopeOf, type
<1>4. CASE ~EnsureConnected("manager") /\ valid' = valid
  BY <1>1, <1>4, ConnectedAs DEF ManagerAccepts
<1>5. ASSUME EnsureConnected("manager"), NEW schema \in SchemaInfos(type, ScopeOf(conn)),
             valid' = (Known /\ ValidateConfig(schema))
      PROVE  valid' <=> ManagerAccepts(conn)
  <2>1. DialOf(conn, "manager") # Failed /\ D!Connect(DialOf(conn, "manager")) # Failed
    BY <1>5, ConnectedAs
  <2>2. type \in D!DBTypes /\ type # "MONGODB" /\ conn.type = type
    BY <1>1, <1>2, <2>1, DialTyped DEF type
  <2>3. SchemaInfos(type, ScopeOf(conn)) = {schema}
    BY <1>5, <2>2, OneSchema
  <2>4. ValidateConfig(schema) <=> TablesKnown(type, request.tables, Snapshot(type, schema))
    BY <1>2, <1>5, <2>2, ConfigKnown
  <2> QED BY <1>5, <2>1, <2>2, <2>3, <2>4 DEF ManagerAccepts
<1> QED BY <1>3, <1>4, <1>5

(* What was resolved is a connection. *)
LEMMA MadeIsConn == ASSUME NEW n, NEW t, NEW c PROVE D!InMemory(n, t, c) # NoConn
<1>1. "id" \in DOMAIN D!InMemory(n, t, c)
  BY DEF D!InMemory
<1> QED BY <1>1, EmptyMap DEF NoConn

LEMMA ResolvedIsConn ==
    ASSUME NEW d, NEW tenant, NEW names, StoredApart(d.stored[tenant], tenant),
           d.mode = "single" => tenant = D!NoTenant,
           D!ResolveConnections(d, tenant, names) # Failed,
           NEW c \in D!ResolveConnections(d, tenant, names)
    PROVE  c # NoConn
<1>1. PICK internal : internal = {n \in names : D!IsInternal(n)}
  OBVIOUS
<1>2. ASSUME c \in D!FindByConfigNames(d, tenant, names \ internal) PROVE c # NoConn
  <2>1. PICK i \in DOMAIN d.stored[tenant] : c = d.stored[tenant][i]
    BY <1>2 DEF D!FindByConfigNames
  <2>2. "id" \in DOMAIN c
    BY <2>1 DEF StoredApart, ConnectionFields
  <2> QED BY <2>2, EmptyMap DEF NoConn
<1>3. CASE d.mode = "single"
  <2>1. PICK env : env = D!LoadInternalConnectionsFromEnv(d.env)
    OBVIOUS
  <2>2. /\ internal \subseteq DOMAIN env
        /\ c \in {env[n] : n \in internal} \cup D!FindByConfigNames(d, D!NoTenant, names \ internal)
    BY <1>1, <1>3, <2>1 DEF D!ResolveConnections, D!ResolveSingle
  <2>3. \A n \in DOMAIN env : \E t, e : env[n] = D!InMemory(n, t, e)
    BY <2>1 DEF D!LoadInternalConnectionsFromEnv
  <2> QED BY <1>2, <1>3, <2>2, <2>3, MadeIsConn
<1>4. CASE d.mode # "single"
  <2>1. c \in {D!ResolveInternalConnection(d, tenant, n) : n \in internal}
                \cup D!FindByConfigNames(d, tenant, names \ internal)
        /\ \A n \in internal : D!ResolveInternalConnection(d, tenant, n) # Failed
    BY <1>1, <1>4 DEF D!ResolveConnections, D!ResolveMulti
  <2>2. ASSUME NEW n \in internal PROVE \E t, e : D!ResolveInternalConnection(d, tenant, n) = D!InMemory(n, t, e)
    BY <2>1 DEF D!ResolveInternalConnection
  <2> QED BY <1>2, <2>1, <2>2, MadeIsConn
<1> QED BY <1>3, <1>4

LEMMA ConnIsThere ==
    ASSUME DialInv, phase \in Connected
    PROVE  conn # NoConn
<1>1. PICK r \in Requests : request.deployment = r.deployment /\ request.tenant = r.tenant
  BY DEF DialInv, FromRequests
<1>2. /\ StoredApart(deployment.stored[request.tenant], request.tenant)
      /\ deployment.mode = "single" => request.tenant = D!NoTenant
  BY <1>1, ServedWell DEF deployment, AsOwned
<1> QED BY <1>2, ResolvedIsConn DEF DialInv, ConnResolved, Resolved

LEMMA PlannerAgrees == ASSUME DialInv, AgreeInv, PlanExtraction PROVE ManagerAndWorkerAgree'
<1>1. /\ phase = "mapped" /\ phase' \in {"planned", "rejected"}
      /\ request' = request /\ conn' = conn /\ job' = job /\ valid' = valid
  BY DEF PlanExtraction
<1>2. /\ Found /\ conn = TheConn /\ job.selection = MapMappedFields(request) /\ TablesFinite
      /\ job.scope = SchemaScopeForTables(type, DOMAIN request.tables) /\ ManagerSaid
  BY <1>1 DEF AgreeInv, ConnChosen, SelectionMapped, Connected
<1>3. type' = type /\ conn # NoConn
  BY <1>1, ConnIsThere DEF type, Connected
<1>4. SUFFICES ASSUME outages' \subseteq {"querying"}, DOMAIN request.tables # {},
                      \A k \in DOMAIN Limits : request.overrides[k] = 0,
                      type # "MONGODB", conn.host = "open", request.config # CrmConfig,
                      SpelledOnce, FiltersSelected
               PROVE  valid <=> phase' # "rejected"
  BY <1>1, <1>3 DEF ManagerAndWorkerAgree, SpelledOnce, FiltersSelected
<1>5. ~Refused <=> SpecValid /\ Known
  BY <1>2, <1>4, RefusedAlike
<1>6. valid <=> SpecValid /\ ManagerAccepts(conn)
  <2>1. outages' = outages \/ outages' = outages \cup {"planning"}
    BY DEF PlanExtraction
  <2>2. "validating" \notin outages
    BY <1>4, <2>1
  <2> QED BY <1>1, <1>2, <1>4, <2>2 DEF ManagerSaid, type
<1>7. EnsureConnected("worker") <=>
        DialOf(conn, "manager") # Failed /\ D!Connect(DialOf(conn, "manager")) # Failed
  BY <1>4, OpenHost, ConnectedAs
<1>8. \/ Refused /\ phase' = "rejected"
      \/ ~Refused /\ ~EnsureConnected("worker") /\ phase' = "rejected"
      \/ /\ ~Refused /\ EnsureConnected("worker")
         /\ \E schema \in SchemaInfos(type, SchemaArg(job.scope, conn)) :
              phase' = IF MappingValid(Mapping, Snapshot(type, schema)) THEN "planned" ELSE "rejected"
  <2>1. "planning" \notin outages'
    BY <1>4
  <2> QED BY <2>1, Zenon DEF PlanExtraction, Snapshot
<1>9. CASE Refused /\ phase' = "rejected"
  BY <1>5, <1>6, <1>9 DEF ManagerAccepts
<1>10. CASE ~Refused /\ ~EnsureConnected("worker") /\ phase' = "rejected"
  BY <1>6, <1>7, <1>10 DEF ManagerAccepts
<1>11. ASSUME ~Refused, EnsureConnected("worker"), NEW schema \in SchemaInfos(type, SchemaArg(job.scope, conn)),
              phase' = IF MappingValid(Mapping, Snapshot(type, schema)) THEN "planned" ELSE "rejected"
       PROVE  valid <=> phase' # "rejected"
  <2>1. type \in D!DBTypes /\ conn.type = type
    BY <1>7, <1>11, DialTyped DEF type
  <2>2. ScopeOf(conn) = SchemaArg(job.scope, conn)
    BY <1>2, <2>1 DEF ScopeOf
  <2>3. SchemaInfos(type, ScopeOf(conn)) = {schema}
    BY <1>4, <1>11, <2>1, <2>2, OneSchema
  <2>4. ManagerAccepts(conn) <=> TablesKnown(type, request.tables, Snapshot(type, schema))
    BY <1>5, <1>7, <1>11, <2>1, <2>3 DEF ManagerAccepts
  <2>5. MappingValid(Mapping, Snapshot(type, schema)) <=> TablesKnown(type, request.tables, Snapshot(type, schema))
    BY <1>2, <1>4, MappingInSnapshot, SelectionKnown
  <2> QED BY <1>5, <1>6, <1>11, <2>4, <2>5
<1> QED BY <1>8, <1>9, <1>10, <1>11

-----------------------------------------------------------------------------
(* The steps of the agreement.                                              *)

LEMMA SaidKept ==
    ASSUME ManagerSaid, request' = request, valid' = valid, outages \subseteq outages',
           phase \notin {"browsing", "received", "found"}, phase' \notin {"browsing", "received", "found"}
    PROVE  ManagerSaid'
BY SameAnswer DEF ManagerSaid

LEMMA ResolveChooses == ASSUME Resolve PROVE conn' = TheConn
BY DEF Resolve, TheConn

LEMMA AgreeStays ==
    ASSUME AgreeInv, request' = request, phase' = phase, valid' = valid, conn' = conn, job' = job,
           outages \subseteq outages'
    PROVE  AgreeInv'
<1>1. ConnChosen' /\ ManagerSaid' /\ TablesFinite'
  BY SameAnswer DEF AgreeInv, ConnChosen, ManagerSaid
<1>2. type' = type
  BY DEF type
<1>3. SelectionMapped'
  <2>1. MapMappedFields(request)' = MapMappedFields(request)
    BY <1>2 DEF MapMappedFields, NormalizeFieldsForType
  <2> QED BY <1>2, <2>1 DEF AgreeInv, SelectionMapped
<1>4. ManagerAndWorkerAgree'
  BY <1>2 DEF AgreeInv, ManagerAndWorkerAgree
<1> QED BY <1>1, <1>3, <1>4 DEF AgreeInv

LEMMA AgreeInit == Init => AgreeInv
<1> SUFFICES ASSUME Init PROVE AgreeInv
  OBVIOUS
<1>1. request \in Requests /\ phase \in {"browsing", "received"} /\ valid = FALSE /\ conn = NoConn
  BY DEF Init
<1>2. TablesFinite
  BY <1>1, RequestsAssumption DEF TablesFinite
<1> QED BY <1>1, <1>2 DEF AgreeInv, ConnChosen, Connected, ManagerSaid, SelectionMapped, ManagerAndWorkerAgree

LEMMA AgreeStep == DialInv /\ AgreeInv /\ [Next]_vars => AgreeInv'
<1> SUFFICES ASSUME DialInv, AgreeInv, [Next]_vars PROVE AgreeInv'
  OBVIOUS
<1>0. ConnChosen /\ ManagerSaid /\ SelectionMapped /\ TablesFinite /\ ManagerAndWorkerAgree
  BY DEF AgreeInv
<1>1. CASE ManagerResolves
  <2>1. /\ phase = "received" /\ request' = request /\ valid' = valid /\ valid = FALSE /\ conn = NoConn
        /\ \/ ~(SpecValid /\ Found) /\ phase' = "validated" /\ conn' = conn
           \/ SpecValid /\ Found /\ phase' = "found" /\ conn' = TheConn
           \/ phase' = "validated" /\ conn' = conn /\ "validating" \in outages'
    BY <1>0, <1>1, ResolveChooses DEF ManagerResolves, ManagerSaid, ConnChosen
  <2>2. ConnChosen' /\ ManagerSaid' /\ TablesFinite'
    BY <1>0, <2>1, SameAnswer DEF ConnChosen, ManagerSaid, Connected
  <2> QED BY <2>1, <2>2 DEF AgreeInv, SelectionMapped, ManagerAndWorkerAgree
<1>2. CASE ValidateSchema
  <2>1. phase' = "validated" /\ request' = request /\ conn' = NoConn
    BY <1>2 DEF ValidateSchema
  <2>2. ManagerSaid' /\ ConnChosen' /\ TablesFinite'
    BY <1>0, <1>2, <2>1, ManagerValidates, SameAnswer DEF ConnChosen, Connected
  <2> QED BY <2>1, <2>2 DEF AgreeInv, SelectionMapped, ManagerAndWorkerAgree
<1>3. CASE WorkerResolves
  <2>1. /\ phase = "validated" /\ request' = request /\ valid' = valid /\ outages \subseteq outages'
        /\ conn = NoConn
        /\ \/ Found /\ phase' = "claimed" /\ conn' = TheConn
           \/ ~Found /\ phase' = "rejected" /\ conn' = conn
           \/ phase' = "rejected" /\ conn' = conn /\ "resolving" \in outages'
    BY <1>0, <1>3, ResolveChooses DEF WorkerResolves, ConnChosen
  <2>2. ManagerSaid' /\ ConnChosen' /\ TablesFinite'
    BY <1>0, <2>1, SaidKept, SameAnswer DEF ConnChosen, Connected
  <2>3. ASSUME ~Found, phase' = "rejected", outages' \subseteq {"querying"}
        PROVE  ~valid'
    BY <1>0, <2>1, <2>3 DEF ManagerSaid
  <2>4. ManagerAndWorkerAgree'
    BY <2>1, <2>3 DEF ManagerAndWorkerAgree
  <2> QED BY <2>1, <2>2, <2>4 DEF AgreeInv, SelectionMapped
<1>4. CASE MapJob
  <2>1. /\ phase = "claimed" /\ phase' = "mapped" /\ request' = request /\ conn' = conn /\ valid' = valid
        /\ outages' = outages
    BY <1>4 DEF MapJob
  <2>2. PICK filters :
        job' = [selection |-> MapMappedFields(request), filters |-> filters,
                scope |-> SchemaScopeForTables(type, DOMAIN request.tables)]
    BY <1>4 DEF MapJob
  <2>3. type' = type
    BY <2>1 DEF type
  <2>4. MapMappedFields(request)' = MapMappedFields(request)
    BY <2>1, <2>3 DEF MapMappedFields, NormalizeFieldsForType
  <2>5. SelectionMapped'
    BY <2>1, <2>2, <2>3, <2>4 DEF SelectionMapped
  <2>6. ManagerSaid' /\ ConnChosen' /\ TablesFinite'
    BY <1>0, <2>1, SaidKept, SameAnswer DEF ConnChosen, Connected
  <2> QED BY <2>1, <2>5, <2>6 DEF AgreeInv, ManagerAndWorkerAgree
<1>5. CASE PlanExtraction
  <2>1. /\ phase = "mapped" /\ phase' \in {"planned", "rejected"} /\ request' = request /\ conn' = conn
        /\ valid' = valid /\ outages \subseteq outages'
    BY <1>5 DEF PlanExtraction
  <2>2. ManagerSaid' /\ ConnChosen' /\ TablesFinite'
    BY <1>0, <2>1, SaidKept, SameAnswer DEF ConnChosen, Connected
  <2>3. ManagerAndWorkerAgree'
    BY <1>5, PlannerAgrees
  <2> QED BY <2>1, <2>2, <2>3 DEF AgreeInv, SelectionMapped
<1>6. CASE ExtractCRM
  <2>1. /\ phase = "claimed" /\ phase' \in {"failed", "done"} /\ request' = request /\ conn' = conn
        /\ valid' = valid /\ outages \subseteq outages' /\ IsCRM
    BY <1>6 DEF ExtractCRM
  <2>2. ManagerSaid' /\ ConnChosen' /\ TablesFinite'
    BY <1>0, <2>1, SaidKept, SameAnswer DEF ConnChosen, Connected
  <2>3. conn' # NoConn /\ type' = "MONGODB"
    BY <2>1 DEF IsCRM, type
  <2>4. ManagerAndWorkerAgree'
    BY <2>3 DEF ManagerAndWorkerAgree
  <2> QED BY <2>1, <2>2, <2>4 DEF AgreeInv, SelectionMapped
<1>7. ASSUME NEW page \in 1..2, NEW only \in {"", "POSTGRESQL"}, List(page, only)
      PROVE  AgreeInv'
  <2>1. /\ request' = request /\ phase' = phase /\ valid' = valid /\ conn' = conn /\ job' = job
        /\ outages \subseteq outages'
    BY <1>7 DEF List
  <2> QED BY <2>1, AgreeStays
<1>8. ASSUME NEW id \in browse.ids, Show(id) \/ GetConnectionSchema(id)
      PROVE  AgreeInv'
  <2>1. /\ request' = request /\ phase' = phase /\ valid' = valid /\ conn' = conn /\ job' = job
        /\ outages \subseteq outages'
    BY <1>8 DEF Show, GetConnectionSchema
  <2> QED BY <2>1, AgreeStays
<1>9. ASSUME NEW t \in DOMAIN browse.tables, NEW f \in browse.tables[t], Submit(t, f)
      PROVE  AgreeInv'
  <2>1. phase = "browsing" /\ phase' = "received" /\ valid' = valid /\ conn' = conn
    BY <1>9 DEF Submit
  <2>2. PICK config, origin, tables :
          /\ request' = [request EXCEPT !.config = config, !.tables = tables, !.origin = origin]
          /\ tables = [u \in {t} |-> {f}]
    BY <1>9 DEF Submit
  <2>3. request'.tables = tables
    BY <2>2 DEF DialInv, FromRequests, RequestFields
  <2>4. IsFiniteSet({t}) /\ IsFiniteSet({f})
    BY FS_Singleton
  <2>5. DOMAIN tables = {t} /\ tables[t] = {f}
    BY <2>2
  <2>6. TablesFinite'
    BY <2>3, <2>4, <2>5 DEF TablesFinite
  <2>7. ConnChosen' /\ ManagerSaid'
    BY <1>0, <2>1 DEF ConnChosen, ManagerSaid, Connected
  <2> QED BY <2>1, <2>6, <2>7 DEF AgreeInv, SelectionMapped, ManagerAndWorkerAgree
<1>10. ASSUME NEW t \in DOMAIN job.selection, QueryTable(t) \/ QueryFails(t) \/ QueryCut(t)
       PROVE  AgreeInv'
  <2>1. /\ phase = "planned" /\ request' = request /\ conn' = conn /\ job' = job /\ valid' = valid
        /\ phase' \in {"planned", "done", "failed"} /\ outages \subseteq outages'
    BY <1>10 DEF QueryTable, QueryFails, QueryCut, Record, Abandon
  <2>2. ManagerSaid' /\ ConnChosen' /\ TablesFinite'
    BY <1>0, <2>1, SaidKept, SameAnswer DEF ConnChosen, Connected
  <2>3. type' = type
    BY <2>1 DEF type
  <2>4. ManagerAndWorkerAgree'
    BY <1>0, <2>1, <2>3 DEF ManagerAndWorkerAgree
  <2> QED BY <2>1, <2>2, <2>4 DEF AgreeInv, SelectionMapped
<1>11. CASE UNCHANGED vars
  BY <1>11, AgreeStays DEF vars
<1> QED BY <1>1, <1>2, <1>3, <1>4, <1>5, <1>6, <1>7, <1>8, <1>9, <1>10, <1>11 DEF Next

(* A job the Manager's validation accepts is one the Worker's planner        *)
(* accepts, and the other way round, for every deployment, database and     *)
(* request that ManagerAndWorkerAgree speaks of: the two resolve, count,     *)
(* scope and compare in code of their own (validateConfigs, PlanExtraction). *)
THEOREM ValidationPredictsThePlan == Spec => []ManagerAndWorkerAgree
<1>1. AgreeInv => ManagerAndWorkerAgree
  BY DEF AgreeInv
<1> QED BY <1>1, DialInit, DialStep, AgreeInit, AgreeStep, PTL DEF Spec

-----------------------------------------------------------------------------
(* What is listed can be extracted.                                         *)

(* What one discovery shows another finds. *)
LEMMA ShownAgain ==
    ASSUME NEW t, NEW schemaA, NEW schemaB, NEW A, NEW B, A = Snapshot(t, schemaA), B = Snapshot(t, schemaB),
           NEW n \in DOMAIN A, NEW f \in A[n],
           \A m \in DOMAIN schemaA : NormalizeTable(t, m) = n =>
             m \in DOMAIN schemaB /\ schemaA[m] \subseteq schemaB[m]
    PROVE  n \in DOMAIN B /\ f \in B[n]
<1>1. PICK keptA, keptB : /\ keptA = {m \in DOMAIN schemaA : ~IsSystemTable(t, m)}
                          /\ keptB = {m \in DOMAIN schemaB : ~IsSystemTable(t, m)}
  OBVIOUS
<1>2. A = [k \in {NormalizeTable(t, m) : m \in keptA} |->
             UNION {{NormalizeField(t, g) : g \in schemaA[m]} : m \in {j \in keptA : NormalizeTable(t, j) = k}}]
  BY <1>1 DEF Snapshot, BuildSnapshot
<1>3. B = [k \in {NormalizeTable(t, m) : m \in keptB} |->
             UNION {{NormalizeField(t, g) : g \in schemaB[m]} : m \in {j \in keptB : NormalizeTable(t, j) = k}}]
  BY <1>1 DEF Snapshot, BuildSnapshot
<1>4. PICK m \in keptA : NormalizeTable(t, m) = n /\ \E g \in schemaA[m] : f = NormalizeField(t, g)
  BY <1>2
<1>5. m \in keptB /\ NormalizeTable(t, m) = n /\ \E g \in schemaB[m] : f = NormalizeField(t, g)
  BY <1>1, <1>4
<1>6. n \in DOMAIN B
  BY <1>3, <1>5
<1>7. B[n] = UNION {{NormalizeField(t, g) : g \in schemaB[k]} : k \in {j \in keptB : NormalizeTable(t, j) = n}}
  BY <1>3, <1>6
<1> QED BY <1>5, <1>6, <1>7

LEMMA PostgresAgain ==
    ASSUME NEW b, \A x \in b : TableOf("POSTGRESQL", x), NEW scope, NEW schema, schema = PG!GetSchemaInfo(b, scope),
           NEW m \in DOMAIN schema, NEW other, other = SchemaScopeForTables("POSTGRESQL", {m}),
           NEW again, again = PG!GetSchemaInfo(b, other)
    PROVE  other # {} /\ m \in DOMAIN again /\ schema[m] = again[m]
<1>1. PICK x \in b : m = QualifyTableName(x.schema, x.name, "public")
  BY PostgresNames DEF PG!GetSchemaInfo, PG!GetDatabaseSchema, PG!QueryTables, PG!DefaultSchema
<1>2. x.schema \in Identifiers /\ x.name \in Identifiers
  BY DEF TableOf
<1>3. m = (IF x.schema = "public" THEN <<x.name>> ELSE <<x.schema, x.name>>)
  BY <1>1, <1>2, QualifiedName
<1>4. x.schema \in other
  <2>1. DefaultSchemaForType("POSTGRESQL") = "public" /\ "public" # NoSchema
    BY DEF DefaultSchemaForType, NoSchema
  <2>2. CASE x.schema = "public"
    <3>1. Len(m) = 1
      BY <1>3, <2>2
    <3>2. ~Qualified(m)
      BY <3>1 DEF Qualified
    <3> QED BY <2>1, <2>2, <3>2 DEF SchemaScopeForTables
  <2>3. CASE x.schema # "public"
    <3>1. Len(m) = 2 /\ Head(m) = x.schema
      BY <1>3, <2>3
    <3>2. Qualified(m)
      BY <3>1 DEF Qualified
    <3>3. Head(m) \in GetUniqueSchemas({m})
      BY <3>2 DEF GetUniqueSchemas
    <3> QED BY <3>1, <3>3 DEF SchemaScopeForTables
  <2> QED BY <2>2, <2>3
<1>5. m \in DOMAIN again
  BY <1>1, <1>4, PostgresNames DEF PG!GetSchemaInfo, PG!GetDatabaseSchema, PG!QueryTables, PG!DefaultSchema
<1> QED BY <1>4, <1>5 DEF PG!GetSchemaInfo, PG!GetDatabaseSchema

LEMMA SQLServerAgain ==
    ASSUME NEW b, \A x \in b : TableOf("SQL_SERVER", x), NEW scope, scope = {} \/ \E s : scope = {s},
           NEW schema, schema = MS!GetSchemaInfo(b, scope),
           NEW m \in DOMAIN schema, NEW other, other = SchemaScopeForTables("SQL_SERVER", {m}),
           NEW again, again = MS!GetSchemaInfo(b, other)
    PROVE  other # {} /\ m \in DOMAIN again /\ schema[m] \subseteq again[m]
<1>0. PICK wanted : wanted = IF scope = {} THEN {"dbo"} ELSE scope
  OBVIOUS
<1>1. PICK x \in b : m = QualifyTableName(x.schema, x.name, "dbo") /\ x.schema \in wanted
  BY <1>0, SQLServerNames DEF MS!GetSchemaInfo, MS!GetDatabaseSchema, MS!QueryTables, MS!DefaultSchema
<1>2. x.schema \in Identifiers /\ x.name \in Identifiers
  BY DEF TableOf
<1>3. m = (IF x.schema = "dbo" THEN <<x.name>> ELSE <<x.schema, x.name>>)
  BY <1>1, <1>2, QualifiedName
<1>4. x.schema \in other /\ (Qualified(m) <=> x.schema # "dbo") /\ wanted = {x.schema}
  <2>1. DefaultSchemaForType("SQL_SERVER") = "dbo" /\ "dbo" # NoSchema
    BY DEF DefaultSchemaForType, NoSchema
  <2>2. CASE x.schema = "dbo"
    <3>1. Len(m) = 1
      BY <1>3, <2>2
    <3>2. ~Qualified(m)
      BY <3>1 DEF Qualified
    <3> QED BY <1>0, <1>1, <2>1, <2>2, <3>2 DEF SchemaScopeForTables
  <2>3. CASE x.schema # "dbo"
    <3>1. Len(m) = 2 /\ Head(m) = x.schema
      BY <1>3, <2>3
    <3>2. Qualified(m)
      BY <3>1 DEF Qualified
    <3>3. Head(m) \in GetUniqueSchemas({m})
      BY <3>2 DEF GetUniqueSchemas
    <3> QED BY <1>0, <1>1, <2>3, <3>1, <3>2, <3>3 DEF SchemaScopeForTables
  <2> QED BY <2>2, <2>3
<1>5. m \in DOMAIN again
  BY <1>1, <1>4, SQLServerNames DEF MS!GetSchemaInfo, MS!GetDatabaseSchema, MS!QueryTables, MS!DefaultSchema
<1>6. schema[m] = MS!BuildTableSchema(b, m, scope) /\ again[m] = MS!BuildTableSchema(b, m, other)
  BY <1>5 DEF MS!GetSchemaInfo, MS!GetDatabaseSchema
<1>7. MS!BuildTableSchema(b, m, scope) \subseteq MS!BuildTableSchema(b, m, other)
  <2>1. PICK A, B : /\ A = IF Qualified(m) THEN {m[1]} ELSE wanted
                    /\ B = IF Qualified(m) THEN {m[1]} ELSE other
    OBVIOUS
  <2>2. MS!BuildTableSchema(b, m, scope) = UNION {t.columns : t \in {y \in b : y.schema \in A /\ y.name = m[Len(m)]}}
    BY <1>0, <2>1, SQLServerNames DEF MS!BuildTableSchema, MS!DefaultSchema
  <2>3. MS!BuildTableSchema(b, m, other) = UNION {t.columns : t \in {y \in b : y.schema \in B /\ y.name = m[Len(m)]}}
    BY <1>4, <2>1, SQLServerNames DEF MS!BuildTableSchema, MS!DefaultSchema
  <2>4. A \subseteq B
    BY <1>4, <2>1
  <2> QED BY <2>2, <2>3, <2>4
<1> QED BY <1>4, <1>5, <1>6, <1>7

LEMMA OracleAgain ==
    ASSUME NEW b, \A x \in b : TableOf("ORACLE", x), NEW scope, NEW schema, schema = OR!GetSchemaInfo(b, scope),
           NEW m \in DOMAIN schema, NEW n, n = NormalizeTable("ORACLE", m),
           NEW other, other = IF Qualified(n) THEN {Head(n)} ELSE scope,
           NEW again, again = OR!GetSchemaInfo(b, other)
    PROVE  m \in DOMAIN again /\ schema[m] \subseteq again[m]
<1>1. CASE ~Qualified(n)
  BY <1>1
<1>2. CASE Qualified(n)
  <2>1. PICK found, refound : found = OR!GetDatabaseSchema(b, scope) /\ refound = OR!GetDatabaseSchema(b, other)
    OBVIOUS
  <2>2. PICK k \in DOMAIN found : m = LowerName(k)
    BY <2>1, OracleSchemaNames
  <2>3. n = k /\ \A g : g \in schema[m] <=> \E col \in found[k] : g = Lower[col]
    BY <2>1, <2>2, OracleSchemaIs
  <2>4. PICK y \in b : k = QualifyTableName(y.schema, y.name, CurrentSchema)
    BY <2>1, <2>2, OracleNames DEF OR!GetDatabaseSchema, OR!QueryTables
  <2>5. y.schema \in Identifiers /\ y.name \in Identifiers /\ Upper[y.schema] = y.schema
    BY OracleTable
  <2>6. k = IF y.schema = CurrentSchema THEN <<y.name>> ELSE <<y.schema, y.name>>
    BY <2>4, <2>5, QualifiedName
  <2>7. Head(k) = y.schema
    BY <1>2, <2>3, <2>6 DEF Qualified
  <2>8. other = {y.schema}
    BY <1>2, <2>3, <2>7
  <2>9. OR!OwnerScope(other) = {y.schema}
    BY <2>5, <2>8 DEF OR!OwnerScope
  <2>10. k \in DOMAIN refound
    BY <2>1, <2>4, <2>8, <2>9, OracleNames DEF OR!GetDatabaseSchema, OR!QueryTables
  <2>11. found[k] = OR!BuildTableSchema(b, k, scope) /\ refound[k] = OR!BuildTableSchema(b, k, other)
    BY <2>1, <2>2, <2>10 DEF OR!GetDatabaseSchema
  <2>12. OR!BuildTableSchema(b, k, scope) = OR!BuildTableSchema(b, k, other)
    BY <1>2, <2>3, OracleNames DEF OR!BuildTableSchema
  <2>a. (\A x \in b : TableOf("ORACLE", x)) /\ again = OR!GetSchemaInfo(b, other)
    OBVIOUS
  <2>b. refound = OR!GetDatabaseSchema(b, other)
    BY <2>1
  <2>13. /\ NormalizeTable("ORACLE", m) = k
         /\ \A col \in refound[k] : col \in Identifiers /\ Upper[col] = col
         /\ m \in DOMAIN again /\ \A g : g \in again[m] <=> \E col \in refound[k] : g = Lower[col]
    BY ONLY <2>a, <2>b, <2>2, <2>10, OracleSchemaIs
  <2> QED BY <2>3, <2>11, <2>12, <2>13
<1> QED BY <1>1, <1>2

LEMMA QualifiedIsShort ==
    ASSUME NEW s, NEW w, NEW d
    PROVE  Len(QualifyTableName(s, w, d)) \in {1, 2}
<1>1. Len(<<w>>) = 1 /\ Len(<<s, w>>) = 2
  OBVIOUS
<1> QED BY <1>1 DEF QualifyTableName

(* What is shown has a schema and a name at most. *)
LEMMA ShownShort ==
    ASSUME NEW t \in D!DBTypes, t # "MONGODB", NEW scope, NEW schema \in SchemaInfos(t, scope),
           NEW m \in DOMAIN schema
    PROVE  Len(NormalizeTable(t, m)) \in {1, 2}
<1>0. PICK b : b = Databases[t] /\ \A x \in b : TableOf(t, x)
  BY DatabasesAssumption
<1>1. CASE t = "ORACLE"
  <2>0. schema = OR!GetSchemaInfo(b, scope)
    BY <1>0, <1>1 DEF SchemaInfos
  <2>1. PICK found : found = OR!GetDatabaseSchema(b, scope)
    OBVIOUS
  <2>2. PICK k \in DOMAIN found : m = LowerName(k)
    BY <2>0, <2>1, OracleSchemaNames
  <2>a. \A x \in b : TableOf("ORACLE", x)
    BY <1>0, <1>1
  <2>3. NormalizeTable("ORACLE", m) = k
    BY ONLY <2>a, <2>0, <2>1, <2>2, OracleSchemaIs
  <2>4. PICK y \in b : k = QualifyTableName(y.schema, y.name, CurrentSchema)
    BY <2>1, <2>2, OracleNames DEF OR!GetDatabaseSchema, OR!QueryTables
  <2> QED BY <1>1, <2>3, <2>4, QualifiedIsShort
<1>2. CASE t # "ORACLE"
  <2>1. NormalizeTable(t, m) = m
    BY <1>2, DiscoveredNormal
  <2>2. CASE t = "POSTGRESQL"
    <3>1. PICK x \in b : m = QualifyTableName(x.schema, x.name, "public")
      BY <1>0, <2>2, PostgresNames
         DEF SchemaInfos, PG!GetSchemaInfo, PG!GetDatabaseSchema, PG!QueryTables, PG!DefaultSchema
    <3> QED BY <2>1, <3>1, QualifiedIsShort
  <2>3. CASE t = "SQL_SERVER"
    <3>1. PICK x \in b : m = QualifyTableName(x.schema, x.name, "dbo")
      BY <1>0, <2>3, SQLServerNames
         DEF SchemaInfos, MS!GetSchemaInfo, MS!GetDatabaseSchema, MS!QueryTables, MS!DefaultSchema
    <3> QED BY <2>1, <3>1, QualifiedIsShort
  <2>4. CASE t = "MYSQL"
    <3>1. PICK x \in b : m = <<x.name>>
      BY <1>0, <2>4 DEF SchemaInfos, MY!GetSchemaInfo, MY!GetDatabaseSchema, MY!QueryTables
    <3>2. Len(m) = 1
      BY <3>1
    <3> QED BY <2>1, <3>2
  <2> QED BY <1>2, <2>2, <2>3, <2>4 DEF D!DBTypes
<1> QED BY <1>1, <1>2

(* A field that is shown is found again, by its own name, under the scope   *)
(* of a request for it.                                                     *)
LEMMA FoundAgain ==
    ASSUME NEW t \in D!DBTypes, t # "MONGODB", NEW scope, scope = {} \/ \E s : scope = {s},
           NEW schema \in SchemaInfos(t, scope), NEW A, A = Snapshot(t, schema), NEW n \in DOMAIN A, NEW f \in A[n],
           NEW own, t # "POSTGRESQL" => own = scope,
           NEW other, other = IF SchemaScopeForTables(t, {n}) # {} THEN SchemaScopeForTables(t, {n}) ELSE own,
           NEW again \in SchemaInfos(t, other), NEW B, B = Snapshot(t, again)
    PROVE  n \in DOMAIN B /\ f \in B[n]
<1>0. PICK b : b = Databases[t] /\ \A x \in b : TableOf(t, x)
  BY DatabasesAssumption
<1>1. SUFFICES ASSUME NEW m \in DOMAIN schema, NormalizeTable(t, m) = n
               PROVE  m \in DOMAIN again /\ schema[m] \subseteq again[m]
  BY ShownAgain
<1>2. CASE t = "ORACLE"
  <2>1. schema = OR!GetSchemaInfo(b, scope) /\ again = OR!GetSchemaInfo(b, other) /\ own = scope
    BY <1>0, <1>2 DEF SchemaInfos
  <2>2. other = IF Qualified(n) THEN {Head(n)} ELSE scope
    BY <1>2, <2>1 DEF SchemaScopeForTables, DefaultSchemaForType, GetUniqueSchemas
  <2>3. (\A x \in b : TableOf("ORACLE", x)) /\ n = NormalizeTable("ORACLE", m) /\ m \in DOMAIN schema
    BY <1>0, <1>1, <1>2
  <2> QED BY ONLY <2>1, <2>2, <2>3, OracleAgain
<1>3. CASE t = "POSTGRESQL"
  <2>1. n = m
    BY <1>1, <1>3, DiscoveredNormal
  <2>2. schema = PG!GetSchemaInfo(b, scope) /\ again = PG!GetSchemaInfo(b, other)
    BY <1>0, <1>3 DEF SchemaInfos
  <2>3. (\A x \in b : TableOf("POSTGRESQL", x)) /\ m \in DOMAIN schema
    BY <1>0, <1>1, <1>3
  <2>4. PICK named, found : named = SchemaScopeForTables("POSTGRESQL", {m}) /\ found = PG!GetSchemaInfo(b, named)
    OBVIOUS
  <2>5. named # {} /\ m \in DOMAIN found /\ schema[m] = found[m]
    BY ONLY <2>2, <2>3, <2>4, PostgresAgain
  <2>6. other = named
    BY <1>3, <2>1, <2>4, <2>5
  <2> QED BY <2>2, <2>4, <2>5, <2>6
<1>4. CASE t = "SQL_SERVER"
  <2>1. n = m
    BY <1>1, <1>4, DiscoveredNormal
  <2>2. schema = MS!GetSchemaInfo(b, scope) /\ again = MS!GetSchemaInfo(b, other)
    BY <1>0, <1>4 DEF SchemaInfos
  <2>3. (\A x \in b : TableOf("SQL_SERVER", x)) /\ m \in DOMAIN schema /\ (scope = {} \/ \E s : scope = {s})
    BY <1>0, <1>1, <1>4
  <2>4. PICK named, found : named = SchemaScopeForTables("SQL_SERVER", {m}) /\ found = MS!GetSchemaInfo(b, named)
    OBVIOUS
  <2>5. named # {} /\ m \in DOMAIN found /\ schema[m] \subseteq found[m]
    BY ONLY <2>2, <2>3, <2>4, SQLServerAgain
  <2>6. other = named
    BY <1>4, <2>1, <2>4, <2>5
  <2> QED BY <2>2, <2>4, <2>5, <2>6
<1>5. CASE t = "MYSQL"
  <2>1. schema = MY!GetSchemaInfo(b, scope) /\ again = MY!GetSchemaInfo(b, other)
    BY <1>0, <1>5 DEF SchemaInfos
  <2> QED BY <1>1, <2>1 DEF MY!GetSchemaInfo
<1> QED BY <1>2, <1>3, <1>4, <1>5 DEF D!DBTypes

(* A shown name is normal: what a client copies is what is looked up. *)
LEMMA ShownNormal ==
    ASSUME NEW t \in D!DBTypes, t # "MONGODB", NEW scope, NEW schema \in SchemaInfos(t, scope),
           NEW A, A = Snapshot(t, schema), NEW n \in DOMAIN A, NEW f \in A[n]
    PROVE  NormalizeTable(t, n) = n /\ NormalizeField(t, f) = f /\ Len(n) \in {1, 2}
<1>0. PICK b : b = Databases[t] /\ \A x \in b : TableOf(t, x)
  BY DatabasesAssumption
<1>1. PICK m \in DOMAIN schema : n = NormalizeTable(t, m)
  BY SnapshotOf
<1>2. Len(n) \in {1, 2}
  BY <1>1, ShownShort
<1>3. CASE t # "ORACLE"
  <2>1. NormalizeTable(t, m) = m
    BY <1>3, DiscoveredNormal
  <2>2. NormalizeField(t, f) = f
    BY <1>3 DEF NormalizeField, FoldsFieldCase
  <2> QED BY <1>1, <1>2, <2>1, <2>2
<1>4. CASE t = "ORACLE"
  <2>1. PICK found : found = OR!GetDatabaseSchema(b, scope)
    OBVIOUS
  <2>2. schema = OR!GetSchemaInfo(b, scope) /\ A = Snapshot("ORACLE", schema) /\ \A x \in b : TableOf("ORACLE", x)
    BY <1>0, <1>4 DEF SchemaInfos
  <2>3. n \in DOMAIN found /\ f \in found[n]
    <3>1. A = Snapshot("ORACLE", OR!GetSchemaInfo(b, scope)) /\ n \in DOMAIN A /\ f \in A[n]
      BY <2>2
    <3>2. n \in DOMAIN found /\ \A g \in A[n] : g \in found[n]
      BY ONLY <2>1, <2>2, <3>1, OracleSnapshot
    <3> QED BY <3>1, <3>2
  <2>4. PICK y \in b : n = QualifyTableName(y.schema, y.name, CurrentSchema)
    BY <2>1, <2>3, OracleNames DEF OR!GetDatabaseSchema, OR!QueryTables
  <2>5. PICK z \in b : f \in z.columns
    BY <2>1, <2>3 DEF OR!GetDatabaseSchema, OR!BuildTableSchema
  <2>6. Upper[f] = f
    BY <2>2, <2>5, OracleTable
  <2>7. UpperName(n) = n
    BY <2>2, <2>4, OracleFolds
  <2>8. NormalizeTable("ORACLE", n) = UpperName(n)
    <3>1. y.schema \in Identifiers /\ y.name \in Identifiers
      BY <2>2, OracleTable
    <3>2. n = <<y.name>> \/ n = <<y.schema, y.name>>
      BY <2>4, <3>1, QualifiedName
    <3> QED BY <3>1, <3>2, RaisedName
  <2> QED BY <1>2, <1>4, <2>6, <2>7, <2>8 DEF NormalizeField, FoldsFieldCase
<1> QED BY <1>3, <1>4

-----------------------------------------------------------------------------
(* The connection an id stands for is the one its name stands for.          *)

(* Connections that differ in their ids alone. *)
SameConn(c, b) ==
    /\ c.config = b.config /\ c.type = b.type /\ c.place = b.place /\ c.host = b.host /\ c.user = b.user
    /\ c.key = b.key /\ c.password = b.password /\ c.ssl = b.ssl /\ c.auth = b.auth
    /\ c.service = b.service /\ c.schema = b.schema

LEMMA MadeWithID ==
    ASSUME NEW n, NEW t, NEW e, NEW c, c = D!InMemory(n, t, e), NEW tenant
    PROVE  SameConn(c, D!WithID(c, tenant)) /\ D!WithID(c, tenant).config = n
BY Zenon DEF SameConn, D!WithID, D!InMemory

LEMMA StoredAgain ==
    ASSUME NEW stored, NEW tenant, StoredApart(stored, tenant), NEW i \in DOMAIN stored, NEW b, b = stored[i]
    PROVE  b.key = TRUE /\ \A j \in DOMAIN stored : stored[j].config = b.config => stored[j] = b
BY DEF StoredApart

LEMMA ResolvedAgain ==
    ASSUME NEW d, NEW tenant, StoredApart(d.stored[tenant], tenant),
           d.mode = "single" => tenant = D!NoTenant, NEW id, NEW b, b = D!GetConnection(d, tenant, id), b # Failed,
           ~(b.key /\ D!IsInternal(b.config))
    PROVE  \E c \in D!Stored(d, tenant) \cup ConnectionsOfPlatform(d, tenant) :
             D!ResolveConnections(d, tenant, {b.config}) = {c} /\ SameConn(c, b)
<1>1. CASE D!FindConfigByID(id, tenant) = {}
  <2>1. b = D!FindByID(d, tenant, id)
    BY <1>1 DEF D!GetConnection
  <2>2. b \in D!Stored(d, tenant)
    BY <2>1 DEF D!FindByID
  <2>3. b.key = TRUE /\ {c \in D!Stored(d, tenant) : c.config \in {b.config}} = {b}
    <3>1. PICK stored : stored = d.stored[tenant]
      OBVIOUS
    <3>2. PICK i \in DOMAIN stored : b = stored[i]
      BY <2>2, <3>1 DEF D!Stored
    <3>3. b.key = TRUE /\ \A j \in DOMAIN stored : stored[j].config = b.config => stored[j] = b
      BY <3>1, <3>2, StoredAgain
    <3> QED BY <2>2, <3>1, <3>3 DEF D!Stored
  <2>4. ~D!IsInternal(b.config)
    BY <2>3
  <2>5. PICK internal : internal = {n \in {b.config} : D!IsInternal(n)} /\ internal = {}
    BY <2>4
  <2>6. D!FindByConfigNames(d, tenant, {b.config} \ internal) = {b}
    BY <2>3, <2>5 DEF D!FindByConfigNames, D!Stored
  <2>7. D!ResolveConnections(d, tenant, {b.config}) = {b}
    <3>1. CASE d.mode = "single"
      BY <2>5, <2>6, <3>1 DEF D!ResolveConnections, D!ResolveSingle
    <3>2. CASE d.mode # "single"
      BY <2>5, <2>6, <3>2 DEF D!ResolveConnections, D!ResolveMulti
    <3> QED BY <3>1, <3>2
  <2>8. SameConn(b, b)
    BY Zenon DEF SameConn
  <2> QED BY <2>2, <2>7, <2>8
<1>2. CASE D!FindConfigByID(id, tenant) # {}
  <2>1. PICK n : n \in D!FindConfigByID(id, tenant) /\ b = D!ResolveInternalByConfigName(d, tenant, n)
    BY <1>2 DEF D!GetConnection
  <2>2. n \in DOMAIN D!Registry /\ D!IsInternal(n)
    BY <2>1 DEF D!FindConfigByID, D!IsInternal
  <2>3. CASE d.mode = "single"
    <3>1. PICK env : env = D!LoadInternalConnectionsFromEnv(d.env)
      OBVIOUS
    <3>2. n \in DOMAIN env /\ b = D!WithID(env[n], D!NoTenant)
      BY <2>1, <2>3, <3>1 DEF D!ResolveInternalByConfigName, D!ResolveInternalSingle
    <3>3. PICK t, e : env[n] = D!InMemory(n, t, e)
      BY <3>1, <3>2 DEF D!LoadInternalConnectionsFromEnv
    <3>4. SameConn(env[n], b) /\ b.config = n
      BY <3>2, <3>3, MadeWithID
    <3>5. PICK internal : internal = {m \in {n} : D!IsInternal(m)} /\ internal = {n} /\ {n} \ internal = {}
      BY <2>2
    <3>6. D!FindByConfigNames(d, D!NoTenant, {n} \ internal) = {}
      BY <3>5 DEF D!FindByConfigNames
    <3>7. D!ResolveConnections(d, tenant, {n}) = {env[n]}
      BY <2>3, <3>1, <3>2, <3>5, <3>6 DEF D!ResolveConnections, D!ResolveSingle
    <3>8. env[n] \in ConnectionsOfPlatform(d, tenant)
      BY <2>3, <3>1, <3>2 DEF ConnectionsOfPlatform
    <3> QED BY <3>4, <3>7, <3>8
  <2>4. CASE d.mode # "single"
    <3>1. PICK c : c = D!ResolveInternalConnection(d, tenant, n)
      OBVIOUS
    <3>2. c # Failed /\ b = D!WithID(c, tenant)
      BY <2>1, <2>4, <3>1 DEF D!ResolveInternalByConfigName, D!ResolveInternalMulti
    <3>3. PICK t, e : c = D!InMemory(n, t, e)
      BY <3>1, <3>2 DEF D!ResolveInternalConnection
    <3>4. SameConn(c, b) /\ b.config = n
      BY <3>2, <3>3, MadeWithID
    <3>5. PICK internal : internal = {m \in {n} : D!IsInternal(m)} /\ internal = {n} /\ {n} \ internal = {}
      BY <2>2
    <3>6. D!FindByConfigNames(d, tenant, {n} \ internal) = {}
      BY <3>5 DEF D!FindByConfigNames
    <3>7. D!ResolveConnections(d, tenant, {n}) = {c}
      BY <2>4, <3>1, <3>2, <3>5, <3>6 DEF D!ResolveConnections, D!ResolveMulti
    <3>8. c \in ConnectionsOfPlatform(d, tenant)
      BY <2>2, <2>4, <3>1 DEF ConnectionsOfPlatform
    <3> QED BY <3>4, <3>7, <3>8
  <2> QED BY <2>3, <2>4
<1> QED BY <1>1, <1>2

-----------------------------------------------------------------------------
(* It is dialed in one way, by whoever finds it.                            *)

LEMMA DialedAlike ==
    ASSUME NEW c, NEW b, c.type = b.type, c.place = b.place, c.host = b.host, c.key = b.key,
           c.password = b.password, c.ssl = b.ssl, c.auth = b.auth, c.service = b.service, NEW g
    PROVE  D!NewDataSourceFromConnection(c, g) = D!NewDataSourceFromConnection(b, g)
<1>1. D!ResolvePassword(c) = D!ResolvePassword(b)
  BY DEF D!ResolvePassword
<1>2. \A p, tls, auth : D!Dial(c, p, tls, auth) = D!Dial(b, p, tls, auth)
  BY DEF D!Dial
<1>3. D!ValidateHostForConnection(g, c) <=> D!ValidateHostForConnection(g, b)
  BY DEF D!ValidateHostForConnection
<1>a. D!BuildMongoDBOptions(c) = D!BuildMongoDBOptions(b) /\ D!AppendMongoDBSSLParams(c) = D!AppendMongoDBSSLParams(b)
  BY Zenon DEF D!BuildMongoDBOptions, D!AppendMongoDBSSLParams
<1>4. D!NewDataSourceConfigMongoDB(c) = D!NewDataSourceConfigMongoDB(b)
  BY <1>1, <1>2, <1>a DEF D!NewDataSourceConfigMongoDB
<1>5. D!NewDataSourceConfigPostgres(c) = D!NewDataSourceConfigPostgres(b)
  BY <1>1, <1>2 DEF D!NewDataSourceConfigPostgres
<1>6. D!NewDataSourceConfigOracle(c) = D!NewDataSourceConfigOracle(b)
  BY <1>1, <1>2 DEF D!NewDataSourceConfigOracle
<1>7. D!NewDataSourceConfigMySQL(c) = D!NewDataSourceConfigMySQL(b)
  BY <1>1, <1>2 DEF D!NewDataSourceConfigMySQL
<1>8. D!NewDataSourceConfigSQLServer(c) = D!NewDataSourceConfigSQLServer(b)
  BY <1>1, <1>2 DEF D!NewDataSourceConfigSQLServer
<1> QED BY <1>3, <1>4, <1>5, <1>6, <1>7, <1>8 DEF D!NewDataSourceFromConnection

(* The connection with the schema the Manager shows it with. *)
ShownAs(b) == D!ApplySchemaResolutionHeuristic(b, deployment.mode = "multi")

LEMMA ShownAlike ==
    ASSUME NEW b
    PROVE  /\ ShownAs(b).type = b.type /\ (b.type # "POSTGRESQL" => ShownAs(b) = b)
           /\ DialOf(ShownAs(b), "manager") = DialOf(b, "manager")
<1>1. ShownAs(b) \in {b, [b EXCEPT !.schema = b.user]} /\ (b.type # "POSTGRESQL" => ShownAs(b) = b)
  BY DEF ShownAs, D!ApplySchemaResolutionHeuristic
<1>2. PICK c : c = ShownAs(b)
  OBVIOUS
<1>3. /\ c.type = b.type /\ c.place = b.place /\ c.host = b.host /\ c.key = b.key
      /\ c.password = b.password /\ c.ssl = b.ssl /\ c.auth = b.auth /\ c.service = b.service
  <2>1. PICK e : e = [b EXCEPT !.schema = b.user]
    OBVIOUS
  <2>2. /\ e.type = b.type /\ e.place = b.place /\ e.host = b.host /\ e.key = b.key
        /\ e.password = b.password /\ e.ssl = b.ssl /\ e.auth = b.auth /\ e.service = b.service
    BY <2>1
  <2> QED BY <1>1, <1>2, <2>1, <2>2
<1>4. DialOf(c, "manager") = DialOf(b, "manager")
  BY <1>3, DialedAlike, Zenon DEF DialOf
<1> QED BY <1>1, <1>2, <1>3, <1>4

LEMMA DialedAsShown ==
    ASSUME NEW c, NEW b, SameConn(c, b), DialOf(ShownAs(b), "manager") # Failed
    PROVE  \A by : DialOf(c, by) = DialOf(ShownAs(b), "manager")
<1>1. \A by : DialOf(c, by) = DialOf(b, by)
  BY DialedAlike, Zenon DEF DialOf, SameConn
<1>2. DialOf(b, "manager") # Failed
  BY ShownAlike
<1>3. \A g \in BOOLEAN, h \in BOOLEAN : (h => g) /\ D!NewDataSourceFromConnection(b, g) # Failed
        => D!NewDataSourceFromConnection(b, h) = D!NewDataSourceFromConnection(b, g)
  BY DEF D!NewDataSourceFromConnection, D!ValidateHostForConnection
<1>4. ASSUME NEW by PROVE DialOf(b, by) = DialOf(b, "manager")
  <2>1. PICK g \in BOOLEAN : g = ("manager" = "manager" /\ deployment.mode = "multi")
    OBVIOUS
  <2>2. PICK h \in BOOLEAN : h = (by = "manager" /\ deployment.mode = "multi")
    OBVIOUS
  <2>3. h => g
    BY <2>1, <2>2
  <2>4. DialOf(b, by) = D!NewDataSourceFromConnection(b, h)
    BY <2>2, Zenon DEF DialOf
  <2>5. DialOf(b, "manager") = D!NewDataSourceFromConnection(b, g)
    BY <2>1, Zenon DEF DialOf
  <2> QED BY <1>2, <1>3, <2>3, <2>4, <2>5
<1> QED BY <1>1, <1>4, ShownAlike

-----------------------------------------------------------------------------
(* What a client has been shown, and asks for.                              *)

TablesShown(b, tables) ==
    /\ DialOf(ShownAs(b), "manager") # Failed /\ D!Connect(DialOf(ShownAs(b), "manager")) # Failed
    /\ \E schema \in SchemaInfos(b.type, SchemaArg({}, ShownAs(b))) :
         tables = BuildSnapshot(b.type, schema, FoldsFieldCase(b.type))

Shown ==
    /\ browse.conn = NoConn => browse.tables = <<>>
    /\ browse.conn # NoConn =>
         /\ browse.conn # Failed
         /\ \E id : browse.ids = {id} /\ browse.conn = D!GetConnection(deployment, request.tenant, id)
         /\ browse.tables = <<>> \/ TablesShown(browse.conn, browse.tables)

AskedAsShown == request.origin = "listed" =>
    /\ \E n \in DOMAIN browse.tables : \E f \in browse.tables[n] : request.tables = [t \in {n} |-> {f}]
    /\ request.config = browse.conn.config /\ request.others = {} /\ request.filters = <<>>
    /\ \A k \in DOMAIN Limits : request.overrides[k] = 0

BrowsesPlain == phase = "browsing" => request \in Requests /\ request.origin = "browse"

(* A field n.f can be extracted over the connection c. *)
Extractable(c, n, f) ==
    /\ c.type \in D!DBTypes /\ c.type # "MONGODB"
    /\ \A by : DialOf(c, by) # Failed /\ D!Connect(DialOf(c, by)) # Failed
    /\ NormalizeTable(c.type, n) = n /\ NormalizeField(c.type, f) = f /\ Len(n) \in {1, 2}
    /\ \A schema \in SchemaInfos(c.type, ScopeOf(c)) :
         n \in DOMAIN Snapshot(c.type, schema) /\ f \in Snapshot(c.type, schema)[n]

(* A stored connection with a name of the platform is hidden by it. *)
Hidden(b) == b.key /\ D!IsInternal(b.config)

LEMMA FieldExtractable ==
    ASSUME NEW b, b.type # "MONGODB", NEW tables, TablesShown(b, tables), NEW c, SameConn(c, b),
           NEW n \in DOMAIN tables, NEW f \in tables[n], DOMAIN request.tables = {n}
    PROVE  Extractable(c, n, f)
<1>1. PICK t : t = c.type /\ t = b.type /\ ShownAs(b).type = t
  BY ShownAlike DEF SameConn
<1>2. \A by : DialOf(c, by) # Failed /\ D!Connect(DialOf(c, by)) # Failed
  BY DialedAsShown DEF TablesShown
<1>3. t \in D!DBTypes /\ t # "MONGODB"
  BY <1>1, <1>2, DialTyped
<1>4. PICK scope : scope = SchemaArg({}, ShownAs(b))
  OBVIOUS
<1>5. PICK schema \in SchemaInfos(t, scope) : tables = BuildSnapshot(t, schema, FoldsFieldCase(t))
  BY <1>1, <1>4 DEF TablesShown
<1>6. tables = Snapshot(t, schema)
  BY <1>3, <1>5, OneSnapshot
<1>7. NormalizeTable(t, n) = n /\ NormalizeField(t, f) = f /\ Len(n) \in {1, 2}
  BY <1>3, <1>5, <1>6, ShownNormal
<1>8. scope = {} \/ \E s : scope = {s}
  BY <1>4 DEF SchemaArg
<1>9. PICK own, named, other :
        /\ own = (IF c.schema = NoSchema THEN {} ELSE {c.schema})
        /\ named = SchemaScopeForTables(t, {n}) /\ other = IF named # {} THEN named ELSE own
  OBVIOUS
<1>10. ScopeOf(c) = other
  BY <1>1, <1>9 DEF ScopeOf, SchemaArg
<1>11. ASSUME t # "POSTGRESQL" PROVE own = scope
  <2>1. ShownAs(b) = b
    BY <1>1, <1>11, ShownAlike
  <2>2. c.schema = b.schema
    BY DEF SameConn
  <2> QED BY <1>4, <1>9, <2>1, <2>2 DEF SchemaArg
<1>12. ASSUME NEW again \in SchemaInfos(t, other)
       PROVE  n \in DOMAIN Snapshot(t, again) /\ f \in Snapshot(t, again)[n]
  <2>1. PICK B : B = Snapshot(t, again)
    OBVIOUS
  <2>2. other = IF SchemaScopeForTables(t, {n}) # {} THEN SchemaScopeForTables(t, {n}) ELSE own
    BY <1>9
  <2>3. n \in DOMAIN B /\ f \in B[n]
    BY <1>3, <1>5, <1>6, <1>8, <1>11, <1>12, <2>1, <2>2, FoundAgain
  <2> QED BY <2>1, <2>3
<1> QED BY <1>1, <1>2, <1>3, <1>7, <1>10, <1>12 DEF Extractable

LEMMA ListedExtractable ==
    ASSUME DialInv, Shown, AskedAsShown, request.origin = "listed", browse.conn.type # "MONGODB", ~Hidden(browse.conn)
    PROVE  /\ Found /\ Known /\ SpecValid
           /\ \E n, f : request.tables = [t \in {n} |-> {f}] /\ Extractable(TheConn, n, f)
<1>1. PICK n \in DOMAIN browse.tables : \E f \in browse.tables[n] : request.tables = [t \in {n} |-> {f}]
  BY DEF AskedAsShown
<1>2. PICK f \in browse.tables[n] : request.tables = [t \in {n} |-> {f}]
  BY <1>1
<1>3. DOMAIN request.tables = {n} /\ request.tables[n] = {f}
  BY <1>2
<1>4. PICK b : b = browse.conn
  OBVIOUS
<1>5. browse.tables # <<>>
  BY <1>1, EmptyMap
<1>6. PICK id : b = D!GetConnection(deployment, request.tenant, id) /\ b # Failed /\ TablesShown(b, browse.tables)
  BY <1>4, <1>5 DEF Shown
<1>7. PICK r \in Requests : request.deployment = r.deployment /\ request.tenant = r.tenant
  BY DEF DialInv, FromRequests
<1>8. PICK d, tenant : d = deployment /\ tenant = request.tenant /\ d = Deployments[r.deployment] /\ tenant = r.tenant
  BY <1>7 DEF deployment
<1>9. StoredApart(d.stored[tenant], tenant) /\ (d.mode = "single" => tenant = D!NoTenant)
  BY <1>7, <1>8, ServedWell DEF AsOwned
<1>10. PICK c \in D!Stored(d, tenant) \cup ConnectionsOfPlatform(d, tenant) :
         D!ResolveConnections(d, tenant, {b.config}) = {c} /\ SameConn(c, b)
  <2>1. ~(b.key /\ D!IsInternal(b.config))
    BY <1>4, Zenon DEF Hidden
  <2>2. b = D!GetConnection(d, tenant, id) /\ b # Failed
    BY <1>6, <1>8
  <2> QED BY ONLY <1>9, <2>1, <2>2, ResolvedAgain
<1>11. Names = {b.config} /\ request.config = b.config
  BY <1>4 DEF Names, AskedAsShown
<1>12. Resolved = {c}
  BY <1>8, <1>10, <1>11 DEF Resolved
<1>13. {c} # Failed
  <2>1. PICK s : s = [deployment |-> r.deployment, tenant |-> r.tenant]
    OBVIOUS
  <2>2. s \in Served /\ s.deployment = r.deployment /\ s.tenant = r.tenant
    BY <2>1 DEF Served
  <2>3. \A x \in D!Stored(Deployments[s.deployment], s.tenant)
                   \cup ConnectionsOfPlatform(Deployments[s.deployment], s.tenant) : Failed # {x}
    BY <2>2, FailedAssumption
  <2> QED BY <1>8, <1>10, <2>2, <2>3
<1>14. c.config = b.config
  BY <1>10 DEF SameConn
<1>15. Found /\ Known
  BY <1>11, <1>12, <1>13, <1>14 DEF Found, Known
<1>16. TheConn = c
  BY <1>11, <1>12, <1>14 DEF TheConn
<1>17. SpecValid
  <2>1. Cardinality({n}) = 1 /\ Cardinality({f}) = 1 /\ Cardinality({b.config}) = 1
    BY FS_Singleton
  <2>2. Limits.datasources >= 1 /\ Limits.tables >= 1 /\ Limits.fields >= 1
    BY LimitsAssumption
  <2> QED BY <1>3, <1>11, <2>1, <2>2, LimitsAssumption DEF SpecValid
<1>18. Extractable(c, n, f)
  BY <1>3, <1>4, <1>6, <1>10, FieldExtractable
<1> QED BY <1>2, <1>15, <1>16, <1>17, <1>18

-----------------------------------------------------------------------------
(* It is validated, planned and queried.                                    *)

ListedJob ==
    request.origin = "listed" /\ phase \in {"mapped", "planned"} =>
        \A n \in DOMAIN job.selection : job.selection[n] # {}

ListInv == Shown /\ AskedAsShown /\ BrowsesPlain /\ ListedJob /\ ListedIsExtractable

Asked == /\ request.origin = "listed" /\ outages = {}
         /\ browse.conn.type # "MONGODB" /\ ~Hidden(browse.conn)

LEMMA ListedWhenAsked ==
    ListedIsExtractable <=>
      (Asked => (phase \in {"received", "found"} \/ valid) /\ phase \notin {"rejected", "failed"})
BY Zenon DEF ListedIsExtractable, Asked, Hidden

(* A field of a table in the snapshot is known under every reading. *)
LEMMA ConfigExtractable ==
    ASSUME NEW n, NEW f, request.tables = [t \in {n} |-> {f}], Extractable(conn, n, f), type = conn.type,
           NEW schema \in SchemaInfos(type, ScopeOf(conn))
    PROVE  ValidateConfig(schema) /\ TablesKnown(type, request.tables, Snapshot(type, schema))
<1>1. PICK t, snapshot : t = type /\ snapshot = BuildSnapshot(t, schema, FoldsFieldCase(t))
  OBVIOUS
<1>2. t \in D!DBTypes /\ t # "MONGODB" /\ NormalizeTable(t, n) = n /\ NormalizeField(t, f) = f
  BY <1>1 DEF Extractable
<1>3. snapshot = Snapshot(t, schema)
  BY <1>1, <1>2, OneSnapshot
<1>4. n \in DOMAIN snapshot /\ f \in snapshot[n]
  BY <1>1, <1>3 DEF Extractable
<1>5. DOMAIN request.tables = {n} /\ request.tables[n] = {f}
  OBVIOUS
<1>6. TablesKnown(t, request.tables, snapshot)
  BY <1>2, <1>4, <1>5 DEF TablesKnown, Has
<1>7. MapTablesForCRMCompatibility(request.tables, snapshot) = request.tables
  <2>1. ResolvePhysicalCollection(n, snapshot) = n
    BY <1>4 DEF ResolvePhysicalCollection
  <2>2. PICK m : m = MapTablesForCRMCompatibility(request.tables, snapshot)
    OBVIOUS
  <2>3. m = [k \in {ResolvePhysicalCollection(u, snapshot) : u \in {n}} |->
               UNION {request.tables[u] : u \in {v \in {n} : ResolvePhysicalCollection(v, snapshot) = k}}]
    BY <1>5, <2>2 DEF MapTablesForCRMCompatibility
  <2>4. {ResolvePhysicalCollection(u, snapshot) : u \in {n}} = {n}
    BY <2>1
  <2>5. DOMAIN m = {n} /\ m[n] = {f}
    BY <1>5, <2>1, <2>3, <2>4
  <2>6. m = [k \in {n} |-> m[k]]
    BY <2>3, <2>5
  <2> QED BY <2>2, <2>5, <2>6
<1>8. ValidateTablesAgainstSchema(request.tables, snapshot)
  BY <1>1, <1>6, SameTables
<1>9. ValidateConfig(schema)
  BY <1>1, <1>7, <1>8, Zenon DEF ValidateConfig
<1> QED BY <1>1, <1>3, <1>6, <1>9

LEMMA ListedValidates ==
    ASSUME DialInv, AgreeInv, ListInv, ValidateSchema, Asked, outages' = {}
    PROVE  valid'
<1>1. phase = "found" /\ conn = TheConn /\ Known
  BY ListedExtractable DEF ValidateSchema, AgreeInv, ConnChosen, Connected, ListInv, Asked
<1>2. PICK n, f : request.tables = [t \in {n} |-> {f}] /\ Extractable(conn, n, f)
  BY <1>1, ListedExtractable DEF ListInv, Asked
<1>3. EnsureConnected("manager")
  BY <1>2, ConnectedAs DEF Extractable
<1>4. \E schema \in SchemaInfos(type, ScopeOf(conn)) : valid' = (Known /\ ValidateConfig(schema))
  <2>1. ScopeOf(conn) = SchemaArg(SchemaScopeForTables(type, DOMAIN request.tables), conn)
    BY DEF ScopeOf, type
  <2>2. outages' # outages \cup {"validating"}
    OBVIOUS
  <2> QED BY <1>3, <2>1, <2>2 DEF ValidateSchema
<1>5. type = conn.type
  BY DEF type
<1> QED BY <1>1, <1>2, <1>4, <1>5, ConfigExtractable

(* A request without filters has none in its job. *)
LEMMA ListedUnfiltered ==
    ASSUME FiltersMapped, request.filters = <<>>
    PROVE  DOMAIN job.filters = {}
BY EmptyMap DEF FiltersMapped

LEMMA ListedPlanned ==
    ASSUME DialInv, PathInv, AgreeInv, ListInv, PlanExtraction, Asked, outages' = {}
    PROVE  phase' = "planned"
<1>1. /\ phase = "mapped" /\ conn = TheConn /\ Known /\ SpecValid /\ TablesFinite
      /\ job.selection = MapMappedFields(request) /\ job.scope = SchemaScopeForTables(type, DOMAIN request.tables)
  BY ListedExtractable DEF PlanExtraction, AgreeInv, ConnChosen, Connected, SelectionMapped, ListInv, Asked
<1>2. PICK n, f : request.tables = [t \in {n} |-> {f}] /\ Extractable(conn, n, f)
  BY <1>1, ListedExtractable DEF ListInv, Asked
<1>3. DOMAIN request.tables = {n} /\ request.tables[n] = {f} /\ type = conn.type
  BY <1>2 DEF type
<1>4. FiltersSelected
  <2>1. FiltersMapped /\ request.filters = <<>>
    BY <1>1 DEF PathInv, JobMapped, ListInv, AskedAsShown, Asked
  <2> QED BY <2>1, ListedUnfiltered DEF FiltersSelected
<1>5. SpelledOnce
  BY <1>3 DEF SpelledOnce
<1>6. ~Refused
  <2>1. \A k \in DOMAIN Limits : request.overrides[k] = 0
    BY DEF ListInv, AskedAsShown, Asked
  <2> QED BY <1>1, <1>3, <1>4, <1>5, <2>1, RefusedAlike
<1>7. EnsureConnected("worker")
  BY <1>2, ConnectedAs DEF Extractable
<1>8. PICK schema \in SchemaInfos(type, SchemaArg(job.scope, conn)) :
        phase' = IF MappingValid(Mapping, Snapshot(type, schema)) THEN "planned" ELSE "rejected"
  <2>1. outages' # outages \cup {"planning"}
    OBVIOUS
  <2> QED BY <1>6, <1>7, <2>1, Zenon DEF PlanExtraction, Snapshot
<1>9. SchemaArg(job.scope, conn) = ScopeOf(conn)
  BY <1>1, <1>3 DEF ScopeOf
<1>10. TablesKnown(type, request.tables, Snapshot(type, schema))
  BY <1>2, <1>3, <1>8, <1>9, ConfigExtractable
<1>11. MappingValid(Mapping, Snapshot(type, schema))
  BY <1>1, <1>4, <1>10, MappingInSnapshot, SelectionKnown
<1> QED BY <1>8, <1>11

LEMMA ListedQueried ==
    ASSUME DialInv, PathInv, ExecInv, AgreeInv, ListInv, phase = "planned", Asked, NEW t, QueryFails(t), PlanIsExecutable'
    PROVE  FALSE
<1>1. /\ request' = request /\ job' = job /\ conn' = conn /\ outages' = {} /\ phase' = "failed"
      /\ conn = TheConn
  BY DEF QueryFails, Abandon, Asked, AgreeInv, ConnChosen, Connected
<1>2. PICK n, f : request.tables = [u \in {n} |-> {f}] /\ Extractable(conn, n, f)
  BY <1>1, ListedExtractable DEF ListInv, Asked
<1>3. DOMAIN request.tables = {n} /\ type = conn.type /\ type # "MONGODB" /\ Len(n) \in {1, 2}
  BY <1>2 DEF type, Extractable
<1>4. type' = type /\ db' = db /\ ~IsCRM'
  BY <1>1, <1>3 DEF type, db, IsCRM
<1>5. DOMAIN job.selection = {NormalizeTable(type, n)} /\ \A m \in DOMAIN job.selection : job.selection[m] # {}
  BY <1>3 DEF ExecInv, JobOfRequest, ListInv, ListedJob, Asked
<1>6. DOMAIN job.filters = {}
  <2>1. FiltersMapped /\ request.filters = <<>>
    BY <1>3 DEF PathInv, JobMapped, Planned, ListInv, AskedAsShown, Asked, IsCRM
  <2> QED BY <2>1, ListedUnfiltered
<1>7. \/ type = "SQL_SERVER" /\ {Qualified(m) : m \in DOMAIN job.selection} = BOOLEAN
      \/ \E u \in DOMAIN request.tables : Len(u) = 3
  BY <1>1, <1>4, <1>5, <1>6 DEF PlanIsExecutable
<1>8. {Qualified(m) : m \in DOMAIN job.selection} = BOOLEAN
  BY <1>3, <1>7
<1> QED BY <1>5, <1>8

-----------------------------------------------------------------------------
(* The steps of a client that browses, and of its request.                  *)

LEMMA ShownKept ==
    ASSUME request'.deployment = request.deployment, request'.tenant = request.tenant, browse' = browse, Shown
    PROVE  Shown'
<1>1. deployment' = deployment
  BY DEF deployment
<1>2. \A b : ShownAs(b)' = ShownAs(b)
  BY <1>1, Zenon DEF ShownAs
<1>3. \A b, by : DialOf(b, by)' = DialOf(b, by)
  BY <1>1, Zenon DEF DialOf
<1>4. \A b, tables : TablesShown(b, tables)' <=> TablesShown(b, tables)
  BY <1>2, <1>3 DEF TablesShown
<1> QED BY <1>1, <1>4 DEF Shown

LEMMA ListKept ==
    ASSUME ListInv, request' = request, browse' = browse,
           phase' # "browsing" \/ phase' = phase,
           phase' \notin {"mapped", "planned"} \/ (phase \in {"mapped", "planned"} /\ job' = job),
           outages \subseteq outages',
           Asked /\ outages' = {} => (phase' \in {"received", "found"} \/ valid') /\ phase' \notin {"rejected", "failed"}
    PROVE  ListInv'
<1>1. Shown'
  BY ShownKept DEF ListInv
<1>2. AskedAsShown' /\ BrowsesPlain' /\ ListedJob'
  BY DEF ListInv, AskedAsShown, BrowsesPlain, ListedJob
<1>3. Asked' => Asked /\ outages' = {}
  BY Zenon DEF Asked, Hidden
<1>4. ListedIsExtractable'
  BY <1>3, Zenon DEF ListedIsExtractable, Asked, Hidden
<1> QED BY <1>1, <1>2, <1>4 DEF ListInv

LEMMA ListInit == Init => ListInv
<1> SUFFICES ASSUME Init PROVE ListInv
  OBVIOUS
<1>1. /\ request \in Requests /\ browse = [ids |-> {}, conn |-> NoConn, tables |-> <<>>]
      /\ phase = IF request.origin = "browse" THEN "browsing" ELSE "received"
  BY DEF Init, NothingShown
<1>2. request.origin \in {"client", "browse"}
  BY <1>1, RequestsAssumption
<1>3. browse.conn = NoConn /\ browse.tables = <<>>
  BY <1>1
<1> QED BY <1>1, <1>2, <1>3 DEF ListInv, Shown, AskedAsShown, BrowsesPlain, ListedJob, ListedIsExtractable

(* While a client browses nothing is asked. *)
LEMMA ListBrowses ==
    ASSUME ListInv, phase = "browsing", request' = request, phase' = phase, Shown'
    PROVE  ListInv'
<1>1. request.origin # "listed"
  BY DEF ListInv, BrowsesPlain
<1> QED BY <1>1 DEF ListInv, AskedAsShown, BrowsesPlain, ListedJob, ListedIsExtractable

LEMMA ListsShown ==
    ASSUME ListInv, TablesNamed, NEW page, NEW only, List(page, only)
    PROVE  ListInv'
<1>1. PICK ids : browse' = [browse EXCEPT !.ids = ids]
  BY DEF List
<1>2. phase = "browsing" /\ browse.ids = {} /\ request' = request /\ phase' = phase
  BY DEF List
<1>3. browse.conn = NoConn /\ browse.tables = <<>>
  BY <1>2 DEF ListInv, Shown
<1>4. browse'.conn = NoConn /\ browse'.tables = <<>>
  BY <1>1, <1>3
<1>5. Shown'
  BY <1>4 DEF Shown
<1> QED BY <1>2, <1>5, ListBrowses

LEMMA ShowsShown ==
    ASSUME ListInv, TablesNamed, NEW id, Show(id)
    PROVE  ListInv'
<1>1. PICK b : b = D!GetConnection(deployment, request.tenant, id)
  OBVIOUS
<1>2. /\ phase = "browsing" /\ browse.conn = NoConn /\ request' = request /\ phase' = phase /\ b # Failed
      /\ browse' = [browse EXCEPT !.ids = {id}, !.conn = b]
  BY <1>1 DEF Show
<1>3. browse'.ids = {id} /\ browse'.conn = b /\ browse'.tables = <<>>
  BY <1>2 DEF ListInv, Shown, TablesNamed
<1>4. b = D!GetConnection(deployment', request'.tenant, id)
  BY <1>1, <1>2 DEF deployment
<1>5. Shown'
  BY <1>2, <1>3, <1>4 DEF Shown
<1> QED BY <1>2, <1>5, ListBrowses

LEMMA SchemaShown ==
    ASSUME ListInv, TablesNamed, NEW id \in browse.ids, GetConnectionSchema(id)
    PROVE  ListInv'
<1> DEFINE multi == deployment.mode = "multi"
           c == D!ApplySchemaResolutionHeuristic(D!ResolveConnection(deployment, request.tenant, id), multi)
           dial == D!NewDataSourceFromConnection(c, multi)
<1>0. /\ dial # Failed /\ D!Connect(dial) # Failed /\ request' = request /\ phase = "browsing" /\ phase' = phase
      /\ browse.conn # NoConn
      /\ \E schema \in SchemaInfos(c.type, SchemaArg({}, c)) :
           browse' = [browse EXCEPT !.tables = BuildSnapshot(c.type, schema, FoldsFieldCase(c.type))]
  BY Zenon DEF GetConnectionSchema
<1>1. PICK b : b = browse.conn /\ b # Failed /\ b = D!GetConnection(deployment, request.tenant, id) /\ browse.ids = {id}
  BY <1>0 DEF ListInv, Shown
<1>2. b = D!ResolveConnection(deployment, request.tenant, id)
  BY <1>1 DEF D!ResolveConnection, D!GetConnection
<1>3. c = ShownAs(b)
  BY <1>2, Zenon DEF ShownAs
<1>4. dial = DialOf(c, "manager")
  BY Zenon DEF DialOf
<1> HIDE DEF multi, c, dial
<1>5. c.type = b.type
  BY <1>3, ShownAlike
<1>6. PICK schema \in SchemaInfos(b.type, SchemaArg({}, ShownAs(b))) :
        browse' = [browse EXCEPT !.tables = BuildSnapshot(b.type, schema, FoldsFieldCase(b.type))]
  BY <1>0, <1>3, <1>5
<1>7. PICK tables : tables = BuildSnapshot(b.type, schema, FoldsFieldCase(b.type))
  OBVIOUS
<1>8. TablesShown(b, tables)
  BY <1>0, <1>3, <1>4, <1>6, <1>7 DEF TablesShown
<1>9. browse'.tables = tables /\ browse'.conn = b /\ browse'.ids = {id}
  BY <1>1, <1>6, <1>7 DEF TablesNamed
<1>10. deployment' = deployment /\ request'.tenant = request.tenant
  BY <1>0 DEF deployment
<1>11. TablesShown(b, tables)'
  <2>1. ShownAs(b)' = ShownAs(b)
    BY <1>10, Zenon DEF ShownAs
  <2>2. \A x : DialOf(x, "manager")' = DialOf(x, "manager")
    BY <1>10, Zenon DEF DialOf
  <2> QED BY <1>8, <2>1, <2>2 DEF TablesShown
<1>12. Shown'
  BY <1>0, <1>1, <1>9, <1>10, <1>11 DEF Shown
<1> QED BY <1>0, <1>12, ListBrowses

LEMMA AsksAsShown ==
    ASSUME DialInv, ListInv, NEW t \in DOMAIN browse.tables, NEW f \in browse.tables[t], Submit(t, f)
    PROVE  ListInv'
<1>1. /\ phase = "browsing" /\ phase' = "received" /\ browse' = browse /\ DOMAIN request = RequestFields
      /\ request' = [request EXCEPT !.config = browse.conn.config, !.tables = [u \in {t} |-> {f}], !.origin = "listed"]
  BY DEF Submit, DialInv, FromRequests
<1>2. /\ request'.deployment = request.deployment /\ request'.tenant = request.tenant
      /\ request'.config = browse.conn.config /\ request'.tables = [u \in {t} |-> {f}]
      /\ request'.others = request.others /\ request'.filters = request.filters
      /\ request'.overrides = request.overrides
  BY <1>1 DEF RequestFields
<1>3. request.filters = <<>> /\ request.others = {} /\ \A k \in DOMAIN Limits : request.overrides[k] = 0
  BY <1>1, RequestsAssumption DEF ListInv, BrowsesPlain
<1>4. Shown'
  BY <1>1, <1>2, ShownKept DEF ListInv
<1>5. AskedAsShown'
  BY <1>1, <1>2, <1>3 DEF AskedAsShown
<1>6. BrowsesPlain' /\ ListedJob'
  BY <1>1 DEF BrowsesPlain, ListedJob
<1>7. ListedIsExtractable'
  BY <1>1 DEF ListedIsExtractable
<1> QED BY <1>4, <1>5, <1>6, <1>7 DEF ListInv

LEMMA ListMaps ==
    ASSUME ListInv, MapJob
    PROVE  ListInv'
<1>1. /\ phase = "claimed" /\ phase' = "mapped" /\ request' = request /\ browse' = browse /\ valid' = valid
      /\ outages' = outages
  BY DEF MapJob
<1>2. ASSUME request.origin = "listed", NEW n \in DOMAIN job'.selection PROVE job'.selection[n] # {}
  <2>a. PICK u \in DOMAIN browse.tables : \E f \in browse.tables[u] : request.tables = [t \in {u} |-> {f}]
    BY <1>2 DEF ListInv, AskedAsShown
  <2>1. PICK f \in browse.tables[u] : request.tables = [t \in {u} |-> {f}]
    BY <2>a
  <2>2. job'.selection = MapMappedFields(request)
    BY DEF MapJob
  <2>3. DOMAIN request.tables = {u} /\ request.tables[u] = {f}
    BY <2>1
  <2>4. n = NormalizeTable(type, u) /\ NormalizeField(type, f) \in job'.selection[n]
    BY <1>2, <2>2, <2>3 DEF MapMappedFields, NormalizeFieldsForType
  <2> QED BY <2>4
<1>3. Shown' /\ AskedAsShown' /\ BrowsesPlain' /\ ListedJob'
  BY <1>1, <1>2, ShownKept DEF ListInv, AskedAsShown, BrowsesPlain, ListedJob
<1>4. ListedIsExtractable'
  BY <1>1, Zenon DEF ListInv, ListedIsExtractable
<1> QED BY <1>3, <1>4 DEF ListInv

LEMMA ListStep ==
    DialInv /\ PathInv /\ ExecInv /\ AgreeInv /\ ListInv /\ PlanIsExecutable' /\ [Next]_vars => ListInv'
<1> SUFFICES ASSUME DialInv, PathInv, ExecInv, AgreeInv, ListInv, PlanIsExecutable', [Next]_vars PROVE ListInv'
  OBVIOUS
<1>0. /\ TablesNamed
      /\ Asked => Found /\ SpecValid
      /\ Asked => (phase \in {"received", "found"} \/ valid) /\ phase \notin {"rejected", "failed"}
  BY ListedExtractable, ListedWhenAsked DEF ExecInv, ListInv, Asked
<1>1. CASE ManagerResolves
  BY <1>0, <1>1, ListKept DEF ManagerResolves
<1>2. CASE ValidateSchema
  <2>1. /\ phase = "found" /\ phase' = "validated" /\ request' = request /\ browse' = browse
        /\ outages \subseteq outages'
    BY <1>2 DEF ValidateSchema
  <2> QED BY <1>2, <2>1, ListedValidates, ListKept
<1>3. CASE WorkerResolves
  BY <1>0, <1>3, ListKept DEF WorkerResolves
<1>4. CASE MapJob
  BY <1>4, ListMaps
<1>5. CASE PlanExtraction
  <2>1. /\ phase = "mapped" /\ phase' \in {"planned", "rejected"} /\ request' = request /\ browse' = browse
        /\ job' = job /\ valid' = valid /\ outages \subseteq outages'
    BY <1>5 DEF PlanExtraction
  <2> QED BY <1>0, <1>5, <2>1, ListedPlanned, ListKept
<1>6. CASE ExtractCRM
  <2>1. /\ phase = "claimed" /\ phase' \in {"failed", "done"} /\ request' = request /\ browse' = browse
        /\ outages \subseteq outages' /\ type = "MONGODB"
    BY <1>6 DEF ExtractCRM, IsCRM
  <2>2. ASSUME Asked PROVE FALSE
    <3>1. PICK n, f : Extractable(TheConn, n, f)
      BY <2>2, ListedExtractable DEF ListInv, Asked
    <3>2. conn = TheConn
      BY <2>1 DEF AgreeInv, ConnChosen, Connected
    <3> QED BY <2>1, <3>1, <3>2 DEF Extractable, type
  <2> QED BY <2>1, <2>2, ListKept
<1>7. ASSUME NEW page \in 1..2, NEW only \in {"", "POSTGRESQL"}, List(page, only)
      PROVE  ListInv'
  BY <1>0, <1>7, ListsShown
<1>8. ASSUME NEW id \in browse.ids, Show(id) \/ GetConnectionSchema(id)
      PROVE  ListInv'
  BY <1>0, <1>8, ShowsShown, SchemaShown
<1>9. ASSUME NEW t \in DOMAIN browse.tables, NEW f \in browse.tables[t], Submit(t, f)
      PROVE  ListInv'
  BY <1>9, AsksAsShown
<1>10. ASSUME NEW t \in DOMAIN job.selection, QueryTable(t) \/ QueryFails(t) \/ QueryCut(t)
       PROVE  ListInv'
  <2>1. /\ phase = "planned" /\ request' = request /\ browse' = browse /\ job' = job /\ valid' = valid
        /\ phase' \in {"planned", "done", "failed"} /\ outages \subseteq outages'
    BY <1>10 DEF QueryTable, QueryFails, QueryCut, Record, Abandon
  <2>2. CASE QueryTable(t)
    <3>1. phase' # "failed"
      BY <2>2 DEF QueryTable, Record
    <3> QED BY <1>0, <2>1, <3>1, ListKept
  <2>3. CASE QueryFails(t)
    <3>1. ~Asked
      BY <2>1, <2>3, ListedQueried
    <3> QED BY <2>1, <3>1, ListKept
  <2>4. CASE QueryCut(t)
    <3>1. outages' # {}
      BY <2>4 DEF QueryCut
    <3> QED BY <2>1, <3>1, ListKept
  <2> QED BY <1>10, <2>2, <2>3, <2>4
<1>11. CASE UNCHANGED vars
  BY <1>0, <1>11, ListKept DEF vars
<1> QED BY <1>1, <1>2, <1>3, <1>4, <1>5, <1>6, <1>7, <1>8, <1>9, <1>10, <1>11 DEF Next

(* What the Manager lists can be extracted, for every deployment, database   *)
(* and name: a connection listed by its id is the one its name resolves to, *)
(* dialed in the same way, and a field of the schema shown is found again   *)
(* by validation and planning, which discover under the scope of the request *)
(* and not under that of the listing (GetConnectionSchema, ValidateSchema). *)
THEOREM WhatIsListedIsExtractable == Spec => []ListedIsExtractable
<1>1. ExecInv => PlanIsExecutable
  BY DEF ExecInv
<1>2. ListInv => ListedIsExtractable
  BY DEF ListInv
<1> QED BY <1>1, <1>2, DialInit, DialStep, PathInit, PathStep, ExecInit, ExecStep, AgreeInit, AgreeStep,
           ListInit, ListStep, PTL DEF Spec

-----------------------------------------------------------------------------
(* The other way round: a row of the table whose values meet all conditions  *)
(* is in the answer of the driver.                                          *)

(* A condition that a driver can express, and that a row meets. *)
MetBy(r, f, c) ==
    /\ IsCondition(c) /\ Len(c.like) <= 1 /\ \A x \in Range(c.like) : x.kind \in Strings
    /\ f \in DOMAIN r /\ r[f] \in Value /\ r[f] # Null /\ Meets(r[f], c, Upper[f] = "CREATED_AT")

LEMMA MetIsSatisfied ==
    ASSUME NEW r, NEW f, NEW c, MetBy(r, f, c), PG!ValidateFilterCondition(f, c)
    PROVE  \A w \in PG!ApplyAdvancedFilter(f, c) : Satisfies(r, w)
BY ClausesMeet DEF MetBy

LEMMA PostgresFinds ==
    ASSUME NEW b, NEW tables, NEW filters, NEW n,
           NEW answer, answer = PG!Query(b, tables, filters, n), answer # Failed,
           NEW filter, filter = PG!GetTableFilters(filters, n),
           NEW r \in PG!RowsOf(b, n), \A f \in DOMAIN filter : MetBy(r, f, filter[f])
    PROVE  r \in answer.rows
<1>1. PICK S, applied : S = PostgresSchema(b, tables) /\ applied = PG!FilteredFields(S, n, filter)
  OBVIOUS
<1>2. /\ \A f \in applied : PG!ValidateFilterCondition(f, filter[f])
      /\ r \in answer.rows <=>
           /\ r \in PG!RowsOf(b, n)
           /\ \A f \in applied : \A w \in PG!ApplyAdvancedFilter(f, filter[f]) : Satisfies(r, w)
  BY <1>1, PostgresAnswer
<1>3. applied \subseteq DOMAIN filter
  BY <1>1 DEF PG!FilteredFields
<1> QED BY <1>2, <1>3, MetIsSatisfied

LEMMA MySQLFinds ==
    ASSUME NEW b, NEW tables, NEW filters, NEW n,
           NEW answer, answer = MY!Query(b, tables, filters, n), answer # Failed,
           NEW filter, filter = MY!GetTableFilters(filters, n),
           NEW r \in MY!RowsOf(b, n), \A f \in DOMAIN filter : MetBy(r, f, filter[f])
    PROVE  r \in answer.rows
<1>1. PICK S, applied : S = MySQLSchema(b, tables) /\ applied = MY!FilteredFields(S, n, filter)
  OBVIOUS
<1>2. /\ \A f \in applied : PG!ValidateFilterCondition(f, filter[f])
      /\ r \in answer.rows <=>
           /\ r \in MY!RowsOf(b, n)
           /\ \A f \in applied : \A w \in PG!ApplyAdvancedFilter(f, filter[f]) : Satisfies(r, w)
  BY <1>1, MySQLAnswer
<1>3. applied \subseteq DOMAIN filter
  BY <1>1 DEF MY!FilteredFields
<1> QED BY <1>2, <1>3, MetIsSatisfied

LEMMA SQLServerFinds ==
    ASSUME NEW b, NEW tables, NEW filters, NEW n,
           NEW answer, answer = MS!Query(b, tables, filters, n), answer # Failed,
           NEW filter, filter = MS!GetTableFilters(filters, n),
           NEW r \in MS!RowsOf(b, n), \A f \in DOMAIN filter : MetBy(r, f, filter[f])
    PROVE  r \in answer.rows
<1>1. PICK S, applied : S = SQLServerSchema(b, tables) /\ applied = MS!FilteredFields(S, n, filter)
  OBVIOUS
<1>2. /\ \A f \in applied : PG!ValidateFilterCondition(f, filter[f])
      /\ r \in answer.rows <=>
           /\ r \in MS!RowsOf(b, n)
           /\ \A f \in applied : \A w \in PG!ApplyAdvancedFilter(f, filter[f]) : Satisfies(r, w)
  BY <1>1, SQLServerAnswer
<1>3. applied \subseteq DOMAIN filter
  BY <1>1 DEF MS!FilteredFields
<1> QED BY <1>2, <1>3, MetIsSatisfied

LEMMA OracleFinds ==
    ASSUME NEW b, \A x \in b : TableOf("ORACLE", x), NEW tables, NEW filters, NEW n,
           NEW y \in b, n = QualifyTableName(y.schema, y.name, CurrentSchema),
           NEW answer, answer = OR!Query(b, tables, filters, n), answer # Failed,
           NEW filter, filter = OR!GetTableFilters(filters, n),
           NEW r \in OR!RowsOf(b, n), \A f \in DOMAIN filter : MetBy(r, f, filter[f])
    PROVE  r \in answer.rows
<1>1. PICK S, applied : S = OracleSchema(b, tables) /\ applied = OR!FilteredFields(S, n, filter)
  OBVIOUS
<1>2. /\ OR!ValidateTableAndFields(S, n, tables[n]) # {}
      /\ \A f \in applied : PG!ValidateFilterCondition(f, filter[f])
      /\ r \in answer.rows <=>
           /\ r \in OR!RowsOf(b, n)
           /\ \A f \in applied :
                \A w \in PG!ApplyAdvancedFilter(OracleColumn(b, tables, n, f), filter[f]) : Satisfies(r, w)
  BY <1>1, OracleAnswer
<1>3. applied \subseteq DOMAIN filter
  BY <1>1 DEF OR!FilteredFields
<1>4. ASSUME NEW f \in applied PROVE OracleColumn(b, tables, n, f) = f
  <2>1. f \in DOMAIN r
    BY <1>3 DEF MetBy
  <2>2. (\A x \in b : TableOf("ORACLE", x)) /\ y \in b /\ r \in OR!RowsOf(b, n)
        /\ n = QualifyTableName(y.schema, y.name, CurrentSchema)
    OBVIOUS
  <2>3. f \in OR!ColumnsOf(S, n) /\ Upper[f] = f
    BY ONLY <1>1, <1>2, <2>1, <2>2, OracleColumns
  <2> QED BY <1>1, <2>3, OracleColumnIs DEF OR!EqualFold
<1> QED BY <1>2, <1>3, <1>4, MetIsSatisfied

-----------------------------------------------------------------------------
(* Patterns.  The expression made of a pattern is the pattern without a %    *)
(* at either end, where it is not anchored then: the cuts of the pattern     *)
(* that remain are cuts of the expression.                                  *)

LEMMA RegexIsPart ==
    ASSUME NEW p \in Seq(STRING), NEW x, x = ConvertSQLLikeToRegex(p)
    PROVE  \E d, e \in {0, 1} :
             /\ Len(x.body) \in Nat /\ Len(x.body) = Len(p) - d - e
             /\ \A i \in 1..Len(x.body) : x.body[i] = p[i + d]
             /\ (x.start => d = 0) /\ (x.end => e = 0)
<1>1. PICK q : q = IF Starts(p) THEN Tail(p) ELSE p
  OBVIOUS
<1>2. PICK body : body = IF Ends(q) THEN SubSeq(q, 1, Len(q) - 1) ELSE q
  OBVIOUS
<1>3. x.body = body /\ (x.start <=> ~Starts(p)) /\ (x.end <=> ~Ends(q))
  BY <1>1, <1>2 DEF ConvertSQLLikeToRegex
<1>4. PICK d \in {0, 1} : /\ q \in Seq(STRING) /\ Len(q) = Len(p) - d
                          /\ (\A i \in 1..Len(q) : q[i] = p[i + d]) /\ (~Starts(p) => d = 0)
  <2>1. CASE Starts(p)
    <3>1. q = Tail(p) /\ p # <<>>
      BY <1>1, <2>1 DEF Starts
    <3>2. q \in Seq(STRING) /\ Len(q) = Len(p) - 1 /\ \A i \in 1..Len(q) : q[i] = p[i + 1]
      BY <3>1
    <3> QED BY <2>1, <3>2
  <2>2. CASE ~Starts(p)
    <3>1. q = p
      BY <1>1, <2>2
    <3>2. q \in Seq(STRING) /\ Len(q) = Len(p) - 0 /\ \A i \in 1..Len(q) : q[i] = p[i + 0]
      BY <3>1
    <3> QED BY <2>2, <3>2
  <2> QED BY <2>1, <2>2
<1>5. PICK e \in {0, 1} : /\ Len(body) \in Nat /\ Len(body) = Len(q) - e
                          /\ (\A i \in 1..Len(body) : body[i] = q[i]) /\ (~Ends(q) => e = 0)
  <2>1. CASE Ends(q)
    <3>1. body = SubSeq(q, 1, Len(q) - 1) /\ q # <<>>
      BY <1>2, <2>1 DEF Ends
    <3>2. Len(body) \in Nat /\ Len(body) = Len(q) - 1 /\ \A i \in 1..Len(body) : body[i] = q[i]
      BY <1>4, <3>1
    <3> QED BY <2>1, <3>2
  <2>2. CASE ~Ends(q)
    <3>1. body = q
      BY <1>2, <2>2
    <3>2. Len(body) \in Nat /\ Len(body) = Len(q) - 0 /\ \A i \in 1..Len(body) : body[i] = q[i]
      BY <1>4, <3>1
    <3> QED BY <2>2, <3>2
  <2> QED BY <2>1, <2>2
<1>6. Len(body) = Len(p) - d - e
  BY <1>4, <1>5
<1>7. \A i \in 1..Len(body) : body[i] = p[i + d]
  BY <1>4, <1>5
<1> QED BY <1>3, <1>4, <1>5, <1>6, <1>7

LEMMA LikeIsRegex ==
    ASSUME NEW p \in Seq(STRING), NEW s, Like(p, s)
    PROVE  RegexMatches(ConvertSQLLikeToRegex(p), s)
<1>1. PICK x : x = ConvertSQLLikeToRegex(p)
  OBVIOUS
<1>2. PICK d, e \in {0, 1} :
             /\ Len(x.body) \in Nat /\ Len(x.body) = Len(p) - d - e
             /\ \A i \in 1..Len(x.body) : x.body[i] = p[i + d]
             /\ (x.start => d = 0) /\ (x.end => e = 0)
  BY <1>1, RegexIsPart
<1>3. PICK cut \in Cuts(p, s) :
        /\ cut[1] = 1 /\ cut[Len(p) + 1] = Len(s) + 1
        /\ \A i \in 1..Len(p) :
             IF p[i] = "%" THEN cut[i] <= cut[i + 1]
             ELSE cut[i + 1] = cut[i] + 1 /\ p[i] \in {"_", s[cut[i]]}
  BY DEF Like
<1>r. PICK R : R = 1..(Len(s) + 1)
  OBVIOUS
<1>4. PICK k \in Nat, l \in Nat : k = Len(x.body) /\ l = Len(p) /\ k = l - d - e /\ R = 1..(Len(s) + 1)
  <2>1. Len(p) \in Nat
    OBVIOUS
  <2> QED BY <1>2, <1>r, <2>1
<1>5. PICK t : t = [i \in 1..(k + 1) |-> cut[i + d]]
  OBVIOUS
<1>6. cut \in [1..(l + 1) -> R]
  BY <1>3, <1>4 DEF Cuts
<1>7. ASSUME NEW i \in 1..(k + 1) PROVE t[i] \in R
  <2>1. i + d \in 1..(l + 1)
    BY <1>4
  <2> QED BY <1>5, <1>6, <2>1
<1>8. t \in Cuts(x.body, s)
  BY <1>4, <1>5, <1>7 DEF Cuts
<1>9. x.start => t[1] = 1
  <2>1. 1 \in 1..(k + 1) /\ 1 + 0 = 1
    BY <1>4
  <2>2. t[1] = cut[1 + d]
    BY <1>5, <2>1
  <2> QED BY <1>2, <1>3, <2>1, <2>2
<1>10. x.end => t[k + 1] = Len(s) + 1
  <2>1. k + 1 \in 1..(k + 1) /\ (e = 0 => k + 1 + d = l + 1)
    BY <1>4
  <2> QED BY <1>2, <1>3, <1>4, <1>5, <2>1
<1>11. ASSUME NEW i \in 1..k
       PROVE  IF x.body[i] = "%" THEN t[i] <= t[i + 1]
              ELSE /\ t[i + 1] = t[i] + 1
                   /\ x.body[i] \in {"_", "."} \/ EqualFold(x.body[i], s[t[i]])
  <2>1. PICK j \in 1..l : j = i + d /\ i \in 1..(k + 1) /\ i + 1 \in 1..(k + 1) /\ (i + 1) + d = j + 1
    <3>1. i + d \in 1..l /\ i \in 1..(k + 1) /\ i + 1 \in 1..(k + 1) /\ (i + 1) + d = (i + d) + 1
      BY <1>4
    <3> QED BY <3>1
  <2>2. t[i] = cut[j] /\ t[i + 1] = cut[j + 1]
    BY <1>5, <2>1
  <2>3. x.body[i] = p[j]
    BY <1>2, <1>4, <2>1
  <2>4. IF p[j] = "%" THEN cut[j] <= cut[j + 1]
        ELSE cut[j + 1] = cut[j] + 1 /\ p[j] \in {"_", s[cut[j]]}
    BY <1>3, <1>4, <2>1
  <2> QED BY <2>2, <2>3, <2>4 DEF EqualFold
<1> QED BY <1>1, <1>4, <1>8, <1>9, <1>10, <1>11 DEF RegexMatches

LEMMA ConvertLike ==
    ASSUME NEW c, Used(c) = {"like"}, c.like[1].kind \in Strings,
           NEW M, M = ConvertFilterConditionToMongoFilter(c)
    PROVE  DOMAIN M = {"$regex"} /\ M["$regex"] = <<c.like[1]>>
<1>1. c.like # <<>> /\ \A op \in Operators : op # "like" => c[op] = <<>>
  BY UsedOnly
<1>2. /\ c.gt = <<>> /\ c.gte = <<>> /\ c.lt = <<>> /\ c.lte = <<>> /\ c.between = <<>>
      /\ c.eq = <<>> /\ c.in = <<>> /\ c.nin = <<>> /\ c.ne = <<>>
  BY <1>1 DEF Operators
<1>3. (IF Len(c.eq) > 1 THEN Put(<<>>, "$in", c.eq) ELSE <<>>) = <<>>
  BY <1>2, PutNothing
<1>4. ApplyMongoComparisonOperators(<<>>, c) = <<>>
  BY <1>2, NothingCompared, PutNothing
<1>5. ApplyMongoNotEquals(<<>>, c) = <<>>
  BY <1>2, NoExclusion
<1>6. PICK s, m : s = <<c.like[1]>> /\ m = Put(<<>>, "$regex", s)
  OBVIOUS
<1>7. ApplyMongoLikePattern(<<>>, c) = m
  BY <1>1, <1>6 DEF ApplyMongoLikePattern
<1>8. s # <<>>
  BY <1>6, OneIsSome
<1>9. DOMAIN m = {"$regex"} /\ m["$regex"] = s
  BY <1>6, <1>8, PutOne
<1>10. M = IF DOMAIN m = {} THEN Put(<<>>, "$eq", c.eq) ELSE m
  BY <1>3, <1>4, <1>5, <1>7 DEF ConvertFilterConditionToMongoFilter
<1> QED BY <1>6, <1>9, <1>10

LEMMA EvaluatesRegex ==
    ASSUME NEW d, NEW f, NEW s
    PROVE  Evaluates(d, f, "$regex", s)
             <=> /\ ValueIn(d, f).kind = "text"
                 /\ RegexMatches(ConvertSQLLikeToRegex(Patterns[s[1].at]), Texts[ValueIn(d, f).at])
BY Zenon DEF Evaluates, ValueIn

(* What can be said to Mongo is not said too strongly. *)
LEMMA MeetsPasses ==
    ASSUME NEW c, IsCondition(c), Mongoable(c), Len(c.like) <= 1, \A x \in Range(c.like) : x.kind \in Strings,
           ~IsFilterConditionEmpty(c), ValidateFilterCondition(c),
           NEW d, NEW f, NEW v \in Value, v = ValueIn(d, f), Meets(v, c, FALSE),
           NEW M, M = ConvertFilterConditionToMongoFilter(c)
    PROVE  \A k \in DOMAIN M : Evaluates(d, f, k, M[k])
<1>1. CASE c.like = <<>>
  BY <1>1, OperatorsMeet
<1>2. CASE c.like # <<>>
  <2>1. c.like \in Seq(Value) /\ Len(c.like) \in {0, 1}
    <3>1. c.like \in Seq(Value)
      BY DEF IsCondition, Operators
    <3> QED BY <3>1, AtMostOne
  <2>2. PICK p : p = c.like[1]
    OBVIOUS
  <2>3. Range(c.like) = {p}
    BY <1>2, <2>1, <2>2, RangeOfOne
  <2>4. p.kind \in Strings /\ p.at \in DOMAIN Patterns
    BY <2>3 DEF IsCondition
  <2>5. Patterns[p.at] \in Seq(STRING)
    BY <2>4, WordsAssumption
  <2>6. Used(c) = {"like"}
    <3>1. "like" \in Used(c)
      BY <1>2 DEF Used, Operators
    <3>2. (\E op \in Operators : Used(c) = {op}) \/ Used(c) \subseteq Comparisons
      BY DEF Mongoable, Used, Comparisons
    <3> QED BY <3>1, <3>2 DEF Comparisons
  <2>7. DOMAIN M = {"$regex"} /\ M["$regex"] = <<p>>
    BY <2>2, <2>4, <2>6, ConvertLike
  <2>8. Matches(v, p)
    <3>1. \A x \in Range(c.like) : Matches(v, x)
      BY Zenon DEF Meets
    <3> QED BY <2>3, <3>1
  <2>9. v.kind = "text" /\ RegexMatches(ConvertSQLLikeToRegex(Patterns[p.at]), Texts[v.at])
    BY <2>5, <2>8, LikeIsRegex DEF Matches
  <2>10. PICK s : s = <<p>> /\ s[1] = p
    BY FirstOfOne
  <2>11. Evaluates(d, f, "$regex", s)
    BY <2>9, <2>10, EvaluatesRegex
  <2> QED BY <2>7, <2>10, <2>11
<1> QED BY <1>1, <1>2

(* A condition that can be said to Mongo, and that a document meets in f. *)
MetIn(d, f, c) ==
    /\ IsCondition(c) /\ Mongoable(c) /\ Len(c.like) <= 1 /\ \A x \in Range(c.like) : x.kind \in Strings
    /\ f \in DOMAIN d /\ d[f] \in Value /\ Meets(d[f], c, FALSE)

LEMMA MetPasses ==
    ASSUME NEW d, NEW f, NEW c, MetIn(d, f, c), ~IsFilterConditionEmpty(c), ValidateFilterCondition(c),
           NEW M, M = ConvertFilterConditionToMongoFilter(c)
    PROVE  \A k \in DOMAIN M : Evaluates(d, f, k, M[k])
<1>1. PICK v \in Value : v = d[f] /\ v = ValueIn(d, f) /\ Meets(v, c, FALSE)
  BY DEF MetIn, ValueIn
<1>2. IsCondition(c) /\ Mongoable(c) /\ Len(c.like) <= 1 /\ \A x \in Range(c.like) : x.kind \in Strings
  BY DEF MetIn
<1> QED BY <1>1, <1>2, MeetsPasses

LEMMA MongoFinds ==
    ASSUME NEW b, NEW tables, NEW filters, NEW n,
           NEW answer, answer = Query(b, tables, filters, n), answer # Failed,
           NEW filter, filter = GetCollectionFilters(filters, n),
           NEW r \in Documents(b, n), \A f \in DOMAIN filter : MetIn(r, f, filter[f])
    PROVE  r \in answer.rows
<1>1. CASE DOMAIN filter = {}
  BY <1>1 DEF Query, QueryAll
<1>2. CASE DOMAIN filter # {}
  <2>1. answer = QueryWithAdvancedFilters(b, n, tables[n], filter)
    BY <1>2 DEF Query
  <2>2. /\ \A f \in DOMAIN filter : ~IsFilterConditionEmpty(filter[f]) => ValidateFilterCondition(filter[f])
        /\ r \in answer.rows <=>
             /\ r \in Documents(b, n)
             /\ \A f \in DOMAIN filter : ~IsFilterConditionEmpty(filter[f]) =>
                  \A k \in DOMAIN ConvertFilterConditionToMongoFilter(filter[f]) :
                    Evaluates(r, f, k, ConvertFilterConditionToMongoFilter(filter[f])[k])
    BY <2>1, MongoAnswer
  <2>3. ASSUME NEW f \in DOMAIN filter, ~IsFilterConditionEmpty(filter[f])
        PROVE  \A k \in DOMAIN ConvertFilterConditionToMongoFilter(filter[f]) :
                 Evaluates(r, f, k, ConvertFilterConditionToMongoFilter(filter[f])[k])
    BY <2>2, <2>3, MetPasses
  <2> QED BY <2>2, <2>3
<1> QED BY <1>1, <1>2

-----------------------------------------------------------------------------
(* The CRM: a document that meets the conditions is found by its hashes.     *)

MetInCRM(d, f, c) ==
    /\ IsCondition(c) /\ Mongoable(c) /\ Len(c.like) <= 1 /\ \A x \in Range(c.like) : x.kind \in Strings
    /\ f \notin Range(SearchFields) /\ (f \in EncryptedFields => Searchable(c, f))
    /\ f \in DOMAIN d /\ d[f] \in Value /\ d[f] # Null
    /\ Meets(DecryptFieldValue(d[f]), c, FALSE)

LEMMA NothingHashed ==
    ASSUME NEW c, IsCondition(c), IsFilterConditionEmpty(c)
    PROVE  IsFilterConditionEmpty(HashedCondition(c))
<1>1. PICK h : h = HashedCondition(c)
  OBVIOUS
<1>2. ASSUME NEW op \in Operators PROVE h[op] = <<>>
  <2>1. h[op] = IF op \in {"ne", "like"} THEN <<>> ELSE HashFilterValues(c[op])
    BY <1>1 DEF HashedCondition
  <2>2. HashFilterValues(c[op]) = <<>>
    BY HashesNothing DEF IsCondition, IsFilterConditionEmpty
  <2> QED BY <2>1, <2>2
<1> QED BY <1>1, <1>2 DEF IsFilterConditionEmpty

LEMMA CrmHashFinds ==
    ASSUME NEW d, DocumentOf(d), NEW f \in DOMAIN SearchFields, NEW c, MetInCRM(d, f, c),
           ~IsFilterConditionEmpty(HashedCondition(c)),
           NEW M, M = ConvertFilterConditionToMongoFilter(HashedCondition(c))
    PROVE  \A k \in DOMAIN M : Evaluates(d, SearchFields[f], k, M[k])
<1>1. PICK g, i : g = SearchFields[f] /\ i = d[f].at
  OBVIOUS
<1>2. IsCondition(c) /\ Mongoable(c) /\ f \in DOMAIN d /\ d[f] # Null /\ Meets(DecryptFieldValue(d[f]), c, FALSE)
  BY DEF MetInCRM
<1>3. Searchable(c, f)
  BY SearchFieldsDiffer DEF MetInCRM
<1>4. ~IsFilterConditionEmpty(c)
  BY <1>2, NothingHashed
<1>5. d[f].kind = "cipher" /\ i \in DOMAIN HashOf /\ ValueIn(d, g) = V("hash", HashOf[i])
  BY <1>1, <1>2 DEF DocumentOf, ValueIn
<1>6. DecryptFieldValue(d[f]) = V("text", i)
  BY <1>1, <1>5 DEF DecryptFieldValue
<1>7. Meets(V("text", i), c, FALSE)
  BY <1>2, <1>6
<1>8. \A k \in DOMAIN M : Evaluates(d, g, k, M[k])
  BY <1>2, <1>3, <1>4, <1>5, <1>7, HashedMeets
<1> QED BY <1>1, <1>8

LEMMA CrmPlainFinds ==
    ASSUME NEW d, DocumentOf(d), NEW f, f \notin DOMAIN SearchFields, NEW c, MetInCRM(d, f, c)
    PROVE  MetIn(d, f, c)
<1>1. f \notin EncryptedFields
  BY DEF MetInCRM, Searchable
<1>2. f \in DOMAIN d /\ d[f].kind # "cipher"
  BY <1>1 DEF MetInCRM, DocumentOf
<1>3. DecryptFieldValue(d[f]) = d[f]
  BY <1>2 DEF DecryptFieldValue
<1>4. Meets(d[f], c, FALSE)
  BY <1>3 DEF MetInCRM
<1> QED BY <1>4 DEF MetInCRM, MetIn

LEMMA CrmCollectionFinds ==
    ASSUME NEW b, NEW n, NEW fields, NEW filter, NEW keys, NEW answer,
           answer = QueryPluginCRMCollection(b, n, fields, filter, keys), answer # Failed,
           NEW d \in Documents(b, <<n>>), DocumentOf(d),
           \A f \in DOMAIN filter : MetInCRM(d, f, filter[f])
    PROVE  d \in answer.rows
<1>1. CASE DOMAIN filter = {}
  BY <1>1 DEF QueryPluginCRMCollection, QueryAll
<1>2. CASE DOMAIN filter # {}
  <2>1. PICK T : T = TransformPluginCRMAdvancedFilters(filter)
    OBVIOUS
  <2>2. answer = QueryWithAdvancedFilters(b, <<n>>, fields, T)
    BY <1>2, <2>1 DEF QueryPluginCRMCollection
  <2>t. /\ DOMAIN T = {SearchFields[x] : x \in DOMAIN filter \cap DOMAIN SearchFields}
                        \cup (DOMAIN filter \ DOMAIN SearchFields)
        /\ \A e \in DOMAIN filter \cap DOMAIN SearchFields :
             T[SearchFields[e]] = HashedCondition(filter[e])
        /\ \A e \in DOMAIN filter \ DOMAIN SearchFields : T[e] = filter[e]
    <3>1. \A e \in DOMAIN filter : e \notin Range(SearchFields)
      BY DEF MetInCRM
    <3> QED BY ONLY <2>1, <3>1, TransformIs
  <2>3. /\ \A f \in DOMAIN T : ~IsFilterConditionEmpty(T[f]) => ValidateFilterCondition(T[f])
        /\ d \in answer.rows <=>
             /\ d \in Documents(b, <<n>>)
             /\ \A f \in DOMAIN T : ~IsFilterConditionEmpty(T[f]) =>
                  \A k \in DOMAIN ConvertFilterConditionToMongoFilter(T[f]) :
                    Evaluates(d, f, k, ConvertFilterConditionToMongoFilter(T[f])[k])
    BY <2>2, MongoAnswer
  <2>4. ASSUME NEW g \in DOMAIN T, ~IsFilterConditionEmpty(T[g])
        PROVE  \A k \in DOMAIN ConvertFilterConditionToMongoFilter(T[g]) :
                 Evaluates(d, g, k, ConvertFilterConditionToMongoFilter(T[g])[k])
    <3>1. CASE g \in DOMAIN filter \ DOMAIN SearchFields
      <4>1. T[g] = filter[g] /\ MetIn(d, g, filter[g])
        BY <2>t, <3>1, CrmPlainFinds
      <4>2. PICK c, M : c = filter[g] /\ M = ConvertFilterConditionToMongoFilter(c)
        OBVIOUS
      <4>3. \A k \in DOMAIN M : Evaluates(d, g, k, M[k])
        BY <2>3, <2>4, <4>1, <4>2, MetPasses
      <4> QED BY <4>1, <4>2, <4>3
    <3>2. ASSUME NEW e \in DOMAIN filter \cap DOMAIN SearchFields, g = SearchFields[e]
          PROVE  \A k \in DOMAIN ConvertFilterConditionToMongoFilter(T[g]) :
                   Evaluates(d, g, k, ConvertFilterConditionToMongoFilter(T[g])[k])
      <4>1. PICK c, M : c = filter[e] /\ M = ConvertFilterConditionToMongoFilter(HashedCondition(c))
        OBVIOUS
      <4>2. T[g] = HashedCondition(c) /\ MetInCRM(d, e, c) /\ e \in DOMAIN SearchFields
        BY <2>t, <3>2, <4>1
      <4>3. \A k \in DOMAIN M : Evaluates(d, SearchFields[e], k, M[k])
        BY <2>4, <4>1, <4>2, CrmHashFinds
      <4> QED BY <3>2, <4>1, <4>2, <4>3
    <3> QED BY <2>t, <3>1, <3>2
  <2> QED BY <2>3, <2>4
<1> QED BY <1>1, <1>2

(* The fields, the rows of every matching collection, and no cipher. *)
LEMMA CrmAnswer ==
    ASSUME NEW b, NEW logical, NEW fields, NEW filter, NEW keys, NEW answer,
           answer = QueryPluginCRM(b, logical, fields, filter, keys), answer # Failed
    PROVE  /\ answer.fields = fields
           /\ \A m \in MatchingCollections(b, logical) : \E a :
                /\ a = QueryPluginCRMCollection(b, m, fields, filter, keys) /\ a # Failed
                /\ a.rows \subseteq answer.rows
           /\ \A e \in answer.clear : \E r \in answer.rows :
                e = DecryptRecord([f \in Projected(r, fields) |-> r[f]])
<1>1. PICK matching : matching = MatchingCollections(b, logical)
  OBVIOUS
<1>2. PICK A : A = {QueryPluginCRMCollection(b, m, fields, filter, keys) : m \in matching}
  OBVIOUS
<1>3. PICK docs : docs = UNION {a.rows : a \in A}
  OBVIOUS
<1>p. PICK parts : parts = {[f \in Projected(d, fields) |-> d[f]] : d \in docs}
  OBVIOUS
<1>4. PICK clear : clear = DecryptPluginCRMData(parts, keys)
  OBVIOUS
<1>5. answer = ProcessPluginCRMCollection(b, matching, fields, filter, keys)
  BY <1>1 DEF QueryPluginCRM
<1>6. answer = IF Failed \in A \/ clear = Failed THEN Failed
               ELSE [fields |-> fields, rows |-> docs, clear |-> clear]
  BY <1>2, <1>3, <1>p, <1>4, <1>5, Zenon DEF ProcessPluginCRMCollection
<1>7. Failed \notin A /\ clear # Failed /\ answer = [fields |-> fields, rows |-> docs, clear |-> clear]
  BY <1>6
<1>8. answer.rows = docs /\ answer.fields = fields /\ answer.clear = clear
  BY <1>7
<1>9. ASSUME NEW m \in matching
      PROVE  \E a : /\ a = QueryPluginCRMCollection(b, m, fields, filter, keys) /\ a # Failed
                    /\ a.rows \subseteq docs
  <2>1. PICK a \in A : a = QueryPluginCRMCollection(b, m, fields, filter, keys)
    BY <1>2
  <2> QED BY <1>3, <1>7, <2>1
<1>10. ASSUME NEW e \in clear
       PROVE  \E r \in docs : e = DecryptRecord([f \in Projected(r, fields) |-> r[f]])
  <2>1. clear = {} \/ clear = {DecryptRecord(d) : d \in parts}
    BY <1>4, <1>7 DEF DecryptPluginCRMData
  <2>2. PICK p \in parts : e = DecryptRecord(p)
    BY <2>1
  <2> QED BY <1>p, <2>2
<1> QED BY <1>1, <1>8, <1>9, <1>10

LEMMA ClearHasNoCipher ==
    ASSUME NEW r, DocumentOf(r), NEW fields,
           NEW e, e = DecryptRecord([f \in Projected(r, fields) |-> r[f]]), NEW f \in DOMAIN e
    PROVE  e[f].kind # "cipher"
<1>1. PICK p : p = [g \in Projected(r, fields) |-> r[g]]
  OBVIOUS
<1>2. f \in Projected(r, fields) /\ e[f] = IF f \in EncryptedFields THEN DecryptFieldValue(p[f]) ELSE p[f]
  BY <1>1 DEF DecryptRecord
<1>3. p[f] = r[f] /\ f \in DOMAIN r
  BY <1>1, <1>2 DEF Projected
<1>4. r[f].kind = "cipher" => f \in EncryptedFields
  BY <1>3 DEF DocumentOf
<1>5. DecryptFieldValue(r[f]).kind # "cipher"
  BY DEF DecryptFieldValue, V
<1> QED BY <1>2, <1>3, <1>4, <1>5

-----------------------------------------------------------------------------
(* What is selected are the fields planned: no field is called *.            *)

LEMMA PostgresSelects ==
    ASSUME NEW b, NEW tables, NEW filters, NEW n, tables[n] # {"*"},
           NEW answer, answer = PG!Query(b, tables, filters, n), answer # Failed
    PROVE  answer.fields = tables[n]
<1>1. PICK filter, S : filter = PG!GetTableFilters(filters, n) /\ S = PostgresSchema(b, tables)
  OBVIOUS
<1>2. PICK applied : applied = PG!FilteredFields(S, n, filter)
  OBVIOUS
<1>3. answer.fields = PG!ValidateTableAndFields(S, n, tables[n]) /\ answer.fields # {}
  BY <1>1, <1>2, PostgresAnswer
<1> QED BY <1>3 DEF PG!ValidateTableAndFields

LEMMA MySQLSelects ==
    ASSUME NEW b, NEW tables, NEW filters, NEW n, tables[n] # {"*"},
           NEW answer, answer = MY!Query(b, tables, filters, n), answer # Failed
    PROVE  answer.fields = tables[n]
<1>1. PICK filter, S : filter = MY!GetTableFilters(filters, n) /\ S = MySQLSchema(b, tables)
  OBVIOUS
<1>2. PICK applied : applied = MY!FilteredFields(S, n, filter)
  OBVIOUS
<1>3. answer.fields = MY!ValidateTableAndFields(S, n, tables[n]) /\ answer.fields # {}
  BY <1>1, <1>2, MySQLAnswer
<1> QED BY <1>3 DEF MY!ValidateTableAndFields

LEMMA SQLServerSelects ==
    ASSUME NEW b, NEW tables, NEW filters, NEW n, tables[n] # {"*"},
           NEW answer, answer = MS!Query(b, tables, filters, n), answer # Failed
    PROVE  answer.fields = tables[n]
<1>1. PICK filter, S : filter = MS!GetTableFilters(filters, n) /\ S = SQLServerSchema(b, tables)
  OBVIOUS
<1>2. PICK applied : applied = MS!FilteredFields(S, n, filter)
  OBVIOUS
<1>3. answer.fields = MS!ValidateTableAndFields(S, n, tables[n]) /\ answer.fields # {}
  BY <1>1, <1>2, SQLServerAnswer
<1> QED BY <1>3 DEF MS!ValidateTableAndFields

(* Oracle's columns are the fields in upper case. *)
LEMMA OracleSelects ==
    ASSUME NEW b, \A x \in b : TableOf("ORACLE", x), NEW tables, NEW filters, NEW n, tables[n] # {"*"},
           \A f \in tables[n] : Upper[f] = f,
           NEW answer, answer = OR!Query(b, tables, filters, n), answer # Failed
    PROVE  tables[n] \subseteq answer.fields
<1>1. PICK filter, S : filter = OR!GetTableFilters(filters, n) /\ S = OracleSchema(b, tables)
  OBVIOUS
<1>2. PICK applied : applied = OR!FilteredFields(S, n, filter)
  OBVIOUS
<1>3. answer.fields = OR!ValidateTableAndFields(S, n, tables[n]) /\ answer.fields # {}
  BY <1>1, <1>2, OracleAnswer
<1>4. PICK k, C : k = OR!NormalizeTableNameForLookup(n, CurrentSchema) /\ C = OR!ColumnsOf(S, k)
  OBVIOUS
<1>5. ASSUME NEW col \in C PROVE Upper[col] = col
  <2>1. PICK y \in b : col \in y.columns
    BY <1>1, <1>4, OracleColumnsAreTables
  <2> QED BY <2>1, OracleTable
<1>6. /\ \A f \in tables[n] : \E col \in C : Upper[col] = Upper[f]
      /\ answer.fields = {col \in C : \E f \in tables[n] : Upper[col] = Upper[f]}
  BY <1>3, <1>4 DEF OR!ValidateTableAndFields, OR!EqualFold
<1>7. ASSUME NEW f \in tables[n] PROVE f \in answer.fields
  <2>1. PICK col \in C : Upper[col] = Upper[f]
    BY <1>6
  <2>2. col = f
    BY <1>5, <2>1
  <2> QED BY <1>6, <2>1, <2>2
<1> QED BY <1>7

LEMMA MongoSelects ==
    ASSUME NEW b, NEW tables, NEW filters, NEW n, tables[n] # {"*"},
           NEW answer, answer = Query(b, tables, filters, n), answer # Failed
    PROVE  tables[n] \subseteq answer.fields
<1>1. PICK filter, docs : filter = GetCollectionFilters(filters, n) /\ docs = Documents(b, n)
  OBVIOUS
<1>2. tables[n] \subseteq Projection(docs, tables[n])
  BY DEF Projection
<1>3. answer.fields = Projection(docs, tables[n])
  <2>1. CASE DOMAIN filter = {}
    BY <1>1, <2>1 DEF Query, QueryAll
  <2>2. CASE DOMAIN filter # {}
    <3>1. answer = QueryWithAdvancedFilters(b, n, tables[n], filter)
      BY <1>1, <2>2 DEF Query
    <3> QED BY <1>1, <3>1, MongoAnswer
  <2> QED BY <2>1, <2>2
<1> QED BY <1>2, <1>3

(* Nothing that is called * is found. *)
LEMMA NothingIsStar ==
    ASSUME NEW t \in D!DBTypes, NEW scope, NEW schema \in SchemaInfos(t, scope), NEW snapshot,
           snapshot = Snapshot(t, schema), NEW n \in DOMAIN snapshot
    PROVE  ~Has(snapshot[n], "*")
<1>0. PICK b : b = Databases[t] /\ \A x \in b : TableOf(t, x)
  BY DatabasesAssumption
<1>1. "*" \notin snapshot[n]
  <2>a. \A f \in snapshot[n] : \E m \in DOMAIN schema :
          n = NormalizeTable(t, m) /\ \E g \in schema[m] : f = NormalizeField(t, g)
    BY SnapshotOf
  <2>b. t # "ORACLE" => \A f \in snapshot[n] : \E m \in DOMAIN schema : f \in schema[m]
    BY <2>a DEF NormalizeField, FoldsFieldCase
  <2>1. CASE t = "POSTGRESQL"
    <3>1. schema = PG!GetDatabaseSchema(b, scope)
      BY <1>0, <2>1 DEF SchemaInfos, PG!GetSchemaInfo
    <3>2. \A m \in DOMAIN schema : \A f \in schema[m] : \E x \in b : f \in x.columns
      BY <3>1 DEF PG!GetDatabaseSchema, PG!BuildTableSchema
    <3> QED BY <1>0, <2>b, <2>1, <3>2 DEF TableOf
  <2>2. CASE t = "MYSQL"
    <3>1. schema = MY!GetDatabaseSchema(b)
      BY <1>0, <2>2 DEF SchemaInfos, MY!GetSchemaInfo
    <3>2. \A m \in DOMAIN schema : \A f \in schema[m] : \E x \in b : f \in x.columns
      BY <3>1 DEF MY!GetDatabaseSchema, MY!BuildTableSchema
    <3> QED BY <1>0, <2>b, <2>2, <3>2 DEF TableOf
  <2>3. CASE t = "SQL_SERVER"
    <3>1. schema = MS!GetDatabaseSchema(b, scope)
      BY <1>0, <2>3 DEF SchemaInfos, MS!GetSchemaInfo
    <3>2. \A m \in DOMAIN schema : \A f \in schema[m] : \E x \in b : f \in x.columns
      BY <3>1 DEF MS!GetDatabaseSchema, MS!BuildTableSchema
    <3> QED BY <1>0, <2>b, <2>3, <3>2 DEF TableOf
  <2>4. CASE t = "ORACLE"
    <3>1. schema = OR!GetSchemaInfo(b, scope) /\ \A x \in b : TableOf("ORACLE", x)
      BY <1>0, <2>4 DEF SchemaInfos
    <3>2. PICK found : found = OR!GetDatabaseSchema(b, scope)
      OBVIOUS
    <3>3. snapshot = Snapshot("ORACLE", OR!GetSchemaInfo(b, scope)) /\ n \in DOMAIN snapshot
      BY <2>4, <3>1
    <3>4. n \in DOMAIN found /\ \A f \in snapshot[n] : f \in found[n]
      BY ONLY <3>1, <3>2, <3>3, OracleSnapshot
    <3>5. \A f \in found[n] : \E x \in b : f \in x.columns
      BY <3>2, <3>4 DEF OR!GetDatabaseSchema, OR!BuildTableSchema
    <3> QED BY <3>1, <3>4, <3>5 DEF TableOf
  <2>5. CASE t = "MONGODB"
    <3>1. schema \in GetSchemaInfos(b)
      BY <1>0, <2>5 DEF SchemaInfos
    <3>2. \A m \in DOMAIN schema : \A f \in schema[m] : \E x \in b : \E d \in x.rows :
             \E g \in DOMAIN d : f = TopLevel[g]
      BY <3>1, MongoSchemaOf
    <3> QED BY <1>0, <2>b, <2>5, <3>2 DEF TableOf
  <2> QED BY <2>1, <2>2, <2>3, <2>4, <2>5 DEF D!DBTypes
<1>2. ASSUME NEW g, <<"*", g>> \in Prefixes PROVE FALSE
  <2>1. PICK p \in Prefixes : p = <<"*", g>>
    BY <1>2
  <2>2. p[1] = "*"
    BY <2>1
  <2> QED BY <2>1, <2>2, WordsAssumption
<1> QED BY <1>1, <1>2 DEF Has

(* No plan that was accepted asks for *. *)
LEMMA PlanHasNoStar ==
    ASSUME PathInv, PlanAccepted, phase = "planned", NEW n \in DOMAIN job.selection
    PROVE  "*" \notin job.selection[n]
<1>1. type \in D!DBTypes
  BY DEF PathInv, TypeKnown, Planned
<1>2. PICK scope, schema, snapshot :
        /\ scope = SchemaArg(job.scope, conn) /\ schema \in SchemaInfos(type, scope)
        /\ snapshot = Snapshot(type, schema) /\ InSnapshot(job.selection, snapshot)
  BY DEF PlanAccepted
<1>3. n \in DOMAIN snapshot /\ \A f \in job.selection[n] : Has(snapshot[n], f)
  BY <1>2 DEF InSnapshot
<1>4. ~Has(snapshot[n], "*")
  BY <1>1, <1>2, <1>3, NothingIsStar
<1> QED BY <1>3, <1>4

-----------------------------------------------------------------------------
(* The rows of a table that meet what the request says of them.              *)

MeetsRequest(n, r) ==
    \A f \in FilteredOn(n) : \A c \in Stated(n, f) :
        ValueOf(r, f) # Null /\ Expressible(c, f) /\ Meets(ValueOf(r, f), c, Dated(f))

(* The filters that a driver reads: those of the table or none. *)
OwnFilters(n, filter) == filter = <<>> \/ (n \in DOMAIN FiltersForConfig /\ filter = FiltersForConfig[n])

LEMMA OwnFilterMet ==
    ASSUME PathInv, phase = "done", ~IsCRM, NEW n, NEW r, \A f \in DOMAIN r : r[f] \in Value,
           MeetsRequest(n, r), NEW filter, OwnFilters(n, filter), NEW f \in DOMAIN filter
    PROVE  /\ type # "MONGODB" => MetBy(r, f, filter[f])
           /\ type = "MONGODB" => MetIn(r, f, filter[f])
<1>1. n \in DOMAIN FiltersForConfig /\ filter = FiltersForConfig[n]
  BY EmptyMap DEF OwnFilters
<1>2. n \in DOMAIN job.filters /\ filter = job.filters[n]
  BY <1>1 DEF FiltersForConfig
<1>3. FiltersMapped
  BY DEF PathInv, JobMapped, Planned
<1>4. f \in FilteredOn(n) /\ filter[f] \in Stated(n, f)
  BY <1>2, <1>3 DEF FiltersMapped
<1>5. PICK c : c = filter[f] /\ IsCondition(c)
  BY <1>4, FilteredRequest, StatedIsCondition
<1>6. ValueOf(r, f) # Null /\ Expressible(c, f) /\ Meets(ValueOf(r, f), c, Dated(f))
  BY <1>4, <1>5 DEF MeetsRequest
<1>7. f \in DOMAIN r /\ ValueOf(r, f) = r[f] /\ r[f] \in Value
  BY <1>6 DEF ValueOf
<1>8. Len(c.like) <= 1 /\ (\A x \in Range(c.like) : x.kind \in Strings) /\ (type = "MONGODB" => Mongoable(c))
  BY <1>6 DEF Expressible
<1>9. CASE type # "MONGODB"
  <2>1. Dated(f) = (Upper[f] = "CREATED_AT")
    BY <1>9 DEF Dated
  <2>2. Meets(r[f], c, Upper[f] = "CREATED_AT")
    BY <1>6, <1>7, <2>1
  <2>3. MetBy(r, f, c)
    BY <1>5, <1>6, <1>7, <1>8, <2>2 DEF MetBy
  <2> QED BY <1>5, <1>9, <2>3
<1>10. CASE type = "MONGODB"
  <2>1. Dated(f) = FALSE
    BY <1>10 DEF Dated
  <2>2. Meets(r[f], c, FALSE)
    BY <1>6, <1>7, <2>1
  <2>3. MetIn(r, f, c)
    BY <1>5, <1>7, <1>8, <1>10, <2>2 DEF MetIn
  <2> QED BY <1>5, <1>10, <2>3
<1> QED BY <1>9, <1>10

(* No name that is mapped has the default schema in front. *)
LEMMA DefaultIsDropped ==
    ASSUME NEW d \in Identifiers, NEW u, IsName(u), NEW w
    PROVE  NormalizeTableNameForLookup(u, d) # <<d, w>>
<1>1. u \in Seq(Identifiers) /\ u # <<>> /\ d # NoSchema
  BY WordsAssumption DEF IsName
<1>2. CASE Len(u) > 3
  <2>1. NormalizeTableNameForLookup(u, d) = u
    BY <1>2 DEF NormalizeTableNameForLookup
  <2>2. Len(<<d, w>>) = 2
    OBVIOUS
  <2> QED BY <1>2, <2>1, <2>2
<1>3. CASE Len(u) \in {1, 2, 3}
  <2>1. PICK s \in Identifiers \cup {NoSchema}, t \in Identifiers :
          NormalizeTableNameForLookup(u, d) =
            IF s = NoSchema \/ (d # NoSchema /\ EqualFold(s, d)) THEN <<t>> ELSE <<s, t>>
    BY <1>1, <1>3, ParsedName
  <2>2. EqualFold(d, d)
    BY DEF EqualFold
  <2> QED BY <1>1, <2>1, <2>2, PairEquals
<1> QED BY <1>1, <1>2, <1>3, ShortName

LEMMA NoDefaultFilter ==
    ASSUME PathInv, phase = "done", ~IsCRM, NEW d \in Identifiers,
           \A u : NormalizeTable(type, u) = NormalizeTableNameForLookup(u, d),
           NEW n, IsName(n), ~Qualified(n)
    PROVE  <<d>> \o n \notin DOMAIN FiltersForConfig
<1>1. SUFFICES ASSUME <<d>> \o n \in DOMAIN FiltersForConfig PROVE FALSE
  OBVIOUS
<1>2. FiltersMapped
  BY DEF PathInv, JobMapped, Planned
<1>3. <<d>> \o n \in DOMAIN job.filters
  BY <1>1 DEF FiltersForConfig
<1>4. PICK u \in DOMAIN request.filters : NormalizeTable(type, u) = <<d>> \o n
  BY <1>2, <1>3 DEF FiltersMapped
<1>5. request \in Requests
  BY <1>4, EmptyMap DEF PathInv, RequestKept
<1>6. IsName(u)
  BY <1>4, <1>5, RequestsAssumption
<1>7. n = <<n[1]>>
  <2>1. n \in Seq(Identifiers) /\ n # <<>> /\ ~(Len(n) > 1)
    BY DEF IsName, Qualified
  <2>2. PICK k \in Nat : k = Len(n)
    BY <2>1
  <2>3. k # 0 /\ ~(k > 1)
    BY <2>1, <2>2
  <2>4. k = 1
    BY <2>3
  <2>5. Len(n) = 1
    BY <2>2, <2>4
  <2> QED BY <2>5 DEF IsName
<1>8. PICK e, m : e = <<d>> /\ m = e \o n
  OBVIOUS
<1>9. PICK w : m = <<d, w>>
  <2>1. e \in Seq(Identifiers) /\ Len(e) = 1 /\ e[1] = d
    BY <1>8
  <2>2. n \in Seq(Identifiers) /\ Len(n) = 1
    BY <1>7 DEF IsName
  <2>a. /\ m \in Seq(Identifiers) /\ Len(m) = Len(e) + Len(n)
        /\ \A i \in 1..Len(e) + Len(n) : m[i] = IF i <= Len(e) THEN e[i] ELSE n[i - Len(e)]
    BY <1>8, <2>1, <2>2, ConcatProperties
  <2>b. 1 \in 1..Len(e) + Len(n) /\ 1 <= Len(e)
    BY <2>1, <2>2
  <2>3. m \in Seq(Identifiers) /\ Len(m) = 2 /\ m[1] = d
    BY <2>1, <2>2, <2>a, <2>b
  <2>4. m = <<m[1], m[2]>>
    BY <2>3
  <2> QED BY <2>3, <2>4
<1> QED BY <1>4, <1>6, <1>8, <1>9, DefaultIsDropped

LEMMA ReadsOwnFilters ==
    ASSUME PathInv, phase = "done", ~IsCRM, type \in D!DBTypes, NEW n, IsName(n), ~BorrowsFilters(n),
           NEW filters, filters = FiltersForConfig
    PROVE  /\ type = "POSTGRESQL" => OwnFilters(n, PG!GetTableFilters(filters, n))
           /\ type = "SQL_SERVER" => OwnFilters(n, MS!GetTableFilters(filters, n))
           /\ type = "MYSQL" => OwnFilters(n, MY!GetTableFilters(filters, n))
           /\ type = "ORACLE" => OwnFilters(n, OR!GetTableFilters(filters, n))
           /\ type = "MONGODB" => OwnFilters(n, GetCollectionFilters(filters, n))
<1>1. CASE type = "POSTGRESQL"
  <2>1. \A u : NormalizeTable(type, u) = NormalizeTableNameForLookup(u, "public")
    BY <1>1 DEF NormalizeTable, FoldsFieldCase, DefaultSchemaForType
  <2>2. "public" \in Identifiers
    BY WordsAssumption
  <2>3. ~Qualified(n) => <<"public">> \o n \notin DOMAIN filters
    BY <2>1, <2>2, NoDefaultFilter
  <2>4. n \notin DOMAIN filters /\ Qualified(n) => Tail(n) \notin DOMAIN filters
    BY <1>1 DEF BorrowsFilters
  <2>5. PG!GetTableFilters(filters, n) = IF n \in DOMAIN filters THEN filters[n] ELSE <<>>
    BY <2>3, <2>4, PostgresNames DEF PG!GetTableFilters, PG!SplitSchemaTable, PG!DefaultSchema
  <2> QED BY <1>1, <2>5 DEF OwnFilters
<1>2. CASE type = "SQL_SERVER"
  <2>1. \A u : NormalizeTable(type, u) = NormalizeTableNameForLookup(u, "dbo")
    BY <1>2 DEF NormalizeTable, FoldsFieldCase, DefaultSchemaForType
  <2>2. "dbo" \in Identifiers
    BY WordsAssumption
  <2>3. ~Qualified(n) => <<"dbo">> \o n \notin DOMAIN filters
    BY <2>1, <2>2, NoDefaultFilter
  <2>4. n \notin DOMAIN filters /\ Qualified(n) => Tail(n) \notin DOMAIN filters
    BY <1>2 DEF BorrowsFilters
  <2>5. MS!GetTableFilters(filters, n) = IF n \in DOMAIN filters THEN filters[n] ELSE <<>>
    BY <2>3, <2>4, SQLServerNames DEF MS!GetTableFilters, MS!SplitSchemaTable, MS!DefaultSchema
  <2> QED BY <1>2, <2>5 DEF OwnFilters
<1>3. /\ type = "MYSQL" => OwnFilters(n, MY!GetTableFilters(filters, n))
      /\ type = "ORACLE" => OwnFilters(n, OR!GetTableFilters(filters, n))
      /\ type = "MONGODB" => OwnFilters(n, GetCollectionFilters(filters, n))
  BY DEF OwnFilters, MY!GetTableFilters, OR!GetTableFilters, GetCollectionFilters
<1> QED BY <1>1, <1>2, <1>3

(* The rows at a name are the rows that the name denotes to a driver. *)
LEMMA RowsAtOwnName ==
    ASSUME NEW d \in Identifiers, NEW s \in Identifiers, NEW w \in Identifiers, EqualFold(s, d) => s = d,
           NEW n, NormalizeTableNameForLookup(<<s, w>>, d) = n
    PROVE  ParseQualifiedTableName(n, d) = <<s, w>>
<1>1. PICK u : u = <<s, w>>
  OBVIOUS
<1>2. u \in Seq(Identifiers) /\ Len(u) = 2 /\ u[1] = s /\ u[2] = w
  BY <1>1
<1>3. PICK s1 \in Identifiers \cup {NoSchema}, t1 \in Identifiers :
        /\ ParseQualifiedTableName(u, d) = <<s1, t1>>
        /\ NormalizeTableNameForLookup(u, d) =
             IF s1 = NoSchema \/ (d # NoSchema /\ EqualFold(s1, d)) THEN <<t1>> ELSE <<s1, t1>>
  BY <1>2, ParsedName
<1>4. ParseQualifiedTableName(u, d) = <<s, w>>
  BY <1>2 DEF ParseQualifiedTableName
<1>5. s1 = s /\ t1 = w
  BY <1>3, <1>4, PairEquals
<1>6. d # NoSchema /\ s # NoSchema /\ EqualFold(d, d)
  BY WordsAssumption DEF EqualFold
<1>7. n = IF s = d THEN <<w>> ELSE <<s, w>>
  BY <1>1, <1>3, <1>5, <1>6
<1>8. n = QualifyTableName(s, w, d)
  BY <1>7, QualifiedName
<1> QED BY <1>8, OwnName

(* Every row that meets the request is in what the driver answers. *)
LEMMA DriverFindsRows ==
    ASSUME PathInv, phase = "done", ~IsCRM, NEW n \in DOMAIN job.selection, IsName(n), Answer(n) # Failed,
           ~BorrowsFilters(n), NEW r \in RowsAt(n), MeetsRequest(n, r)
    PROVE  r \in Answer(n).rows
<1>1. type \in D!DBTypes
  BY DEF PathInv, TypeKnown, Planned
<1>2. PICK b, a, tables, filters :
        b = db /\ a = Answer(n) /\ a # Failed /\ tables = job.selection /\ filters = FiltersForConfig
  OBVIOUS
<1>3. \A x \in b : TableOf(type, x)
  BY <1>1, <1>2, DatabasesAssumption DEF db
<1>4. ASSUME \A f \in DOMAIN r : r[f] \in Value, NEW filter, OwnFilters(n, filter)
      PROVE  /\ type # "MONGODB" => \A f \in DOMAIN filter : MetBy(r, f, filter[f])
             /\ type = "MONGODB" => \A f \in DOMAIN filter : MetIn(r, f, filter[f])
  BY <1>4, OwnFilterMet
<1>5. \A x \in b : r \in x.rows => \A f \in DOMAIN r : r[f] \in Value
  BY <1>3 DEF TableOf
<1>6. CASE type = "POSTGRESQL"
  <2>1. PICK x \in b : r \in x.rows /\ NormalizeTable("POSTGRESQL", <<x.schema, x.name>>) = n
    BY <1>2, <1>6 DEF RowsAt
  <2>2. PICK s, w : s = x.schema /\ w = x.name
    OBVIOUS
  <2>3. s \in Identifiers /\ w \in Identifiers /\ (EqualFold(s, "public") => s = "public") /\ "public" \in Identifiers
    BY <1>3, <1>6, <2>2, WordsAssumption DEF TableOf
  <2>4. NormalizeTableNameForLookup(<<s, w>>, "public") = n
    BY <2>1, <2>2 DEF NormalizeTable, FoldsFieldCase, DefaultSchemaForType
  <2>5. ParseQualifiedTableName(n, "public") = <<s, w>>
    BY <2>3, <2>4, RowsAtOwnName
  <2>6. PICK q : q = ParseQualifiedTableName(n, "public") /\ q[1] = s /\ q[2] = w
    BY <2>5
  <2>7. r \in PG!RowsOf(b, n)
    BY <2>1, <2>2, <2>6, PostgresNames DEF PG!RowsOf, PG!DefaultSchema
  <2>8. PICK filter : filter = PG!GetTableFilters(filters, n) /\ OwnFilters(n, filter)
    BY <1>1, <1>2, <1>6, ReadsOwnFilters
  <2>9. \A f \in DOMAIN filter : MetBy(r, f, filter[f])
    BY <1>4, <1>5, <1>6, <2>1, <2>8
  <2>10. a = PG!Query(b, tables, filters, n)
    BY <1>2, <1>6 DEF Answer
  <2>11. r \in a.rows
    BY ONLY <1>2, <2>7, <2>8, <2>9, <2>10, PostgresFinds
  <2> QED BY <1>2, <2>11
<1>7. CASE type = "SQL_SERVER"
  <2>1. PICK x \in b : r \in x.rows /\ NormalizeTable("SQL_SERVER", <<x.schema, x.name>>) = n
    BY <1>2, <1>7 DEF RowsAt
  <2>2. PICK s, w : s = x.schema /\ w = x.name
    OBVIOUS
  <2>3. s \in Identifiers /\ w \in Identifiers /\ (EqualFold(s, "dbo") => s = "dbo") /\ "dbo" \in Identifiers
    BY <1>3, <1>7, <2>2, WordsAssumption DEF TableOf
  <2>4. NormalizeTableNameForLookup(<<s, w>>, "dbo") = n
    BY <2>1, <2>2 DEF NormalizeTable, FoldsFieldCase, DefaultSchemaForType
  <2>5. ParseQualifiedTableName(n, "dbo") = <<s, w>>
    BY <2>3, <2>4, RowsAtOwnName
  <2>6. PICK q : q = ParseQualifiedTableName(n, "dbo") /\ q[1] = s /\ q[2] = w
    BY <2>5
  <2>7. r \in MS!RowsOf(b, n)
    BY <2>1, <2>2, <2>6, SQLServerNames DEF MS!RowsOf, MS!DefaultSchema
  <2>8. PICK filter : filter = MS!GetTableFilters(filters, n) /\ OwnFilters(n, filter)
    BY <1>1, <1>2, <1>7, ReadsOwnFilters
  <2>9. \A f \in DOMAIN filter : MetBy(r, f, filter[f])
    BY <1>4, <1>5, <1>7, <2>1, <2>8
  <2>10. a = MS!Query(b, tables, filters, n)
    BY <1>2, <1>7 DEF Answer
  <2>11. r \in a.rows
    BY ONLY <1>2, <2>7, <2>8, <2>9, <2>10, SQLServerFinds
  <2> QED BY <1>2, <2>11
<1>8. CASE type = "MYSQL"
  <2>1. PICK x \in b : r \in x.rows /\ x.schema = Database /\ <<x.name>> = n
    BY <1>2, <1>8 DEF RowsAt
  <2>7. r \in MY!RowsOf(b, n)
    BY <2>1 DEF MY!RowsOf
  <2>8. PICK filter : filter = MY!GetTableFilters(filters, n) /\ OwnFilters(n, filter)
    BY <1>1, <1>2, <1>8, ReadsOwnFilters
  <2>9. \A f \in DOMAIN filter : MetBy(r, f, filter[f])
    BY <1>4, <1>5, <1>8, <2>1, <2>8
  <2>10. a = MY!Query(b, tables, filters, n)
    BY <1>2, <1>8 DEF Answer
  <2>11. r \in a.rows
    BY ONLY <1>2, <2>7, <2>8, <2>9, <2>10, MySQLFinds
  <2> QED BY <1>2, <2>11
<1>9. CASE type = "ORACLE"
  <2>1. PICK x \in b : r \in x.rows /\ n = QualifyTableName(x.schema, x.name, CurrentSchema)
    BY <1>2, <1>9 DEF RowsAt
  <2>2. \A y \in b : TableOf("ORACLE", y)
    BY <1>3, <1>9
  <2>3. OR!RowsOf(b, n) = UNION {y.rows : y \in {t \in b : t.schema = x.schema /\ t.name = x.name}}
    BY <2>1, <2>2, OracleRows
  <2>7. r \in OR!RowsOf(b, n)
    BY <2>1, <2>3
  <2>8. PICK filter : filter = OR!GetTableFilters(filters, n) /\ OwnFilters(n, filter)
    BY <1>1, <1>2, <1>9, ReadsOwnFilters
  <2>9. \A f \in DOMAIN filter : MetBy(r, f, filter[f])
    BY <1>4, <1>5, <1>9, <2>1, <2>8
  <2>10. a = OR!Query(b, tables, filters, n)
    BY <1>2, <1>9 DEF Answer
  <2>11. r \in a.rows
    BY ONLY <1>2, <2>1, <2>2, <2>7, <2>8, <2>9, <2>10, OracleFinds
  <2> QED BY <1>2, <2>11
<1>10. CASE type = "MONGODB"
  <2>1. PICK x \in b : r \in x.rows /\ <<x.name>> = n
    BY <1>2, <1>10 DEF RowsAt
  <2>7. r \in Documents(b, n)
    BY <2>1 DEF Documents
  <2>8. PICK filter : filter = GetCollectionFilters(filters, n) /\ OwnFilters(n, filter)
    BY <1>1, <1>2, <1>10, ReadsOwnFilters
  <2>9. \A f \in DOMAIN filter : MetIn(r, f, filter[f])
    BY <1>4, <1>5, <1>10, <2>1, <2>8
  <2>10. a = Query(b, tables, filters, n)
    BY <1>2, <1>10 DEF Answer
  <2>11. r \in a.rows
    BY ONLY <1>2, <2>7, <2>8, <2>9, <2>10, MongoFinds
  <2> QED BY <1>2, <2>11
<1> QED BY <1>1, <1>6, <1>7, <1>8, <1>9, <1>10 DEF D!DBTypes

-----------------------------------------------------------------------------
(* The CRM.                                                                 *)

(* A name of one or two words keeps it where there is no default schema. *)
LEMMA ShortNameKept ==
    ASSUME NEW u, IsName(u), Len(u) \in {1, 2}
    PROVE  NormalizeTable("MONGODB", u) = u
<1>1. CASE Len(u) = 1
  BY <1>1, OneWord
<1>2. CASE Len(u) = 2
  <2>1. u \in Seq(Identifiers) /\ NoSchema \notin Identifiers
    BY WordsAssumption DEF IsName
  <2>2. u = <<u[1], u[2]>> /\ u[1] \in Identifiers
    BY <1>2, <2>1
  <2>3. ParseQualifiedTableName(u, NoSchema) = <<u[1], u[2]>>
    BY <1>2 DEF ParseQualifiedTableName
  <2>a. PICK q : q = ParseQualifiedTableName(u, NoSchema) /\ q = u
    BY <2>2, <2>3
  <2>4. q[1] # NoSchema /\ ~(Len(u) > 3)
    BY <1>2, <2>1, <2>2, <2>a, NotLong
  <2>5. NormalizeTableNameForLookup(u, NoSchema) = u
    BY <2>a, <2>4 DEF NormalizeTableNameForLookup
  <2> QED BY <2>5 DEF NormalizeTable, FoldsFieldCase, DefaultSchemaForType
<1> QED BY <1>1, <1>2

(* Who asks for what is listed asks by a schema and a name at most. *)
ShortNames ==
    /\ request \in Requests \/ \A t \in DOMAIN request.tables : Len(t) \in {1, 2}
    /\ \A t \in DOMAIN browse.tables : Len(t) \in {1, 2}

LEMMA CrmNamesKept ==
    ASSUME ShortNames, TablesNamed, IsCRM, NEW t \in DOMAIN request.tables
    PROVE  NormalizeTable(type, t) = t
<1>1. type = "MONGODB" /\ request.config = CrmConfig
  BY DEF IsCRM
<1>2. IsName(t)
  BY DEF TablesNamed
<1>3. Len(t) \in {1, 2}
  BY <1>1, RequestsAssumption DEF ShortNames
<1> QED BY <1>1, <1>2, <1>3, ShortNameKept

LEMMA CrmFindsRows ==
    ASSUME PathInv, phase = "done", IsCRM, NEW n \in DOMAIN answers,
           NEW r \in RowsAt(n), MeetsRequest(n, r)
    PROVE  r \in answers[n].rows
<1>1. type = "MONGODB" /\ request.config = CrmConfig
  BY DEF IsCRM
<1>2. PICK b, logical, fields, filter, keys, answer :
        /\ b = db /\ logical = n[1] /\ fields = request.tables[n] /\ keys = request.keys
        /\ filter = GetCollectionFilters(request.filters, n) /\ answer = answers[n]
  OBVIOUS
<1>3. answer = QueryPluginCRM(b, logical, fields, filter, keys) /\ answer # Failed
  BY <1>2 DEF PathInv, AnsweredByCRM, FromCRM
<1>4. PICK x \in b : r \in x.rows /\ <<logical, x.name>> \in Prefixes
  BY <1>1, <1>2 DEF RowsAt
<1>5. PICK m : m = x.name /\ m \in MatchingCollections(b, logical)
  BY <1>4 DEF MatchingCollections, ListCollectionNames
<1>6. r \in Documents(b, <<m>>)
  BY <1>4, <1>5 DEF Documents
<1>7. DocumentOf(r) /\ \A e \in DOMAIN r : r[e] \in Value
  <2>1. \E p \in Prefixes : p[2] = x.name
    BY <1>4
  <2>2. b = Databases["MONGODB"]
    BY <1>1, <1>2 DEF db
  <2> QED BY <1>4, <2>1, <2>2, DatabasesAssumption DEF TableOf, D!DBTypes
<1>8. ASSUME NEW f \in DOMAIN filter PROVE MetInCRM(r, f, filter[f])
  <2>1. n \in DOMAIN request.filters /\ filter = request.filters[n]
    BY <1>2, EmptyMap DEF GetCollectionFilters
  <2>2. request \in Requests
    BY <2>1, EmptyMap DEF PathInv, RequestKept
  <2>3. IsName(n) /\ Len(n) = 1 /\ f \notin Range(SearchFields) /\ IsCondition(filter[f])
    BY <1>1, <2>1, <2>2, RequestsAssumption
  <2>4. NormalizeTable(type, n) = n /\ NormalizeField(type, f) = f
    BY <1>1, <2>3, OneWord DEF NormalizeField, FoldsFieldCase
  <2>5. f \in FilteredOn(n) /\ filter[f] \in Stated(n, f)
    BY <2>1, <2>4 DEF FilteredOn, Stated
  <2>6. PICK c : c = filter[f] /\ ValueOf(r, f) # Null /\ Expressible(c, f) /\ Meets(ValueOf(r, f), c, Dated(f))
    BY <2>5 DEF MeetsRequest
  <2>7. f \in DOMAIN r /\ ValueOf(r, f) = DecryptFieldValue(r[f]) /\ Dated(f) = FALSE
    BY <1>1, <2>6 DEF ValueOf, Dated
  <2>8. r[f] # Null
    BY <2>6, <2>7 DEF DecryptFieldValue, Null, V
  <2>9. Meets(DecryptFieldValue(r[f]), c, FALSE)
    BY <2>6, <2>7
  <2>10. /\ Mongoable(c) /\ Len(c.like) <= 1 /\ (\A y \in Range(c.like) : y.kind \in Strings)
         /\ (f \in EncryptedFields => Searchable(c, f))
    BY <1>1, <2>6 DEF Expressible
  <2>11. MetInCRM(r, f, c)
    BY <1>7, <2>3, <2>6, <2>7, <2>8, <2>9, <2>10 DEF MetInCRM
  <2> QED BY <2>6, <2>11
<1>9. PICK a : /\ a = QueryPluginCRMCollection(b, m, fields, filter, keys) /\ a # Failed
               /\ a.rows \subseteq answer.rows
  BY <1>3, <1>5, CrmAnswer
<1>10. r \in a.rows
  BY ONLY <1>6, <1>7, <1>8, <1>9, CrmCollectionFinds
<1> QED BY <1>2, <1>9, <1>10

LEMMA CrmIsClear ==
    ASSUME PathInv, phase = "done", IsCRM, NEW n \in DOMAIN answers, NEW e \in answers[n].clear, NEW f \in DOMAIN e
    PROVE  e[f].kind # "cipher"
<1>1. type = "MONGODB"
  BY DEF IsCRM
<1>2. PICK b, logical, fields, filter, keys, answer :
        /\ b = db /\ logical = n[1] /\ fields = request.tables[n] /\ keys = request.keys
        /\ filter = GetCollectionFilters(request.filters, n) /\ answer = answers[n]
  OBVIOUS
<1>3. answer = QueryPluginCRM(b, logical, fields, filter, keys) /\ answer # Failed
  BY <1>2 DEF PathInv, AnsweredByCRM, FromCRM
<1>4. PICK r \in answer.rows : e = DecryptRecord([g \in Projected(r, fields) |-> r[g]])
  BY <1>2, <1>3, CrmAnswer
<1>a. PICK m \in MatchingCollections(b, logical) : \E a :
        a = QueryPluginCRMCollection(b, m, fields, filter, keys) /\ a # Failed /\ r \in a.rows
  BY <1>3, CrmRows
<1>5. PICK a : a = QueryPluginCRMCollection(b, m, fields, filter, keys) /\ a # Failed /\ r \in a.rows
  BY <1>a
<1>6. PICK x \in b : x.name = m /\ r \in x.rows
  <2>1. r \in Documents(b, <<m>>)
    BY <1>5, CrmDocuments
  <2>2. PICK x \in b : <<x.name>> = <<m>> /\ r \in x.rows
    BY <2>1, DocumentsAre
  <2> QED BY <2>2, PairEquals
<1>7. DocumentOf(r)
  <2>1. <<logical, m>> \in Prefixes
    BY <1>5 DEF MatchingCollections
  <2>2. \E p \in Prefixes : p[2] = x.name
    BY <1>6, <2>1
  <2>3. b = Databases["MONGODB"]
    BY <1>1, <1>2 DEF db
  <2> QED BY <1>6, <2>2, <2>3, DatabasesAssumption DEF D!DBTypes
<1> QED BY <1>4, <1>7, ClearHasNoCipher

-----------------------------------------------------------------------------
(* An answer that was not cut is all that the driver answers.                *)

SelectionMade ==
    phase = "mapped" \/ (Planned /\ ~IsCRM) => job.selection = MapMappedFields(request)

(* What the plan asked for: no *, and of Oracle names in upper case. *)
FieldsDone ==
    phase = "done" /\ ~IsCRM => \A n \in DOMAIN job.selection : \A f \in job.selection[n] :
        f # "*" /\ (type = "ORACLE" => Upper[f] = f)

WholeAnswers ==
    Planned /\ ~IsCRM /\ "querying" \notin outages => \A n \in DOMAIN answers : answers[n] = Answer(n)

CrmTablesAnswered == phase = "done" /\ IsCRM => DOMAIN answers = DOMAIN request.tables

WholeInv == SelectionMade /\ FieldsDone /\ WholeAnswers /\ CrmTablesAnswered /\ ShortNames

(* The fields of the request are selected. *)
LEMMA FieldsSelected ==
    ASSUME job.selection = MapMappedFields(request), NEW t \in DOMAIN request.tables,
           NEW n, NormalizeTable(type, t) = n
    PROVE  n \in DOMAIN job.selection /\ {NormalizeField(type, f) : f \in request.tables[t]} \subseteq job.selection[n]
BY DEF MapMappedFields, NormalizeFieldsForType

LEMMA PlanAsks ==
    ASSUME PathInv, PlanAccepted, phase = "planned", NEW n \in DOMAIN job.selection, NEW f \in job.selection[n]
    PROVE  f # "*" /\ (type = "ORACLE" => Upper[f] = f)
<1>1. f # "*"
  BY PlanHasNoStar
<1>2. CASE type = "ORACLE"
  <2>1. PICK b : b = Databases["ORACLE"] /\ \A x \in b : TableOf("ORACLE", x)
    BY DatabasesAssumption DEF D!DBTypes
  <2>2. PICK scope, schema, snapshot :
          /\ scope = SchemaArg(job.scope, conn) /\ schema \in SchemaInfos(type, scope)
          /\ snapshot = Snapshot(type, schema) /\ InSnapshot(job.selection, snapshot)
    BY DEF PlanAccepted
  <2>3. schema = OR!GetSchemaInfo(b, scope)
    BY <1>2, <2>1, <2>2 DEF SchemaInfos
  <2>4. PICK found : found = OR!GetDatabaseSchema(b, scope)
    OBVIOUS
  <2>5. snapshot = Snapshot("ORACLE", OR!GetSchemaInfo(b, scope)) /\ n \in DOMAIN snapshot /\ Has(snapshot[n], f)
    BY <1>2, <2>2, <2>3 DEF InSnapshot
  <2>6. n \in DOMAIN found /\ \A g \in snapshot[n] : g \in found[n]
    BY ONLY <2>1, <2>4, <2>5, OracleSnapshot
  <2>7. \A g \in found[n] : \E x \in b : g \in x.columns
    BY <2>4, <2>6 DEF OR!GetDatabaseSchema, OR!BuildTableSchema
  <2>8. \A p \in Prefixes : p[2] \notin snapshot[n]
    BY <2>1, <2>6, <2>7 DEF TableOf
  <2>9. f \in snapshot[n]
    BY <2>5, <2>8, HasIsColumn
  <2>10. PICK x \in b : f \in x.columns
    BY <2>6, <2>7, <2>9
  <2>11. \A col \in x.columns : Upper[col] = col
    BY <2>1 DEF TableOf
  <2> QED BY <1>1, <2>10, <2>11
<1> QED BY <1>1, <1>2

(* The fields that were asked for are in what the driver answers. *)
LEMMA DriverFindsFields ==
    ASSUME PathInv, phase = "done", ~IsCRM, FieldsDone, NEW n \in DOMAIN job.selection, Answer(n) # Failed
    PROVE  job.selection[n] \subseteq Answer(n).fields
<1>1. type \in D!DBTypes
  BY DEF PathInv, TypeKnown, Planned
<1>2. PICK b, a, tables, filters :
        b = db /\ a = Answer(n) /\ a # Failed /\ tables = job.selection /\ filters = FiltersForConfig
  OBVIOUS
<1>3. tables[n] # {"*"} /\ (type = "ORACLE" => \A f \in tables[n] : Upper[f] = f)
  BY <1>2 DEF FieldsDone
<1>4. CASE type = "POSTGRESQL"
  <2>1. a = PG!Query(b, tables, filters, n)
    BY <1>2, <1>4 DEF Answer
  <2> QED BY <1>2, <1>3, <2>1, PostgresSelects
<1>5. CASE type = "MYSQL"
  <2>1. a = MY!Query(b, tables, filters, n)
    BY <1>2, <1>5 DEF Answer
  <2> QED BY <1>2, <1>3, <2>1, MySQLSelects
<1>6. CASE type = "SQL_SERVER"
  <2>1. a = MS!Query(b, tables, filters, n)
    BY <1>2, <1>6 DEF Answer
  <2> QED BY <1>2, <1>3, <2>1, SQLServerSelects
<1>7. CASE type = "ORACLE"
  <2>1. a = OR!Query(b, tables, filters, n)
    BY <1>2, <1>7 DEF Answer
  <2>2. \A x \in b : TableOf("ORACLE", x)
    BY <1>1, <1>2, <1>7, DatabasesAssumption DEF db
  <2>3. tables[n] \subseteq a.fields
    BY <1>2, <1>3, <1>7, <2>1, <2>2, OracleSelects
  <2> QED BY <1>2, <2>3
<1>8. CASE type = "MONGODB"
  <2>1. a = Query(b, tables, filters, n)
    BY <1>2, <1>8 DEF Answer
  <2>2. tables[n] \subseteq a.fields
    BY <1>2, <1>3, <2>1, MongoSelects
  <2> QED BY <1>2, <2>2
<1> QED BY <1>1, <1>4, <1>5, <1>6, <1>7, <1>8 DEF D!DBTypes

LEMMA PlannedName ==
    ASSUME PathInv, TablesNamed, phase = "done", ~IsCRM, job.selection = MapMappedFields(request),
           NEW n \in DOMAIN job.selection
    PROVE  IsName(n)
<1>1. type \in D!DBTypes
  BY DEF PathInv, TypeKnown, Planned
<1>2. CASE type = "ORACLE"
  <2>1. PICK y \in db : n = QualifyTableName(y.schema, y.name, CurrentSchema)
    BY <1>2 DEF PathInv, TablesPlanned, Planned
  <2>2. TableOf("ORACLE", y)
    BY <1>1, <1>2, DatabasesAssumption DEF db
  <2>3. PICK s \in Identifiers, w \in Identifiers : s = y.schema /\ w = y.name
    BY <2>2 DEF TableOf
  <2> QED BY <2>1, <2>3, TableHasName
<1>3. CASE type # "ORACLE"
  <2>1. PICK u \in DOMAIN request.tables : n = NormalizeTable(type, u)
    BY DEF MapMappedFields
  <2>2. IsName(u)
    BY DEF TablesNamed
  <2> QED BY <1>1, <1>3, <2>1, <2>2, NormalIsName
<1> QED BY <1>2, <1>3

LEMMA WholeIsComplete ==
    ASSUME PathInv, TablesNamed, WholeInv
    PROVE  AnswersComplete
<1>1. SUFFICES ASSUME phase = "done", "querying" \notin outages, NEW n \in DOMAIN answers
               PROVE  /\ \A t \in DOMAIN request.tables : NormalizeTable(type, t) = n =>
                           {NormalizeField(type, f) : f \in request.tables[t]} \subseteq answers[n].fields
                      /\ IsCRM => \A d \in answers[n].clear : \A f \in DOMAIN d : d[f].kind # "cipher"
                      /\ BorrowsFilters(n) \/ \A r \in RowsAt(n) : MeetsRequest(n, r) => r \in answers[n].rows
  BY Zenon DEF AnswersComplete, MeetsRequest
<1>2. CASE IsCRM
  <2>1. ASSUME NEW t \in DOMAIN request.tables, NormalizeTable(type, t) = n
        PROVE  {NormalizeField(type, f) : f \in request.tables[t]} \subseteq answers[n].fields
    <3>1. t = n
      BY <1>2, <2>1, CrmNamesKept DEF WholeInv
    <3>2. answers[n] = FromCRM(n) /\ answers[n] # Failed
      BY <1>1, <1>2 DEF PathInv, AnsweredByCRM
    <3>3. PICK b, logical, fields, filter, keys, answer :
            /\ b = db /\ logical = n[1] /\ fields = request.tables[n] /\ keys = request.keys
            /\ filter = GetCollectionFilters(request.filters, n) /\ answer = answers[n]
      OBVIOUS
    <3>4. answer = QueryPluginCRM(b, logical, fields, filter, keys) /\ answer # Failed
      BY <3>2, <3>3 DEF FromCRM
    <3>5. answer.fields = fields
      BY <3>4, CrmAnswer
    <3>6. \A f : NormalizeField(type, f) = f
      BY <1>2 DEF IsCRM, NormalizeField, FoldsFieldCase
    <3> QED BY <3>1, <3>3, <3>5, <3>6
  <2>2. \A d \in answers[n].clear : \A f \in DOMAIN d : d[f].kind # "cipher"
    BY <1>1, <1>2, CrmIsClear
  <2>3. \A r \in RowsAt(n) : MeetsRequest(n, r) => r \in answers[n].rows
    BY <1>1, <1>2, CrmFindsRows
  <2> QED BY <2>1, <2>2, <2>3
<1>3. CASE ~IsCRM
  <2>1. /\ n \in DOMAIN job.selection /\ Answer(n) # Failed /\ answers[n] = Answer(n)
        /\ job.selection = MapMappedFields(request)
    BY <1>1, <1>3 DEF PathInv, AnsweredByDriver, WholeInv, WholeAnswers, SelectionMade, Planned
  <2>2. ASSUME NEW t \in DOMAIN request.tables, NormalizeTable(type, t) = n
        PROVE  {NormalizeField(type, f) : f \in request.tables[t]} \subseteq answers[n].fields
    <3>1. {NormalizeField(type, f) : f \in request.tables[t]} \subseteq job.selection[n]
      BY <2>1, <2>2, FieldsSelected
    <3>2. job.selection[n] \subseteq answers[n].fields
      BY <1>1, <1>3, <2>1, DriverFindsFields DEF WholeInv
    <3> QED BY <3>1, <3>2
  <2>3. IsName(n)
    BY <1>1, <1>3, <2>1, PlannedName
  <2>4. ASSUME ~BorrowsFilters(n), NEW r \in RowsAt(n), MeetsRequest(n, r) PROVE r \in answers[n].rows
    BY <1>1, <1>3, <2>1, <2>3, <2>4, DriverFindsRows
  <2> QED BY <1>3, <2>2, <2>4
<1> QED BY <1>2, <1>3

-----------------------------------------------------------------------------
(* The path of a request keeps it.                                           *)

(* What a client is shown has a schema and a name at most. *)
LEMMA ListedShort ==
    ASSUME NEW t \in D!DBTypes, NEW scope, NEW schema \in SchemaInfos(t, scope),
           NEW tables, tables = BuildSnapshot(t, schema, FoldsFieldCase(t)), NEW n \in DOMAIN tables
    PROVE  Len(n) \in {1, 2}
<1>1. CASE t = "ORACLE"
  <2>1. FoldsFieldCase(t) = TRUE
    BY <1>1 DEF FoldsFieldCase
  <2>2. PICK m \in DOMAIN schema : n = NormalizeTable(t, m)
    BY <2>1 DEF BuildSnapshot
  <2> QED BY <1>1, <2>2, ShownShort
<1>2. CASE t # "ORACLE"
  <2>1. FoldsFieldCase(t) = FALSE
    BY <1>2 DEF FoldsFieldCase
  <2>2. n \in DOMAIN schema
    BY <2>1 DEF BuildSnapshot
  <2>3. CASE t = "MONGODB"
    <3>1. PICK b : b = Databases["MONGODB"] /\ schema \in GetSchemaInfos(b)
      BY <2>3 DEF SchemaInfos
    <3>2. PICK x \in b : n = <<x.name>>
      BY <2>2, <3>1, MongoSchemaOf
    <3> QED BY <3>2
  <2>4. CASE t # "MONGODB"
    <3>1. NormalizeTable(t, n) = n
      BY <1>2, <2>2, <2>4, DiscoveredNormal
    <3>2. Len(NormalizeTable(t, n)) \in {1, 2}
      BY <2>2, <2>4, ShownShort
    <3> QED BY <3>1, <3>2
  <2> QED BY <2>3, <2>4
<1> QED BY <1>1, <1>2

LEMMA ShownShortNames ==
    ASSUME TablesNamed, ShortNames, NEW id, GetConnectionSchema(id)
    PROVE  ShortNames'
<1> DEFINE multi == deployment.mode = "multi"
           c == D!ApplySchemaResolutionHeuristic(D!ResolveConnection(deployment, request.tenant, id), multi)
           dial == D!NewDataSourceFromConnection(c, multi)
<1>0. /\ dial # Failed /\ request' = request
      /\ \E schema \in SchemaInfos(c.type, SchemaArg({}, c)) :
           browse' = [browse EXCEPT !.tables = BuildSnapshot(c.type, schema, FoldsFieldCase(c.type))]
  BY Zenon DEF GetConnectionSchema
<1>1. PICK schema \in SchemaInfos(c.type, SchemaArg({}, c)) :
        browse' = [browse EXCEPT !.tables = BuildSnapshot(c.type, schema, FoldsFieldCase(c.type))]
  BY <1>0
<1>2. c.type \in D!DBTypes
  BY <1>0 DEF D!NewDataSourceFromConnection, D!DBTypes
<1> HIDE DEF multi, c, dial
<1>3. PICK tables : tables = BuildSnapshot(c.type, schema, FoldsFieldCase(c.type))
  OBVIOUS
<1>4. \A n \in DOMAIN tables : Len(n) \in {1, 2}
  BY <1>1, <1>2, <1>3, ListedShort
<1>5. browse' = [browse EXCEPT !.tables = tables] /\ "tables" \in DOMAIN browse
  BY <1>1, <1>3 DEF TablesNamed
<1>6. browse'.tables = tables
  BY <1>5
<1> QED BY <1>0, <1>4, <1>6 DEF ShortNames

LEMMA ShortKept ==
    ASSUME ShortNames, request' = request, browse' = browse
    PROVE  ShortNames'
BY DEF ShortNames

(* A step to where nothing is mapped or planned. *)
LEMMA NotAnswered ==
    ASSUME ShortNames', phase' \notin {"mapped", "planned", "done"}
    PROVE  WholeInv'
BY DEF WholeInv, SelectionMade, FieldsDone, WholeAnswers, CrmTablesAnswered, Planned

LEMMA SelectionKept ==
    ASSUME request' = request, conn' = conn
    PROVE  MapMappedFields(request)' = MapMappedFields(request)
<1>1. type' = type
  BY DEF type
<1> QED BY <1>1 DEF MapMappedFields, NormalizeFieldsForType

LEMMA WholeStays ==
    ASSUME WholeInv, request' = request, conn' = conn, job' = job, phase' = phase, outages' = outages,
           answers' = answers, browse' = browse
    PROVE  WholeInv'
<1>1. ShortNames'
  BY ShortKept DEF WholeInv
<1>2. type' = type /\ (IsCRM' <=> IsCRM) /\ (Planned' <=> Planned) /\ \A n : Answer(n)' = Answer(n)
  BY SamePath DEF Planned
<1>3. SelectionMade'
  BY <1>2, SelectionKept DEF WholeInv, SelectionMade
<1>4. FieldsDone' /\ CrmTablesAnswered'
  BY <1>2 DEF WholeInv, FieldsDone, CrmTablesAnswered
<1>5. WholeAnswers'
  BY <1>2 DEF WholeInv, WholeAnswers
<1> QED BY <1>1, <1>3, <1>4, <1>5 DEF WholeInv

(* The job is mapped. *)
LEMMA WholeMaps == ASSUME WholeInv, MapJob PROVE WholeInv'
<1>1. phase' = "mapped" /\ request' = request /\ conn' = conn /\ browse' = browse
  BY DEF MapJob
<1>2. PICK filters, scope :
        job' = [selection |-> MapMappedFields(request), filters |-> filters, scope |-> scope]
  BY DEF MapJob
<1>3. job'.selection = MapMappedFields(request)'
  BY <1>1, <1>2, SelectionKept
<1>4. ShortNames'
  BY <1>1, ShortKept DEF WholeInv
<1> QED BY <1>1, <1>3, <1>4 DEF WholeInv, SelectionMade, FieldsDone, WholeAnswers, CrmTablesAnswered, Planned

(* The plan is accepted. *)
LEMMA WholePlans == ASSUME PathInv, WholeInv, PlanExtraction, phase' = "planned" PROVE WholeInv'
<1>1. /\ phase = "mapped" /\ request' = request /\ conn' = conn /\ job' = job /\ browse' = browse
      /\ answers' = answers
  BY DEF PlanExtraction
<1>2. answers' = <<>>
  BY <1>1 DEF PathInv, Unanswered
<1>3. ShortNames'
  BY <1>1, ShortKept DEF WholeInv
<1>4. SelectionMade'
  BY <1>1, SelectionKept DEF WholeInv, SelectionMade
<1>5. WholeAnswers'
  BY <1>2, EmptyMap DEF WholeAnswers
<1> QED BY <1>3, <1>4, <1>5 DEF WholeInv, FieldsDone, CrmTablesAnswered

(* One more table is answered, in full or after an outage. *)
LEMMA WholeRecords ==
    ASSUME PathInv, PlanAccepted, WholeInv, phase = "planned", request' = request, conn' = conn, job' = job,
           browse' = browse, NEW t, NEW a, Record(t, a),
           \/ "querying" \in outages'
           \/ a = Answer(t) /\ outages' = outages
    PROVE  WholeInv'
<1>1. answers' = Answered(t, a) /\ phase' \in {"planned", "done"}
  BY DEF Record
<1>2. /\ DOMAIN answers' = DOMAIN answers \cup {t} /\ answers'[t] = a
      /\ \A n \in DOMAIN answers : n # t => answers'[n] = answers[n]
  BY ONLY <1>1 DEF Answered
<1>3. Planned /\ Planned' /\ ~IsCRM /\ ~IsCRM' /\ type' = type /\ \A n : Answer(n)' = Answer(n)
  BY <1>1, SamePath DEF Planned, PathInv, JobMapped
<1>4. ShortNames'
  BY ShortKept DEF WholeInv
<1>5. SelectionMade'
  BY <1>3, SelectionKept DEF WholeInv, SelectionMade
<1>6. FieldsDone'
  <2>1. \A n \in DOMAIN job.selection : \A f \in job.selection[n] :
          f # "*" /\ (type = "ORACLE" => Upper[f] = f)
    BY PlanAsks
  <2> QED BY <1>3, <2>1 DEF FieldsDone
<1>7. WholeAnswers'
  <2>1. SUFFICES ASSUME "querying" \notin outages', NEW n \in DOMAIN answers'
                 PROVE  answers'[n] = Answer(n)
    BY <1>3 DEF WholeAnswers
  <2>2. a = Answer(t) /\ "querying" \notin outages
    BY <2>1
  <2>3. CASE n = t
    BY <1>2, <2>2, <2>3
  <2>4. CASE n # t
    <3>1. n \in DOMAIN answers /\ answers'[n] = answers[n]
      BY <1>2, <2>4
    <3> QED BY <1>3, <2>2, <3>1 DEF WholeInv, WholeAnswers
  <2> QED BY <2>3, <2>4
<1>8. CrmTablesAnswered'
  BY <1>3 DEF CrmTablesAnswered
<1> QED BY <1>4, <1>5, <1>6, <1>7, <1>8 DEF WholeInv

(* The CRM is queried. *)
LEMMA WholeCRM == ASSUME WholeInv, ExtractCRM, phase' = "done" PROVE WholeInv'
<1>1. /\ IsCRM /\ request' = request /\ conn' = conn /\ job' = job /\ browse' = browse
      /\ answers' = [t \in DOMAIN request.tables |-> FromCRM(t)]
  BY DEF ExtractCRM, FromCRM
<1>2. IsCRM'
  BY <1>1, SamePath
<1>3. ShortNames'
  BY <1>1, ShortKept DEF WholeInv
<1>4. DOMAIN answers' = DOMAIN request'.tables
  BY <1>1
<1> QED BY <1>2, <1>3, <1>4 DEF WholeInv, SelectionMade, FieldsDone, WholeAnswers, CrmTablesAnswered

LEMMA WholeInit == Init => WholeInv
<1> SUFFICES ASSUME Init PROVE WholeInv
  OBVIOUS
<1>1. request \in Requests /\ browse = [ids |-> {}, conn |-> NoConn, tables |-> <<>>]
  BY DEF Init, NothingShown
<1>2. browse.tables = <<>>
  BY <1>1
<1>3. ShortNames
  BY <1>1, <1>2, EmptyMap DEF ShortNames
<1> QED BY <1>3 DEF Init, WholeInv, SelectionMade, FieldsDone, WholeAnswers, CrmTablesAnswered, Planned

LEMMA WholeStep == DialInv /\ PathInv /\ ExecInv /\ WholeInv /\ [Next]_vars => WholeInv'
<1> SUFFICES ASSUME DialInv, PathInv, ExecInv, WholeInv, [Next]_vars PROVE WholeInv'
  OBVIOUS
<1>0. TablesNamed /\ ShortNames
  BY DEF ExecInv, WholeInv
<1>1. CASE ManagerResolves
  BY <1>0, <1>1, ShortKept, NotAnswered DEF ManagerResolves
<1>2. CASE ValidateSchema
  BY <1>0, <1>2, ShortKept, NotAnswered DEF ValidateSchema
<1>3. CASE WorkerResolves
  BY <1>0, <1>3, ShortKept, NotAnswered DEF WorkerResolves
<1>4. CASE MapJob
  BY <1>4, WholeMaps
<1>5. CASE PlanExtraction
  <2>1. phase' \in {"planned", "rejected"} /\ request' = request /\ browse' = browse
    BY <1>5 DEF PlanExtraction
  <2> QED BY <1>0, <1>5, <2>1, WholePlans, ShortKept, NotAnswered
<1>6. CASE ExtractCRM
  <2>1. phase' \in {"failed", "done"} /\ request' = request /\ browse' = browse
    BY <1>6 DEF ExtractCRM
  <2> QED BY <1>0, <1>6, <2>1, WholeCRM, ShortKept, NotAnswered
<1>7. ASSUME NEW page \in 1..2, NEW only \in {"", "POSTGRESQL"}, List(page, only)
      PROVE  WholeInv'
  <2>1. phase = "browsing" /\ phase' = phase /\ request' = request
    BY <1>7 DEF List
  <2>2. PICK ids : browse' = [browse EXCEPT !.ids = ids]
    BY <1>7 DEF List
  <2>3. browse'.tables = browse.tables
    BY <1>0, <2>2 DEF TablesNamed
  <2>4. ShortNames'
    BY <1>0, <2>1, <2>3 DEF ShortNames
  <2> QED BY <2>1, <2>4, NotAnswered
<1>8. ASSUME NEW id \in browse.ids, Show(id) \/ GetConnectionSchema(id)
      PROVE  WholeInv'
  <2>1. phase = "browsing" /\ phase' = phase /\ request' = request
    BY <1>8 DEF Show, GetConnectionSchema
  <2>2. ASSUME Show(id) PROVE ShortNames'
    <3>1. PICK ids, c : browse' = [browse EXCEPT !.ids = ids, !.conn = c]
      BY <2>2 DEF Show
    <3>2. browse'.tables = browse.tables
      BY <1>0, <3>1 DEF TablesNamed
    <3> QED BY <1>0, <2>1, <3>2 DEF ShortNames
  <2> QED BY <1>0, <1>8, <2>1, <2>2, ShownShortNames, NotAnswered
<1>9. ASSUME NEW t \in DOMAIN browse.tables, NEW f \in browse.tables[t], Submit(t, f)
      PROVE  WholeInv'
  <2>1. phase' = "received" /\ browse' = browse
    BY <1>9 DEF Submit
  <2>2. PICK config, origin, tables :
          /\ request' = [request EXCEPT !.config = config, !.tables = tables, !.origin = origin]
          /\ tables = [u \in {t} |-> {f}]
    BY <1>9 DEF Submit
  <2>3. request'.tables = tables
    BY <2>2 DEF DialInv, FromRequests, RequestFields
  <2>4. ShortNames'
    BY <1>0, <2>1, <2>2, <2>3 DEF ShortNames
  <2> QED BY <2>1, <2>4, NotAnswered
<1>10. ASSUME NEW t \in DOMAIN job.selection, QueryTable(t) \/ QueryFails(t) \/ QueryCut(t)
       PROVE  WholeInv'
  <2>1. /\ phase = "planned" /\ request' = request /\ conn' = conn /\ job' = job /\ browse' = browse
        /\ PlanAccepted
    BY <1>10 DEF QueryTable, QueryFails, QueryCut, ExecInv
  <2>2. CASE phase' = "failed"
    BY <1>0, <2>1, <2>2, ShortKept, NotAnswered
  <2>3. CASE phase' # "failed"
    <3>1. PICK a : Record(t, a) /\ ("querying" \in outages' \/ (a = Answer(t) /\ outages' = outages))
      BY <1>10, <2>3 DEF QueryTable, QueryFails, QueryCut, Abandon
    <3> QED BY <2>1, <3>1, WholeRecords
  <2> QED BY <2>2, <2>3
<1>11. CASE UNCHANGED vars
  BY <1>11, WholeStays DEF vars
<1> QED BY <1>1, <1>2, <1>3, <1>4, <1>5, <1>6, <1>7, <1>8, <1>9, <1>10, <1>11 DEF Next

(* No row is lost, for every database and request: the tables a job has      *)
(* queried to the end hold every row that meets the conditions the client   *)
(* stated and every field asked for, whichever driver wrote the query       *)
(* (QueryWithAdvancedFilters), whatever the spelling (mapJobToExtraction-    *)
(* Request), and those of plugin_crm are in the clear (DecryptRecord).       *)
THEOREM NoRowIsLost == Spec => []AnswersComplete
<1>1. PathInv /\ ExecInv /\ WholeInv => AnswersComplete
  BY WholeIsComplete DEF ExecInv
<1> QED BY <1>1, DialInit, DialStep, PathInit, PathStep, ExecInit, ExecStep, WholeInit, WholeStep, PTL DEF Spec

=============================================================================
