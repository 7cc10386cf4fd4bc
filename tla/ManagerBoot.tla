---------------------------- MODULE ManagerBoot ----------------------------
(***************************************************************************)
(* InitServers, the Manager's checkers and the shutdown hooks of its        *)
(* server.  See Boot.                                                       *)
(***************************************************************************)
EXTENDS Boot

\* Unlike the Worker's, an absent scheme is not an absent connection string.
BuildMongoSource(c)    == URL(c.mongo.scheme, c.mongo.tls, c.mongo.ssl)
BuildRabbitMQSource(c) == URL(c.rabbit, "", "")

BuildSaaSTLSConfig(c) ==
    [mode |-> c.mode, mt |-> c.mt, insecureTM |-> c.insecureTM, hasS3 |-> FALSE,
     mongo |-> BuildMongoSource(c), rabbit |-> BuildRabbitMQSource(c),
     redis |-> ComposeRedisURL(c.redis.host, c.redis.tls),
     mtRedis |-> ComposeRedisURL(c.mtRedis.host, c.mtRedis.tls), s3 |-> NoURL, tm |-> c.tm]

----------------------------------------------------------------------------
(* The steps of InitServers.                                                *)

ValidateSecurityConfig(c) ==
    [Plain EXCEPT !.refuses = \/ c.mt /\ "auth" \in c.missing
                              \/ "auth" \notin c.missing /\ "auth_address" \in c.missing]

InitLoggerAndTelemetry == [Plain EXCEPT !.fallible = TRUE]

RequireMultiTenantSettings(c) == [Plain EXCEPT !.refuses = ~ValidateMultiTenantConfig(c)]

EnforceTLS(c) == [Plain EXCEPT !.refuses = ~ValidateSaaSTLS(BuildSaaSTLSConfig(c))]

\* Indexes are made in single-tenant mode only.
InitMongoRepositories(c) ==
    [Plain EXCEPT !.refuses = ~MongoConnects(c.mongo),
                  !.needs = {"mongodb"}, !.fallible = ~c.mt, !.opens = {"mongo"}]

InitCrypto(c) == [Plain EXCEPT !.refuses = "master_key" \in c.missing]

\* Multi-tenant: a client, a RabbitMQ manager over it and a MongoDB manager of
\* its own for /readyz.  Single-tenant: the adapter, connected if it can.
InitMessaging(c) ==
    IF c.mt THEN [Plain EXCEPT !.refuses = ClientRefuses(c),
                               !.opens = {"tm", "rabbit_manager", "readyz_mongo_manager"}]
            ELSE [Plain EXCEPT !.opens = {"rabbit"}, !.connects = TRUE]

NewReadyzRedisClient(c)            == IF c.redis.host THEN {"readyz_redis"} ELSE {}
NewReadyzMultiTenantRedisClient(c) == IF c.mt /\ c.mtRedis.host THEN {"readyz_mt_redis"} ELSE {}

\* The schema cache does without Redis when it cannot connect.
InitCaches(c) ==
    [Plain EXCEPT !.fallible = TRUE,
                  !.opens = {"schema_cache"} \cup NewReadyzRedisClient(c)
                                             \cup NewReadyzMultiTenantRedisClient(c)]

InitPlatformDependencies(c) == <<InitMessaging(c), InitCaches(c)>>

BuildEngines == [Plain EXCEPT !.fallible = TRUE]

NewMiddlewareClient(c) == [Plain EXCEPT !.refuses = ClientRefuses(c), !.opens = {"mw_tm"}]

\* Unlike the Worker, a listener that fails takes its Redis client with it.
StartEventListener ==
    [Plain EXCEPT !.fallible = TRUE, !.starts = {"listener"}, !.undoes = {"event_redis"}]

InitManagerEventDiscovery(c) == If(c.mtRedis.host, <<EventRedis, StartEventListener>>)

InitMultiTenantMiddleware(c) ==
    If(c.mt, <<NewMiddlewareClient(c)>> \o InitManagerEventDiscovery(c))

\* Routes that cannot be built stop the listener again.
NewRoutes == [Plain EXCEPT !.fallible = TRUE, !.undoes = {"listener", "event_redis"}]

AssembleService(c) ==
    If(c.mt, <<BuildResolverTenantAdapter(c, {"resolver_tm"})>>)
    \o <<BuildEngines>> \o InitMultiTenantMiddleware(c) \o <<SelfProbe, NewRoutes>>

InitServers(c) ==
    <<ValidateSecurityConfig(c), InitLoggerAndTelemetry, RequireMultiTenantSettings(c),
      EnforceTLS(c), InitMongoRepositories(c), InitCrypto(c)>>
    \o InitPlatformDependencies(c) \o AssembleService(c)

----------------------------------------------------------------------------
(* Readiness.  The Tenant Manager's checker never fails and is left out.    *)

BuildManagerReadyzCheckers(c) ==
    (IF c.mt THEN {} ELSE {"mongodb", "rabbitmq"})
    \cup (IF c.redis.host THEN {"redis"} ELSE {})
    \cup (IF c.mt /\ c.mtRedis.host THEN {"mt_redis"} ELSE {})

----------------------------------------------------------------------------
(* The hooks of the server, in the order they are registered; the server    *)
(* manager runs them once the listener is closed.                           *)

Stop(g) == [stops |-> {g}, closes |-> {}]
Close(r) == [stops |-> {}, closes |-> {r}]

ShutdownHooks(c) ==
    If(c.mt, <<Close("rabbit_manager"), Stop("listener"), Close("event_redis")>>)
    \o <<Close("schema_cache")>>
    \o If(c.redis.host, <<Close("readyz_redis")>>)
    \o If(c.mt, <<Close("readyz_mt_redis"), Close("readyz_mongo_manager")>>)
=============================================================================
