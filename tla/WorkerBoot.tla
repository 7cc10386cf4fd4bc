----------------------------- MODULE WorkerBoot -----------------------------
(***************************************************************************)
(* InitWorker, the Worker's checkers, its goroutines and what Service.Run   *)
(* closes once they have returned.  See Boot.                               *)
(***************************************************************************)
EXTENDS Boot

BuildWorkerMongoURI(c) ==
    IF c.mongo.scheme = "" THEN NoURL ELSE URL(c.mongo.scheme, c.mongo.tls, c.mongo.ssl)

BuildWorkerRabbitMQURL(c) == IF c.rabbit = "" THEN NoURL ELSE URL(c.rabbit, "", "")

BuildSaaSTLSConfig(c) ==
    [mode |-> c.mode, mt |-> c.mt, insecureTM |-> c.insecureTM, hasS3 |-> TRUE,
     mongo |-> BuildWorkerMongoURI(c), rabbit |-> BuildWorkerRabbitMQURL(c), redis |-> NoURL,
     mtRedis |-> ComposeRedisURL(c.mtRedis.host, c.mtRedis.tls), s3 |-> c.s3, tm |-> c.tm]

----------------------------------------------------------------------------
(* The steps of InitWorker.                                                 *)

InitObservability(c) ==
    [Plain EXCEPT !.refuses = ~ValidateMultiTenantConfig(c), !.fallible = TRUE]

InitCryptoServices(c) == [Plain EXCEPT !.refuses = "master_key" \in c.missing]

EnforceTLS(c) == [Plain EXCEPT !.refuses = ~ValidateSaaSTLS(BuildSaaSTLSConfig(c))]

\* The client is made without a call to the storage.
InitStorageRepository(c) ==
    [Plain EXCEPT !.refuses = "bucket" \in c.missing \/ c.s3 = BadURL, !.opens = {"s3"}]

InitMongoConnection(c) ==
    [Plain EXCEPT !.refuses = ~MongoConnects(c.mongo),
                  !.needs = {"mongodb"}, !.opens = {"mongo"}]

InitTenantManagerClient(c) == [Plain EXCEPT !.refuses = ClientRefuses(c), !.opens = {"tm"}]

\* Per-tenant pools over the shared client; nothing connects yet.
InitMultiTenantManagers == [Plain EXCEPT !.opens = {"mongo_manager", "rabbit_manager"}]

\* The repositories ask for the client once more, the outbox for its indexes.
InitWorkerRepositories == [Plain EXCEPT !.fallible = TRUE]

WireEngineRunner == [Plain EXCEPT !.fallible = TRUE]

InitJobEventEmitter(c) ==
    [Plain EXCEPT !.refuses = c.missing \cap {"streaming", "exchange"} # {},
                  !.fallible = TRUE, !.opens = {"streaming"}]

\* A broker that is down at boot is only logged.
InitSingleTenantRabbitMQ == [Plain EXCEPT !.opens = {"rabbit"}, !.connects = TRUE]

\* A listener that cannot be created or started leaves its Redis client open.
StartEventListener == [Plain EXCEPT !.fallible = TRUE, !.starts = {"listener"}]

NewWorkerReadyzDepsMT == [Plain EXCEPT !.opens = {"readyz_mt_redis"}]

BuildStreamingOutboxDispatcher == [Plain EXCEPT !.fallible = TRUE]

\* The cache, the loader, the consumer and the dispatcher are only wired here.
InitMultiTenantStack == <<EventRedis, StartEventListener>>

InitMultiTenantWorkerService(c) ==
    InitMultiTenantStack
    \o <<InitJobEventEmitter(c), NewWorkerReadyzDepsMT, SelfProbe, BuildStreamingOutboxDispatcher>>

InitSingleTenantWorkerService(c) ==
    <<InitSingleTenantRabbitMQ, InitJobEventEmitter(c), SelfProbe, BuildStreamingOutboxDispatcher>>

InitWorker(c) ==
    <<InitObservability(c), InitCryptoServices(c), EnforceTLS(c), InitStorageRepository(c),
      InitMongoConnection(c)>>
    \o If(c.mt, <<InitTenantManagerClient(c), InitMultiTenantManagers>>)
    \o <<InitWorkerRepositories, WireEngineRunner>>
    \o If(c.mt, <<BuildResolverTenantAdapter(c, {})>>)
    \o (IF c.mt THEN InitMultiTenantWorkerService(c) ELSE InitSingleTenantWorkerService(c))

\* The deferred guards run whenever InitWorker returns and close the Tenant
\* Manager clients unless the Service owns them.
NoPerServiceGuard(open, owned) == {}
CloseSharedTMClientIfUnowned(open, owned)     == IF owned THEN {} ELSE open \cap {"tm"}
ClosePerServiceTMClientsIfUnowned(open, owned) == IF owned THEN {} ELSE open \cap {"service_tm"}

----------------------------------------------------------------------------
(* Readiness: the dependencies /readyz and the self-probe check.            *)

BuildWorkerReadyzCheckers(c) ==
    (IF c.mt THEN {"mt_redis"} ELSE {"mongodb", "rabbitmq"}) \cup {"s3"}

----------------------------------------------------------------------------
(* Service.Run                                                              *)

\* What the Launcher runs.
RunLauncher(c) ==
    {"consumer", "health", "dispatcher", "repairer"} \cup (IF c.mt THEN {"reconciler"} ELSE {})

NewTMClientChainCloser == {"tm", "service_tm"}

Stop(g) == [stops |-> {g}, closes |-> {}]
Close(rs) == [stops |-> {}, closes |-> rs]

\* Service.Run after the Launcher has returned.
GracefulShutdownTMFirst(c) ==
    If(c.mt, <<Close(NewTMClientChainCloser), Stop("listener"), Close({"event_redis"}),
               Close({"readyz_mt_redis"})>>)
    \o <<Close({"streaming"})>>

GracefulShutdown(c) ==
    If(c.mt, <<Stop("listener"), Close({"event_redis"}), Close({"readyz_mt_redis"})>>)
    \o <<Close({"streaming"})>>
    \o If(c.mt, <<Close(NewTMClientChainCloser)>>)
=============================================================================
