----------------------- MODULE ProcessLifecycleProofs -----------------------
(***************************************************************************)
(* Proofs about ProcessLifecycle for every set of configurations and any    *)
(* number of outages, failures and signals.                                 *)
(***************************************************************************)
EXTENDS ProcessLifecycle, TLAPS

-----------------------------------------------------------------------------
(* The bootstraps: which steps they have. *)

ManagerSteps(c) ==
    {M!ValidateSecurityConfig(c), M!InitLoggerAndTelemetry, M!RequireMultiTenantSettings(c),
     M!EnforceTLS(c), M!InitMongoRepositories(c), M!InitCrypto(c), M!InitMessaging(c),
     M!InitCaches(c), M!BuildEngines, M!SelfProbe, M!NewRoutes}
    \cup (IF c.mt THEN {M!BuildResolverTenantAdapter(c, {"resolver_tm"}),
                        M!NewMiddlewareClient(c), M!EventRedis, M!StartEventListener}
                  ELSE {})

WorkerSteps(c) ==
    {W!InitObservability(c), W!InitCryptoServices(c), W!EnforceTLS(c), W!InitStorageRepository(c),
     W!InitMongoConnection(c), W!InitWorkerRepositories, W!WireEngineRunner,
     W!InitJobEventEmitter(c), W!SelfProbe, W!BuildStreamingOutboxDispatcher}
    \cup (IF c.mt THEN {W!InitTenantManagerClient(c), W!InitMultiTenantManagers,
                        W!BuildResolverTenantAdapter(c, {}), W!EventRedis,
                        W!StartEventListener, W!NewWorkerReadyzDepsMT}
                  ELSE {W!InitSingleTenantRabbitMQ})

LEMMA ManagerHasSteps ==
    ASSUME NEW c, {c.mt, c.mtRedis.host} \subseteq BOOLEAN
    PROVE  /\ M!InitServers(c) \in Seq(ManagerSteps(c))
           /\ M!InitPlatformDependencies(c) \in Seq(ManagerSteps(c))
           /\ M!AssembleService(c) \in Seq(ManagerSteps(c))
<1> DEFINE T == ManagerSteps(c)
<1>1. /\ <<M!ValidateSecurityConfig(c), M!InitLoggerAndTelemetry, M!RequireMultiTenantSettings(c),
           M!EnforceTLS(c), M!InitMongoRepositories(c), M!InitCrypto(c)>> \in Seq(T)
      /\ M!InitPlatformDependencies(c) \in Seq(T)
      /\ <<M!BuildEngines>> \in Seq(T) /\ <<M!SelfProbe, M!NewRoutes>> \in Seq(T)
  BY DEF ManagerSteps, M!InitPlatformDependencies
<1>2. M!If(c.mt, <<M!BuildResolverTenantAdapter(c, {"resolver_tm"})>>) \in Seq(T)
  <2>1. CASE c.mt = TRUE
    <3>1. M!BuildResolverTenantAdapter(c, {"resolver_tm"}) \in T
      BY <2>1 DEF ManagerSteps
    <3> QED BY <2>1, <3>1 DEF M!If
  <2>2. CASE c.mt = FALSE
    BY <2>2 DEF M!If
  <2> QED BY <2>1, <2>2
<1>3. M!InitMultiTenantMiddleware(c) \in Seq(T)
  <2>1. CASE c.mt = TRUE
    <3>1. <<M!NewMiddlewareClient(c)>> \in Seq(T)
      BY <2>1 DEF ManagerSteps
    <3>2. M!InitManagerEventDiscovery(c) \in Seq(T)
      <4>1. M!EventRedis \in T /\ M!StartEventListener \in T
        BY <2>1 DEF ManagerSteps
      <4> HIDE DEF T
      <4>2. CASE c.mtRedis.host = TRUE
        BY <4>1, <4>2 DEF M!InitManagerEventDiscovery, M!If
      <4>3. CASE c.mtRedis.host = FALSE
        BY <4>3 DEF M!InitManagerEventDiscovery, M!If
      <4> QED BY <4>2, <4>3
    <3> HIDE DEF T
    <3> QED BY <2>1, <3>1, <3>2 DEF M!InitMultiTenantMiddleware, M!If
  <2>2. CASE c.mt = FALSE
    BY <2>2 DEF M!InitMultiTenantMiddleware, M!If
  <2> QED BY <2>1, <2>2
<1> HIDE DEF T
<1>4. M!AssembleService(c) \in Seq(T)
  BY <1>1, <1>2, <1>3 DEF M!AssembleService
<1>5. M!InitServers(c) \in Seq(T)
  BY <1>1, <1>4 DEF M!InitServers
<1> QED BY <1>1, <1>4, <1>5 DEF T

LEMMA WorkerHasSteps ==
    ASSUME NEW c, c.mt \in BOOLEAN
    PROVE  W!InitWorker(c) \in Seq(WorkerSteps(c))
<1> DEFINE T == WorkerSteps(c)
<1>1. /\ <<W!InitObservability(c), W!InitCryptoServices(c), W!EnforceTLS(c),
           W!InitStorageRepository(c), W!InitMongoConnection(c)>> \in Seq(T)
      /\ <<W!InitWorkerRepositories, W!WireEngineRunner>> \in Seq(T)
  BY DEF WorkerSteps
<1>2. /\ W!If(c.mt, <<W!InitTenantManagerClient(c), W!InitMultiTenantManagers>>) \in Seq(T)
      /\ W!If(c.mt, <<W!BuildResolverTenantAdapter(c, {})>>) \in Seq(T)
  <2>1. CASE c.mt = TRUE
    <3>1. {W!InitTenantManagerClient(c), W!InitMultiTenantManagers,
           W!BuildResolverTenantAdapter(c, {})} \subseteq T
      BY <2>1 DEF WorkerSteps
    <3> QED BY <2>1, <3>1 DEF W!If
  <2>2. CASE c.mt = FALSE
    BY <2>2 DEF W!If
  <2> QED BY <2>1, <2>2
<1>3. c.mt => W!InitMultiTenantWorkerService(c) \in Seq(T)
  <2> SUFFICES ASSUME c.mt PROVE W!InitMultiTenantWorkerService(c) \in Seq(T)
    OBVIOUS
  <2>1. /\ W!InitMultiTenantStack \in Seq(T)
        /\ <<W!InitJobEventEmitter(c), W!NewWorkerReadyzDepsMT, W!SelfProbe,
             W!BuildStreamingOutboxDispatcher>> \in Seq(T)
    BY DEF WorkerSteps, W!InitMultiTenantStack
  <2> HIDE DEF T
  <2> QED BY <2>1 DEF W!InitMultiTenantWorkerService
<1>4. ~c.mt => W!InitSingleTenantWorkerService(c) \in Seq(T)
  BY DEF WorkerSteps, W!InitSingleTenantWorkerService
<1> HIDE DEF T
<1> QED BY <1>1, <1>2, <1>3, <1>4 DEF W!InitWorker, T

-----------------------------------------------------------------------------
(* What the steps open, start and undo. *)

ManagerCloses(c) ==
    {"schema_cache"} \cup (IF c.redis.host THEN {"readyz_redis"} ELSE {})
    \cup (IF c.mt THEN {"rabbit_manager", "event_redis", "readyz_mt_redis",
                        "readyz_mongo_manager"} ELSE {})

WorkerCloses(c) ==
    {"streaming"}
    \cup (IF c.mt THEN {"event_redis", "readyz_mt_redis", "tm", "service_tm"} ELSE {})

ManagerExit == {"rabbit_manager", "event_redis", "schema_cache", "readyz_redis",
                "readyz_mt_redis", "readyz_mongo_manager"}
WorkerExit  == {"rabbit", "event_redis", "readyz_mt_redis", "streaming", "tm", "service_tm"}

(* Whatever a step of InitServers opens and the Manager must close, a hook  *)
(* closes.                                                                  *)
LEMMA ManagerStepFacts ==
    ASSUME NEW c, {c.mt, c.redis.host, c.mtRedis.host} \subseteq BOOLEAN,
           NEW s \in ManagerSteps(c)
    PROVE  /\ s.opens \subseteq Clients /\ s.starts \subseteq {"listener"}
           /\ s.connects \in BOOLEAN
           /\ s.opens \cap ManagerExit \subseteq ManagerCloses(c)
<1> USE DEF M!Plain, Clients, ManagerExit, ManagerCloses
<1>1. CASE s = M!ValidateSecurityConfig(c)
  BY <1>1 DEF M!ValidateSecurityConfig
<1>2. CASE s = M!InitLoggerAndTelemetry
  BY <1>2 DEF M!InitLoggerAndTelemetry
<1>3. CASE s = M!RequireMultiTenantSettings(c)
  BY <1>3 DEF M!RequireMultiTenantSettings
<1>4. CASE s = M!EnforceTLS(c)
  BY <1>4 DEF M!EnforceTLS
<1>5. CASE s = M!InitMongoRepositories(c)
  BY <1>5 DEF M!InitMongoRepositories
<1>6. CASE s = M!InitCrypto(c)
  BY <1>6 DEF M!InitCrypto
<1>7. CASE s = M!InitMessaging(c)
  BY <1>7 DEF M!InitMessaging
<1>8. CASE s = M!InitCaches(c)
  BY <1>8 DEF M!InitCaches, M!NewReadyzRedisClient, M!NewReadyzMultiTenantRedisClient
<1>9. CASE s = M!BuildEngines
  BY <1>9 DEF M!BuildEngines
<1>10. CASE s = M!SelfProbe
  BY <1>10 DEF M!SelfProbe
<1>11. CASE s = M!NewRoutes
  BY <1>11 DEF M!NewRoutes
<1>12. CASE s = M!BuildResolverTenantAdapter(c, {"resolver_tm"}) /\ c.mt
  BY <1>12 DEF M!BuildResolverTenantAdapter, M!BuildServiceClients
<1>13. CASE s = M!NewMiddlewareClient(c) /\ c.mt
  BY <1>13 DEF M!NewMiddlewareClient
<1>14. CASE s = M!EventRedis /\ c.mt
  BY <1>14 DEF M!EventRedis
<1>15. CASE s = M!StartEventListener /\ c.mt
  BY <1>15 DEF M!StartEventListener
<1> QED BY <1>1, <1>2, <1>3, <1>4, <1>5, <1>6, <1>7, <1>8, <1>9, <1>10, <1>11, <1>12, <1>13, <1>14, <1>15
        DEF ManagerSteps

(* The same of InitWorker, whose steps leave what they opened to the guards *)
(* when they fail.                                                          *)
LEMMA WorkerStepFacts ==
    ASSUME NEW c, c.mt \in BOOLEAN, NEW s \in WorkerSteps(c)
    PROVE  /\ s.opens \subseteq Clients /\ s.starts \subseteq {"listener"}
           /\ s.connects \in BOOLEAN /\ s.undoes = {}
           /\ s.opens \cap WorkerExit \subseteq WorkerCloses(c) \cup {"rabbit"}
<1> USE DEF W!Plain, Clients, WorkerExit, WorkerCloses
<1>1. CASE s = W!InitObservability(c)
  BY <1>1 DEF W!InitObservability
<1>2. CASE s = W!InitCryptoServices(c)
  BY <1>2 DEF W!InitCryptoServices
<1>3. CASE s = W!EnforceTLS(c)
  BY <1>3 DEF W!EnforceTLS
<1>4. CASE s = W!InitStorageRepository(c)
  BY <1>4 DEF W!InitStorageRepository
<1>5. CASE s = W!InitMongoConnection(c)
  BY <1>5 DEF W!InitMongoConnection
<1>6. CASE s = W!InitWorkerRepositories
  BY <1>6 DEF W!InitWorkerRepositories
<1>7. CASE s = W!WireEngineRunner
  BY <1>7 DEF W!WireEngineRunner
<1>8. CASE s = W!InitJobEventEmitter(c)
  BY <1>8 DEF W!InitJobEventEmitter
<1>9. CASE s = W!SelfProbe
  BY <1>9 DEF W!SelfProbe
<1>10. CASE s = W!BuildStreamingOutboxDispatcher
  BY <1>10 DEF W!BuildStreamingOutboxDispatcher
<1>11. CASE s = W!InitSingleTenantRabbitMQ
  BY <1>11 DEF W!InitSingleTenantRabbitMQ
<1>12. CASE s = W!InitTenantManagerClient(c) /\ c.mt
  BY <1>12 DEF W!InitTenantManagerClient
<1>13. CASE s = W!InitMultiTenantManagers /\ c.mt
  BY <1>13 DEF W!InitMultiTenantManagers
<1>14. CASE s = W!BuildResolverTenantAdapter(c, {}) /\ c.mt
  BY <1>14 DEF W!BuildResolverTenantAdapter, W!BuildServiceClients
<1>15. CASE s = W!EventRedis /\ c.mt
  BY <1>15 DEF W!EventRedis
<1>16. CASE s = W!StartEventListener /\ c.mt
  BY <1>16 DEF W!StartEventListener
<1>17. CASE s = W!NewWorkerReadyzDepsMT /\ c.mt
  BY <1>17 DEF W!NewWorkerReadyzDepsMT
<1> QED BY <1>1, <1>2, <1>3, <1>4, <1>5, <1>6, <1>7, <1>8, <1>9, <1>10, <1>11, <1>12, <1>13, <1>14, <1>15, <1>16, <1>17
        DEF WorkerSteps

-----------------------------------------------------------------------------
(* The order of the Manager's steps. *)

(* The third step of InitServers refuses multi-tenant settings without a    *)
(* Redis, before anything is opened and before the self-probe.              *)
LEMMA ManagerFirstSteps ==
    ASSUME NEW c, {c.mt, c.mtRedis.host} \subseteq BOOLEAN
    PROVE  /\ Len(M!InitServers(c)) > 3
           /\ \A i \in 1..3 : /\ M!InitServers(c)[i].probes = FALSE
                              /\ M!InitServers(c)[i].opens = {}
           /\ ~M!InitServers(c)[3].refuses => (c.mt => c.mtRedis.host)
<1>1. PICK a : a = M!ValidateSecurityConfig(c)
  OBVIOUS
<1>2. PICK b : b = M!InitLoggerAndTelemetry
  OBVIOUS
<1>3. PICK d : d = M!RequireMultiTenantSettings(c)
  OBVIOUS
<1>4. PICK e : e = <<M!EnforceTLS(c), M!InitMongoRepositories(c), M!InitCrypto(c)>>
  OBVIOUS
<1>5. /\ a.probes = FALSE /\ a.opens = {}
  BY <1>1 DEF M!ValidateSecurityConfig, M!Plain
<1>6. /\ b.probes = FALSE /\ b.opens = {}
  BY <1>2 DEF M!InitLoggerAndTelemetry, M!Plain
<1>7. /\ d.probes = FALSE /\ d.opens = {}
      /\ ~d.refuses => (c.mt => c.mtRedis.host)
  BY <1>3 DEF M!RequireMultiTenantSettings, M!ValidateMultiTenantConfig, M!Plain
<1>8. /\ Len(M!InitServers(c)) > 3
      /\ M!InitServers(c)[1] = a /\ M!InitServers(c)[2] = b /\ M!InitServers(c)[3] = d
  <2> DEFINE T == ManagerSteps(c)
  <2>1. /\ M!ValidateSecurityConfig(c) \in T /\ M!InitLoggerAndTelemetry \in T
        /\ M!RequireMultiTenantSettings(c) \in T /\ M!EnforceTLS(c) \in T
        /\ M!InitMongoRepositories(c) \in T /\ M!InitCrypto(c) \in T
    BY DEF ManagerSteps
  <2>2. M!InitPlatformDependencies(c) \in Seq(T) /\ M!AssembleService(c) \in Seq(T)
    BY ManagerHasSteps
  <2> HIDE DEF T
  <2> QED BY <1>1, <1>2, <1>3, <2>1, <2>2 DEF M!InitServers
<1> QED BY <1>5, <1>6, <1>7, <1>8

(* After the event Redis client is opened, every step but the self-probe    *)
(* closes it when it fails.                                                 *)
LEMMA ManagerUndoes ==
    ASSUME NEW c, c.mt = TRUE, c.mtRedis.host = TRUE, {c.redis.host} \subseteq BOOLEAN,
           NEW i \in DOMAIN M!InitServers(c), NEW k \in DOMAIN M!InitServers(c), i < k,
           "event_redis" \in M!InitServers(c)[i].opens
    PROVE  M!InitServers(c)[k].probes \/ "event_redis" \in M!InitServers(c)[k].undoes
<1> DEFINE S == M!InitServers(c)
<1>1. /\ Len(S) = 15 /\ S[12] = M!EventRedis
      /\ S[13] = M!StartEventListener /\ S[14] = M!SelfProbe /\ S[15] = M!NewRoutes
      /\ S[1] = M!ValidateSecurityConfig(c) /\ S[2] = M!InitLoggerAndTelemetry
      /\ S[3] = M!RequireMultiTenantSettings(c) /\ S[4] = M!EnforceTLS(c)
      /\ S[5] = M!InitMongoRepositories(c) /\ S[6] = M!InitCrypto(c) /\ S[7] = M!InitMessaging(c)
      /\ S[8] = M!InitCaches(c) /\ S[9] = M!BuildResolverTenantAdapter(c, {"resolver_tm"})
      /\ S[10] = M!BuildEngines /\ S[11] = M!NewMiddlewareClient(c)
  BY DEF M!InitServers, M!InitPlatformDependencies, M!AssembleService, M!InitMultiTenantMiddleware,
     M!InitManagerEventDiscovery, M!If
<1>2. /\ "event_redis" \notin M!ValidateSecurityConfig(c).opens
      /\ "event_redis" \notin M!InitLoggerAndTelemetry.opens
      /\ "event_redis" \notin M!RequireMultiTenantSettings(c).opens
      /\ "event_redis" \notin M!EnforceTLS(c).opens
  BY DEF M!ValidateSecurityConfig, M!InitLoggerAndTelemetry, M!RequireMultiTenantSettings,
     M!EnforceTLS, M!Plain
<1>3. /\ "event_redis" \notin M!InitMongoRepositories(c).opens
      /\ "event_redis" \notin M!InitCrypto(c).opens
      /\ "event_redis" \notin M!InitMessaging(c).opens
  BY DEF M!InitMongoRepositories, M!InitCrypto, M!InitMessaging, M!Plain
<1>4. "event_redis" \notin M!InitCaches(c).opens
  BY DEF M!InitCaches, M!NewReadyzRedisClient, M!NewReadyzMultiTenantRedisClient, M!Plain
<1>5. /\ "event_redis" \notin M!BuildResolverTenantAdapter(c, {"resolver_tm"}).opens
      /\ "event_redis" \notin M!BuildEngines.opens
      /\ "event_redis" \notin M!NewMiddlewareClient(c).opens
  BY DEF M!BuildResolverTenantAdapter, M!BuildServiceClients, M!BuildEngines,
     M!NewMiddlewareClient, M!Plain
<1>6. /\ "event_redis" \in M!StartEventListener.undoes
      /\ "event_redis" \in M!NewRoutes.undoes
      /\ M!SelfProbe.probes = TRUE
  BY DEF M!StartEventListener, M!NewRoutes, M!SelfProbe, M!Plain
<1>7. S \in Seq(ManagerSteps(c))
  BY ManagerHasSteps
<1>8. i \in 1..15 /\ k \in 1..15
  BY <1>1, <1>7
<1> HIDE DEF S
<1>9. i \in 12..15
  BY <1>1, <1>2, <1>3, <1>4, <1>5, <1>8 DEF S
<1>10. k \in {13, 14, 15}
  BY <1>8, <1>9
<1> QED BY <1>1, <1>6, <1>10 DEF S

-----------------------------------------------------------------------------
(* What the shutdowns close. *)

(* A client is closed by one step at most, and all of them by some step.    *)
ClosesOnce(hooks, clients) ==
    /\ Len(hooks) \in Nat /\ DOMAIN hooks = 1..Len(hooks)
    /\ \A i, k \in DOMAIN hooks : i # k => hooks[i].closes \cap hooks[k].closes = {}
    /\ \A r \in clients : \E i \in DOMAIN hooks : r \in hooks[i].closes
    /\ \A i \in DOMAIN hooks : hooks[i].closes \subseteq clients

LEMMA ManagerHooks ==
    ASSUME NEW c, {c.mt, c.redis.host} \subseteq BOOLEAN
    PROVE  ClosesOnce(M!ShutdownHooks(c), ManagerCloses(c))
<1> DEFINE H == M!ShutdownHooks(c)
<1>1. CASE c.mt = FALSE /\ c.redis.host = FALSE
  <2>1. Len(H) = 1 /\ DOMAIN H = 1..1 /\ H[1] = M!Close("schema_cache")
    BY <1>1 DEF M!ShutdownHooks, M!If
  <2> HIDE DEF H
  <2> QED BY <1>1, <2>1 DEF ClosesOnce, ManagerCloses, M!Close, H
<1>2. CASE c.mt = FALSE /\ c.redis.host = TRUE
  <2>1. /\ Len(H) = 2 /\ DOMAIN H = 1..2
        /\ H[1] = M!Close("schema_cache") /\ H[2] = M!Close("readyz_redis")
    BY <1>2 DEF M!ShutdownHooks, M!If
  <2>2. H[1].closes = {"schema_cache"} /\ H[2].closes = {"readyz_redis"}
    BY <2>1 DEF M!Close
  <2> HIDE DEF H
  <2> QED BY <1>2, <2>1, <2>2 DEF ClosesOnce, ManagerCloses, H
<1>3. CASE c.mt = TRUE /\ c.redis.host = FALSE
  <2>1. /\ Len(H) = 6 /\ DOMAIN H = 1..6
        /\ H[1] = M!Close("rabbit_manager") /\ H[2] = M!Stop("listener")
        /\ H[3] = M!Close("event_redis") /\ H[4] = M!Close("schema_cache")
        /\ H[5] = M!Close("readyz_mt_redis") /\ H[6] = M!Close("readyz_mongo_manager")
    BY <1>3 DEF M!ShutdownHooks, M!If
  <2>2. /\ H[1].closes = {"rabbit_manager"} /\ H[2].closes = {}
        /\ H[3].closes = {"event_redis"} /\ H[4].closes = {"schema_cache"}
        /\ H[5].closes = {"readyz_mt_redis"} /\ H[6].closes = {"readyz_mongo_manager"}
    BY <2>1 DEF M!Close, M!Stop
  <2> HIDE DEF H
  <2> QED BY <1>3, <2>1, <2>2 DEF ClosesOnce, ManagerCloses, H
<1>4. CASE c.mt = TRUE /\ c.redis.host = TRUE
  <2>1. /\ Len(H) = 7 /\ DOMAIN H = 1..7
        /\ H[1] = M!Close("rabbit_manager") /\ H[2] = M!Stop("listener")
        /\ H[3] = M!Close("event_redis") /\ H[4] = M!Close("schema_cache")
        /\ H[5] = M!Close("readyz_redis")
        /\ H[6] = M!Close("readyz_mt_redis") /\ H[7] = M!Close("readyz_mongo_manager")
    BY <1>4 DEF M!ShutdownHooks, M!If
  <2>2. /\ H[1].closes = {"rabbit_manager"} /\ H[2].closes = {}
        /\ H[3].closes = {"event_redis"} /\ H[4].closes = {"schema_cache"}
        /\ H[5].closes = {"readyz_redis"}
        /\ H[6].closes = {"readyz_mt_redis"} /\ H[7].closes = {"readyz_mongo_manager"}
    BY <2>1 DEF M!Close, M!Stop
  <2> HIDE DEF H
  <2> QED BY <1>4, <2>1, <2>2 DEF ClosesOnce, ManagerCloses, H
<1> QED BY <1>1, <1>2, <1>3, <1>4

LEMMA WorkerShutdown ==
    ASSUME NEW c, c.mt \in BOOLEAN
    PROVE  ClosesOnce(W!GracefulShutdown(c), WorkerCloses(c))
<1> DEFINE H == W!GracefulShutdown(c)
<1>1. CASE c.mt = FALSE
  <2>1. Len(H) = 1 /\ DOMAIN H = 1..1 /\ H[1] = W!Close({"streaming"})
    BY <1>1 DEF W!GracefulShutdown, W!If
  <2> HIDE DEF H
  <2> QED BY <1>1, <2>1 DEF ClosesOnce, WorkerCloses, W!Close, H
<1>2. CASE c.mt = TRUE
  <2>1. /\ Len(H) = 5 /\ DOMAIN H = 1..5
        /\ H[1] = W!Stop("listener") /\ H[2] = W!Close({"event_redis"})
        /\ H[3] = W!Close({"readyz_mt_redis"}) /\ H[4] = W!Close({"streaming"})
        /\ H[5] = W!Close(W!NewTMClientChainCloser)
    BY <1>2 DEF W!GracefulShutdown, W!If
  <2>2. /\ H[1].closes = {} /\ H[2].closes = {"event_redis"}
        /\ H[3].closes = {"readyz_mt_redis"} /\ H[4].closes = {"streaming"}
        /\ H[5].closes = {"tm", "service_tm"}
    BY <2>1 DEF W!Close, W!Stop, W!NewTMClientChainCloser
  <2> HIDE DEF H
  <2> QED BY <1>2, <2>1, <2>2 DEF ClosesOnce, WorkerCloses, H
<1> QED BY <1>1, <1>2

-----------------------------------------------------------------------------
(* The inductive invariant. *)

Phases     == {"boot", "serving", "cleanup", "stopped", "aborted", "killed"}
Goroutines == {"server", "consumer", "health", "dispatcher", "repairer", "reconciler",
               "listener"}
ProbeKinds == {"none", "self", "readyz", "tenant"}
Channels   == {"none", "live", "dead"}

Processes ==
    [phase: Phases, step: Nat \ {0}, open: SUBSET Clients, closings: [Clients -> Nat],
     running: SUBSET Goroutines, signalled: BOOLEAN, draining: BOOLEAN, drainLeft: Int,
     selfProbe: BOOLEAN, channel: Channels, breaker: {"closed", "open", "half_open"}]

TypeOK ==
    /\ config \in Configs
    /\ proc \in Processes
    /\ probe \in [kind: ProbeKinds, waiting: SUBSET (Deps \ {"tm"}),
                  statuses: SUBSET {"up", "down", "degraded"}, sawUp: SUBSET Deps,
                  stale: BOOLEAN]
    /\ answer \in [kind: ProbeKinds, code: {0, 200, 400, 404, 503}]
    /\ kube \in [ready: BOOLEAN, since: 0..ProbePeriod]
    /\ env \in [up: SUBSET Deps, outages: Nat, faults: Nat, signals: Nat]

(* The bootstrap has a next step or is done; a Manager that got past its    *)
(* third step has the settings it demands; the self-probe runs at its step. *)
HasSettings == IsManager /\ config.mt => config.mtRedis.host

BootInv ==
    /\ proc.phase = "boot" => proc.step <= Len(BootSteps) + 1
    /\ proc.phase = "boot" /\ proc.step > 3 => HasSettings
    /\ proc.phase \in {"serving", "cleanup", "stopped"} => HasSettings
    /\ probe.kind = "self" => Booting /\ Step.probes

(* Clients are opened by the steps taken. *)
OpenInv ==
    \A r \in proc.open :
        \E i \in DOMAIN BootSteps : /\ r \in BootSteps[i].opens
                                    /\ proc.phase = "boot" => i < proc.step

(* Nothing is closed before the shutdown, but for the single-tenant         *)
(* Worker's adapter, which its consumer takes along; the shutdown has       *)
(* closed what the steps taken close.                                       *)
ClosedSoFar(r) ==
    CASE proc.phase \in {"boot", "killed"} -> FALSE
      [] proc.phase = "serving" ->
            r = "rabbit" /\ r \in proc.open /\ ~IsManager /\ "consumer" \notin proc.running
      [] proc.phase \in {"cleanup", "stopped"} ->
            /\ r \in proc.open
            /\ \/ r = "rabbit" /\ ~IsManager
               \/ \E i \in DOMAIN Cleanup : i < proc.step /\ r \in Cleanup[i].closes

CloseInv ==
    /\ proc.phase # "aborted" =>
          \A r \in Clients : proc.closings[r] = IF ClosedSoFar(r) THEN 1 ELSE 0
    /\ proc.phase = "aborted" => ClosedExactlyOnce
    /\ proc.phase = "stopped" => proc.step > Len(Cleanup)

(* While the process drains, for longer than the kubelet's period, the      *)
(* kubelet has seen it unready, or will probe once more before the drain is *)
(* over.                                                                    *)
LongDrain == ProbePeriod < 2 * DrainDelay

DrainInv ==
    LongDrain =>
        /\ proc.draining => \/ kube.ready = FALSE /\ probe.kind # "readyz"
                            \/ proc.drainLeft > ProbePeriod - kube.since
        /\ IsManager /\ proc.phase \in {"cleanup", "stopped"}
              => kube.ready = FALSE /\ probe.kind # "readyz"

(* A live channel has a broker, and one that died unnoticed had one when    *)
(* the probe began, or was dead by then; of each dependency a probe needs,  *)
(* the checker is still out, has found it up, or something was wrong, or it *)
(* is RabbitMQ, asked of an adapter that had not noticed.                   *)
Misled(d) == d = "rabbitmq" /\ probe.kind # "tenant" /\ probe.stale = TRUE

TruthInv ==
    /\ proc.channel = "live" => "rabbitmq" \in env.up
    /\ probe.kind # "none" =>
          /\ env.up \subseteq probe.sawUp
          /\ proc.channel = "dead" => probe.stale = TRUE \/ "rabbitmq" \in probe.sawUp
          /\ \A d \in Required(probe.kind) :
                \/ d \in probe.waiting \cup probe.sawUp
                \/ probe.statuses \cap {"down", "degraded"} # {}
                \/ Misled(d)

IInv ==
    /\ TypeOK /\ BootInv /\ OpenInv /\ CloseInv /\ DrainInv /\ TruthInv

-----------------------------------------------------------------------------
(* What the configuration of the process says of its bootstrap, checkers    *)
(* and shutdown.                                                            *)

Closes == IF IsManager THEN ManagerCloses(config) ELSE WorkerCloses(config)

BootFacts ==
    /\ Len(BootSteps) \in Nat /\ DOMAIN BootSteps = 1..Len(BootSteps)
    /\ \A i \in DOMAIN BootSteps :
          /\ BootSteps[i].opens \subseteq Clients
          /\ BootSteps[i].starts \subseteq {"listener"}
          /\ BootSteps[i].connects \in BOOLEAN
          /\ ~IsManager => BootSteps[i].undoes = {}
          /\ BootSteps[i].opens \cap OwnedAtExit
               \subseteq Closes \cup (IF IsManager THEN {} ELSE {"rabbit"})

LEMMA BootFactsHold ==
    ASSUME config \in Configs
    PROVE  BootFacts
<1>0. {config.mt, config.redis.host, config.mtRedis.host} \subseteq BOOLEAN
  BY ConfigAssumption
<1>1. CASE IsManager
  <2>1. BootSteps = M!InitServers(config)
    BY <1>1 DEF BootSteps, StepsOf, IsManager
  <2>2. BootSteps \in Seq(ManagerSteps(config))
    BY <1>0, <2>1, ManagerHasSteps
  <2>3. /\ Len(BootSteps) \in Nat /\ DOMAIN BootSteps = 1..Len(BootSteps)
        /\ \A i \in DOMAIN BootSteps : BootSteps[i] \in ManagerSteps(config)
    BY <2>2
  <2>4. OwnedAtExit = ManagerExit /\ Closes = ManagerCloses(config)
    BY <1>1 DEF OwnedAtExit, ManagerExit, Closes
  <2> QED BY <1>0, <1>1, <2>3, <2>4, ManagerStepFacts DEF BootFacts
<1>2. CASE ~IsManager
  <2>1. BootSteps = W!InitWorker(config)
    BY <1>2 DEF BootSteps, StepsOf, IsManager
  <2>2. BootSteps \in Seq(WorkerSteps(config))
    BY <1>0, <2>1, WorkerHasSteps
  <2>3. /\ Len(BootSteps) \in Nat /\ DOMAIN BootSteps = 1..Len(BootSteps)
        /\ \A i \in DOMAIN BootSteps : BootSteps[i] \in WorkerSteps(config)
    BY <2>2
  <2>4. OwnedAtExit = WorkerExit /\ Closes = WorkerCloses(config)
    BY <1>2 DEF OwnedAtExit, WorkerExit, Closes
  <2> QED BY <1>0, <1>2, <2>3, <2>4, WorkerStepFacts DEF BootFacts
<1> QED BY <1>1, <1>2

(* The steps before and after the Manager's checks of its settings. *)
LEMMA ManagerBootFacts ==
    ASSUME config \in Configs, IsManager
    PROVE  /\ Len(BootSteps) > 3
           /\ \A i \in 1..3 : BootSteps[i].probes = FALSE /\ BootSteps[i].opens = {}
           /\ ~BootSteps[3].refuses => HasSettings
           /\ config.mt /\ HasSettings =>
                \A i, k \in DOMAIN BootSteps :
                    i < k /\ "event_redis" \in BootSteps[i].opens
                      => BootSteps[k].probes \/ "event_redis" \in BootSteps[k].undoes
<1>0. {config.mt, config.redis.host, config.mtRedis.host} \subseteq BOOLEAN
  BY ConfigAssumption
<1>1. BootSteps = M!InitServers(config)
  BY DEF BootSteps, StepsOf, IsManager
<1>2. /\ Len(BootSteps) > 3
      /\ \A i \in 1..3 : BootSteps[i].probes = FALSE /\ BootSteps[i].opens = {}
      /\ ~BootSteps[3].refuses => HasSettings
  BY <1>0, <1>1, ManagerFirstSteps DEF HasSettings
<1>3. ASSUME config.mt, HasSettings, NEW i \in DOMAIN BootSteps, NEW k \in DOMAIN BootSteps,
             i < k, "event_redis" \in BootSteps[i].opens
      PROVE  BootSteps[k].probes \/ "event_redis" \in BootSteps[k].undoes
  <2>1. config.mt = TRUE /\ config.mtRedis.host = TRUE
    BY <1>0, <1>3 DEF HasSettings
  <2> QED BY <1>0, <1>1, <1>3, <2>1, ManagerUndoes
<1> QED BY <1>2, <1>3

LEMMA CleanupFacts ==
    ASSUME config \in Configs
    PROVE  /\ ClosesOnce(Cleanup, Closes)
           /\ ~IsManager => "rabbit" \notin Closes
<1>0. {config.mt, config.redis.host} \subseteq BOOLEAN
  BY ConfigAssumption
<1>1. CASE IsManager
  BY <1>0, <1>1, ManagerHooks DEF Cleanup, Closes
<1>2. CASE ~IsManager
  <2>1. "rabbit" \notin WorkerCloses(config)
    BY DEF WorkerCloses
  <2> QED BY <1>0, <1>2, <2>1, WorkerShutdown DEF Cleanup, Closes
<1> QED BY <1>1, <1>2

(* Every probe asks for what the process needs. *)
LEMMA CheckersSuffice ==
    ASSUME config \in Configs
    PROVE  /\ Checkers \subseteq Deps \ {"tm"}
           /\ HasSettings => Required("self") \subseteq Checkers /\ Required("readyz") \subseteq Checkers
           /\ Required("tenant") = {"mongodb", "rabbitmq"}
<1>0. {config.mt, config.redis.host, config.mtRedis.host} \subseteq BOOLEAN
  BY ConfigAssumption
<1>1. Checkers \subseteq Deps \ {"tm"}
  BY <1>0 DEF Checkers, Deps, M!BuildManagerReadyzCheckers, W!BuildWorkerReadyzCheckers
<1>2. Required("tenant") = {"mongodb", "rabbitmq"}
  BY <1>0 DEF Required
<1>3. ASSUME HasSettings, NEW kind \in {"self", "readyz"}
      PROVE  Required(kind) \subseteq Checkers
  <2>1. CASE config.mt = TRUE
    <3>1. Required(kind) = {"mt_redis"} \cup (IF IsManager THEN {} ELSE {"s3"})
      BY <1>3, <2>1 DEF Required
    <3> QED BY <1>0, <1>3, <2>1, <3>1 DEF HasSettings, Checkers, M!BuildManagerReadyzCheckers,
            W!BuildWorkerReadyzCheckers
  <2>2. CASE config.mt = FALSE
    <3>1. Required(kind) = {"mongodb", "rabbitmq"} \cup (IF IsManager THEN {} ELSE {"s3"})
      BY <1>3, <2>2 DEF Required
    <3> QED BY <1>0, <2>2, <3>1 DEF Checkers, M!BuildManagerReadyzCheckers,
            W!BuildWorkerReadyzCheckers
  <2> QED BY <1>0, <2>1, <2>2
<1> QED BY <1>1, <1>2, <1>3

LEMMA DrainIsTyped ==
    ASSUME config \in Configs
    PROVE  DrainDelay \in Int
<1>1. config.drain \in Int
  BY ConfigAssumption
<1> QED BY <1>1 DEF DrainDelay, ResolveServerDrainDelay, DefaultDrain, MinDrainDelay, DefaultDrainDelay

-----------------------------------------------------------------------------
(* What a step leaves alone, the invariant does not miss. *)

Keeps(fields) == \A f \in fields : proc'[f] = proc[f]

LEMMA SameConfig ==
    ASSUME UNCHANGED config
    PROVE  /\ IsManager' = IsManager /\ BootSteps' = BootSteps /\ Cleanup' = Cleanup
           /\ HasSettings' = HasSettings /\ OwnedAtExit' = OwnedAtExit
           /\ OwnedAtAbort' = OwnedAtAbort /\ Checkers' = Checkers /\ Apps' = Apps
           /\ \A kind : Required(kind)' = Required(kind)
           /\ LongDrain' <=> LongDrain
BY DEF IsManager, BootSteps, Cleanup, HasSettings, OwnedAtExit, OwnedAtAbort, Checkers, Apps,
   Required, LongDrain, DrainDelay

(* The clients, when the process goes on in its phase. *)
LEMMA LifeFrame ==
    ASSUME IInv, UNCHANGED config, Keeps({"phase", "step", "open", "closings"}),
           "consumer" \in proc'.running <=> "consumer" \in proc.running
    PROVE  OpenInv' /\ CloseInv'
<1> USE DEF IInv
<1>1. /\ proc'.phase = proc.phase /\ proc'.step = proc.step /\ proc'.open = proc.open
      /\ proc'.closings = proc.closings
  BY DEF Keeps
<1>2. OpenInv'
  BY <1>1, SameConfig DEF OpenInv
<1>3. \A r \in Clients : ClosedSoFar(r)' <=> ClosedSoFar(r)
  BY <1>1, SameConfig DEF ClosedSoFar
<1>4. ClosedExactlyOnce' <=> ClosedExactlyOnce
  BY <1>1, SameConfig DEF ClosedExactlyOnce
<1>5. CloseInv'
  BY <1>1, <1>3, <1>4, SameConfig DEF CloseInv
<1> QED BY <1>2, <1>5

LEMMA BootFrame ==
    ASSUME IInv, UNCHANGED config, Keeps({"phase", "step"}),
           probe'.kind = "self" => probe.kind = "self"
    PROVE  BootInv'
<1>1. proc'.phase = proc.phase /\ proc'.step = proc.step
  BY DEF Keeps
<1> QED BY <1>1, SameConfig DEF IInv, BootInv, Booting, Step

LEMMA DrainFrame ==
    ASSUME IInv, UNCHANGED <<config, kube>>, Keeps({"phase", "draining", "drainLeft"}),
           probe'.kind = "readyz" => probe.kind = "readyz"
    PROVE  DrainInv'
<1>1. /\ proc'.phase = proc.phase /\ proc'.draining = proc.draining
      /\ proc'.drainLeft = proc.drainLeft
  BY DEF Keeps
<1> QED BY <1>1, SameConfig DEF IInv, DrainInv

LEMMA TruthFrame ==
    ASSUME IInv, UNCHANGED <<config, probe, env>>, Keeps({"channel"})
    PROVE  TruthInv'
<1>1. proc'.channel = proc.channel
  BY DEF Keeps
<1> QED BY <1>1, SameConfig DEF IInv, TruthInv, Misled

-----------------------------------------------------------------------------
(* Bootstrap. *)

LEMMA StepTaken ==
    ASSUME NEW p \in Processes, NEW n \in Nat \ {0}, NEW o \in SUBSET Clients,
           NEW g \in SUBSET Goroutines, NEW ch \in Channels
    PROVE  [p EXCEPT !.step = n, !.open = o, !.running = g, !.channel = ch] \in Processes
BY DEF Processes

(* A step of the bootstrap that succeeds. *)
LEMMA BootStepInv ==
    ASSUME IInv, BootStep
    PROVE  IInv'
<1> USE DEF IInv
<1>1. /\ BootFacts /\ proc.step \in DOMAIN BootSteps /\ proc.step \in Nat
      /\ proc.phase = "boot" /\ ~Step.probes /\ ~Step.refuses
      /\ UNCHANGED <<config, probe, answer, kube, env>>
  BY BootFactsHold DEF BootStep, Booting, TypeOK, Processes, BootFacts
<1>2. /\ Step.opens \subseteq Clients /\ Step.starts \subseteq Goroutines
      /\ Step.connects \in BOOLEAN
  BY <1>1 DEF BootFacts, Step, Goroutines
<1>3. PICK b \in {"none", "live"} : b = Dial /\ (b = "live" => "rabbitmq" \in env.up)
  BY DEF Dial, BrokerAnswers
<1>4. /\ proc'.step = proc.step + 1 /\ proc'.open = proc.open \cup Step.opens
      /\ proc'.running = proc.running \cup Step.starts
      /\ proc'.channel = IF Step.connects THEN b ELSE proc.channel
      /\ Keeps({"phase", "closings", "signalled", "draining", "drainLeft", "selfProbe", "breaker"})
      /\ proc' \in Processes
  <2>0. proc.open \in SUBSET Clients /\ proc.running \in SUBSET Goroutines
    BY DEF TypeOK, Processes
  <2>1. PICK o \in SUBSET Clients : o = proc.open \cup Step.opens
    BY <1>2, <2>0
  <2>2. PICK g \in SUBSET Goroutines : g = proc.running \cup Step.starts
    BY <1>2, <2>0
  <2>3. PICK ch \in Channels : ch = IF Step.connects THEN b ELSE proc.channel
    BY <1>2, <1>3 DEF TypeOK, Processes, Channels
  <2>4. PICK n \in Nat \ {0} : n = proc.step + 1
    BY DEF TypeOK, Processes
  <2>5. proc' = [proc EXCEPT !.step = n, !.open = o, !.running = g, !.channel = ch]
    BY <1>3, <2>1, <2>2, <2>3, <2>4 DEF BootStep
  <2>6. proc' \in Processes
    <3>1. proc \in Processes
      BY DEF TypeOK
    <3> HIDE DEF IInv
    <3> QED BY <2>5, <3>1, StepTaken
  <2>7. /\ proc'.step = n /\ proc'.open = o /\ proc'.running = g /\ proc'.channel = ch
        /\ Keeps({"phase", "closings", "signalled", "draining", "drainLeft", "selfProbe", "breaker"})
    BY <2>5 DEF TypeOK, Processes, Keeps
  <2> QED BY <2>1, <2>2, <2>3, <2>4, <2>6, <2>7
<1>5. TypeOK'
  BY <1>1, <1>4 DEF TypeOK
<1>6. proc'.phase = "boot" /\ proc'.closings = proc.closings
  BY <1>1, <1>4 DEF Keeps
<1>7. BootInv'
  <2>1. proc'.step <= Len(BootSteps) + 1
    BY <1>1, <1>4 DEF BootFacts
  <2>2. proc'.step > 3 => HasSettings
    <3>1. CASE proc.step = 3 /\ IsManager
      BY <1>1, <3>1, ManagerBootFacts DEF TypeOK, Step
    <3>2. CASE proc.step > 3
      BY <1>1, <3>2 DEF BootInv
    <3>3. CASE ~IsManager
      BY <3>3 DEF HasSettings
    <3> QED BY <1>1, <1>4, <3>1, <3>2, <3>3
  <2>3. probe.kind # "self"
    BY <1>1 DEF BootInv
  <2> QED BY <1>1, <1>6, <2>1, <2>2, <2>3, SameConfig DEF BootInv
<1>8. OpenInv'
  <2>1. ASSUME NEW r \in proc'.open
        PROVE  \E i \in DOMAIN BootSteps : r \in BootSteps[i].opens /\ i < proc'.step
    BY <1>1, <1>4, <2>1 DEF OpenInv, Step, BootFacts
  <2> QED BY <1>1, <2>1, SameConfig DEF OpenInv
<1>9. CloseInv'
  BY <1>1, <1>6 DEF CloseInv, ClosedSoFar
<1>10. DrainInv'
  BY <1>1, <1>4, DrainFrame DEF Keeps
<1>11. TruthInv'
  BY <1>1, <1>3, <1>4, SameConfig DEF TruthInv, Misled
<1> QED BY <1>5, <1>7, <1>8, <1>9, <1>10, <1>11

(* A step that fails, at any point: what has an owner is closed, once. *)
LEMMA AbortInv ==
    ASSUME IInv, BootRefused \/ BootFails
    PROVE  IInv'
<1> USE DEF IInv
<1>1. /\ BootFacts /\ proc.step \in DOMAIN BootSteps /\ proc.step \in Nat
      /\ proc.phase = "boot" /\ ~Step.probes
      /\ proc' = Aborted
      /\ UNCHANGED <<config, probe, answer, kube>>
  BY BootFactsHold DEF BootRefused, BootFails, Booting, TypeOK, Processes, BootFacts
<1>2. /\ env'.up = env.up
      /\ env' \in [up: SUBSET Deps, outages: Nat, faults: Nat, signals: Nat]
  BY DEF BootRefused, BootFails, Fault, TypeOK
<1>3. \A r \in Clients : proc.closings[r] = 0
  BY <1>1 DEF CloseInv, ClosedSoFar
<1>4. /\ proc'.phase = "aborted" /\ proc'.closings \in [Clients -> Nat]
      /\ Keeps({"step", "open", "signalled", "draining", "drainLeft", "selfProbe", "channel", "breaker"})
      /\ proc' \in Processes
      /\ \A r \in Clients : proc'.closings[r] =
            IF r \in proc.open /\ (IF IsManager THEN r \in Step.undoes ELSE r \in {"tm", "service_tm"})
            THEN 1 ELSE 0
  <2> DEFINE p == [proc EXCEPT !.running = @ \ Step.undoes]
             u == Step.undoes \cap proc.open
             q == Closed(p, u)
  <2>1. /\ p \in Processes /\ p.open = proc.open /\ p.closings = proc.closings
        /\ \A f \in {"phase", "step", "open", "closings", "signalled", "draining", "drainLeft", "selfProbe",
                     "channel", "breaker"} : p[f] = proc[f]
    BY DEF TypeOK, Processes
  <2> HIDE DEF p
  <2>2. /\ q \in Processes /\ q.open = proc.open
        /\ \A r \in Clients : q.closings[r] = IF r \in u THEN 1 ELSE 0
        /\ \A f \in {"phase", "step", "open", "signalled", "draining", "drainLeft", "selfProbe",
                     "channel", "breaker"} : q[f] = proc[f]
    BY <1>3, <2>1 DEF Closed, Processes
  <2> HIDE DEF q
  <2>3. Aborted = [Guarded(q, FALSE) EXCEPT !.phase = "aborted"]
    BY DEF Aborted, q, p, u
  <2>4. CASE IsManager
    BY <1>1, <2>2, <2>3, <2>4 DEF Guarded, Processes, Phases, Keeps, u
  <2>5. CASE ~IsManager
    <3> DEFINE g == {"tm", "service_tm"} \cap proc.open
    <3>1. Guarded(q, FALSE) = Closed(q, g)
      <4>1. W!CloseSharedTMClientIfUnowned(q.open, FALSE)
              \cup W!ClosePerServiceTMClientsIfUnowned(q.open, FALSE) = g
        BY <2>2 DEF W!CloseSharedTMClientIfUnowned, W!ClosePerServiceTMClientsIfUnowned
      <4> QED BY <2>5, <4>1 DEF Guarded
    <3>2. u = {}
      BY <1>1, <2>5 DEF BootFacts, Step
    <3> HIDE DEF g, u
    <3>3. PICK z : z = Closed(q, g)
      OBVIOUS
    <3>4. /\ z \in Processes
          /\ \A r \in Clients : z.closings[r] = IF r \in g THEN 1 ELSE 0
          /\ \A f \in {"phase", "step", "open", "signalled", "draining", "drainLeft", "selfProbe",
                       "channel", "breaker"} : z[f] = proc[f]
      BY <2>2, <3>2, <3>3 DEF Closed, Processes
    <3>5. proc' = [z EXCEPT !.phase = "aborted"]
      BY <1>1, <2>3, <3>1, <3>3
    <3> QED BY <2>5, <3>4, <3>5 DEF Processes, Phases, Keeps, g
  <2> QED BY <2>4, <2>5
<1>5. /\ proc'.open = proc.open /\ proc'.step = proc.step
  BY <1>4 DEF Keeps
<1>6. TypeOK'
  BY <1>1, <1>2, <1>4 DEF TypeOK
<1>7. BootInv'
  <2>1. probe.kind # "self"
    BY <1>1 DEF BootInv
  <2> QED BY <1>1, <1>4, <2>1 DEF BootInv
<1>8. OpenInv'
  BY <1>1, <1>4, <1>5, SameConfig DEF OpenInv
<1>9. ClosedExactlyOnce'
  <2>1. \A r \in Clients : proc'.closings[r] <= 1
    BY <1>4
  <2>2. ASSUME NEW r \in proc.open \cap OwnedAtAbort
        PROVE  proc'.closings[r] = 1
    <3>0. r \in Clients
      BY DEF TypeOK, Processes
    <3>1. CASE ~IsManager
      BY <1>4, <2>2, <3>0, <3>1 DEF OwnedAtAbort
    <3>2. CASE IsManager
      <4>1. r = "event_redis"
        BY <2>2, <3>2 DEF OwnedAtAbort
      <4>2. PICK i \in DOMAIN BootSteps : "event_redis" \in BootSteps[i].opens /\ i < proc.step
        BY <1>1, <2>2, <4>1 DEF OpenInv
      <4>3. /\ i \notin 1..3
            /\ ~BootSteps[3].refuses => HasSettings
            /\ config.mt /\ HasSettings => BootSteps[proc.step].probes
                                           \/ "event_redis" \in BootSteps[proc.step].undoes
        BY <1>1, <3>2, <4>2, ManagerBootFacts DEF TypeOK
      <4>4. HasSettings
        BY <1>1, <4>2, <4>3 DEF BootInv, BootFacts
      <4>5. config.mt
        <5>1. "event_redis" \in BootSteps[i].opens \cap OwnedAtExit
          BY <3>2, <4>2 DEF OwnedAtExit
        <5>2. "event_redis" \in ManagerCloses(config)
          BY <1>1, <3>2, <5>1 DEF BootFacts, Closes
        <5> QED BY <5>2 DEF ManagerCloses
      <4>6. "event_redis" \in Step.undoes
        BY <1>1, <4>3, <4>4, <4>5 DEF Step
      <4> QED BY <1>4, <2>2, <3>0, <3>2, <4>1, <4>6
    <3> QED BY <3>1, <3>2
  <2> QED BY <1>1, <1>4, <1>5, <2>1, <2>2, SameConfig DEF ClosedExactlyOnce
<1>10. CloseInv'
  BY <1>4, <1>9 DEF CloseInv
<1>11. DrainInv'
  BY <1>1, <1>4, SameConfig DEF DrainInv, Keeps
<1>12. TruthInv'
  BY <1>1, <1>2, <1>4, SameConfig DEF TruthInv, Misled, Keeps
<1> QED BY <1>6, <1>7, <1>8, <1>10, <1>11, <1>12

LEMMA PhaseAndApps ==
    ASSUME NEW p \in Processes, NEW ph \in Phases, NEW n \in Nat \ {0}, NEW g \in SUBSET Goroutines
    PROVE  [p EXCEPT !.phase = ph, !.step = n, !.running = g] \in Processes
BY DEF Processes

(* The same, written in the order of CloseServer. *)
LEMMA AppsAndPhase ==
    ASSUME NEW p \in Processes, NEW ph \in Phases, NEW n \in Nat \ {0}, NEW g \in SUBSET Goroutines
    PROVE  [p EXCEPT !.running = g, !.phase = ph, !.step = n] \in Processes
BY DEF Processes

(* A change of phase alone. *)
LEMMA PhaseAlone ==
    ASSUME NEW p \in Processes, NEW ph \in Phases, NEW n \in Nat \ {0}
    PROVE  [p EXCEPT !.phase = ph, !.step = n] \in Processes
BY DEF Processes

(* The bootstrap is over: the guards close nothing, and the apps start. *)
LEMMA RunInv ==
    ASSUME IInv, Run
    PROVE  IInv'
<1>1. /\ BootFacts /\ proc \in Processes
      /\ proc.phase = "boot" /\ proc.step > Len(BootSteps)
      /\ UNCHANGED <<config, probe, answer, kube, env>>
  BY BootFactsHold DEF IInv, TypeOK, Run
<1>2. \A r \in Clients : proc.closings[r] = 0
  BY <1>1 DEF IInv, CloseInv, ClosedSoFar
<1>3. Apps \subseteq Goroutines /\ (~IsManager => "consumer" \in Apps)
  BY DEF Apps, Goroutines, W!RunLauncher
<1>4. Guarded(proc, TRUE) = proc
  <2>1. CASE IsManager
    BY <2>1 DEF Guarded
  <2>2. CASE ~IsManager
    <3>1. Guarded(proc, TRUE) = Closed(proc, {})
      <4>1. W!CloseSharedTMClientIfUnowned(proc.open, TRUE)
              \cup W!ClosePerServiceTMClientsIfUnowned(proc.open, TRUE) = {}
        BY DEF W!CloseSharedTMClientIfUnowned, W!ClosePerServiceTMClientsIfUnowned
      <4> QED BY <2>2, <4>1 DEF Guarded
    <3>2. [r \in Clients |-> proc.closings[r] + (IF r \in {} THEN 1 ELSE 0)] = proc.closings
      BY <1>1 DEF Processes
    <3>3. Closed(proc, {}) = [proc EXCEPT !.closings = proc.closings]
      BY <3>2 DEF Closed
    <3>4. [proc EXCEPT !.closings = proc.closings] = proc
      BY <1>1 DEF Processes
    <3> QED BY <3>1, <3>3, <3>4
  <2> QED BY <2>1, <2>2
<1>5. PICK g \in SUBSET Goroutines : g = proc.running \cup Apps
  BY <1>1, <1>3 DEF Processes
<1>6. proc' = [proc EXCEPT !.phase = "serving", !.step = 1, !.running = g]
  BY <1>4, <1>5 DEF Run
<1>7. /\ proc'.phase = "serving" /\ proc'.running = g
      /\ proc'.open = proc.open /\ proc'.closings = proc.closings
      /\ Keeps({"draining", "drainLeft", "channel"})
      /\ proc' \in Processes
  <2>1. proc' \in Processes
    <3>1. "serving" \in Phases /\ 1 \in Nat \ {0}
      BY DEF Phases
    <3>2. [proc EXCEPT !.phase = "serving", !.step = 1, !.running = g] \in Processes
      BY <1>1, <1>5, <3>1, PhaseAndApps
    <3> QED BY <1>6, <3>2
  <2> QED BY <1>1, <1>6, <2>1 DEF Processes, Keeps
<1>8. TypeOK'
  BY <1>1, <1>7 DEF IInv, TypeOK
<1>9. BootInv'
  <2>1. HasSettings
    <3>1. CASE IsManager
      <4>1. proc.step > 3
        BY <1>1, <3>1, ManagerBootFacts DEF IInv, TypeOK, Processes, BootFacts
      <4> QED BY <1>1, <4>1 DEF IInv, BootInv
    <3>2. CASE ~IsManager
      BY <3>2 DEF HasSettings
    <3> QED BY <3>1, <3>2
  <2>2. probe.kind # "self"
    BY <1>1 DEF IInv, BootInv, Booting, BootFacts, Processes
  <2> QED BY <1>1, <1>7, <2>1, <2>2, SameConfig DEF BootInv
<1>10. OpenInv'
  BY <1>1, <1>7, SameConfig DEF IInv, OpenInv
<1>11. CloseInv'
  <2>1. \A r \in Clients : ~ClosedSoFar(r)'
    BY <1>1, <1>3, <1>5, <1>7, SameConfig DEF ClosedSoFar
  <2> QED BY <1>2, <1>7, <2>1 DEF CloseInv
<1>12. DrainInv'
  BY <1>1, <1>7, SameConfig DEF IInv, DrainInv, Keeps
<1>13. TruthInv'
  BY <1>1, <1>7, TruthFrame DEF Keeps
<1> QED BY <1>8, <1>9, <1>10, <1>11, <1>12, <1>13 DEF IInv

LEMMA RestartInv ==
    ASSUME IInv, Restart
    PROVE  IInv'
<1>1. /\ BootFacts /\ proc.phase \in {"aborted", "killed", "stopped"} /\ proc' = Fresh
      /\ kube' = [ready |-> FALSE, since |-> 0] /\ answer' = NoAnswer
      /\ UNCHANGED <<config, probe, env>>
  BY BootFactsHold DEF IInv, TypeOK, Restart
<1>2. Fresh \in Processes
  BY DEF Fresh, Processes, Phases, Channels
<1>3. /\ proc'.phase = "boot" /\ proc'.step = 1 /\ proc'.open = {}
      /\ \A r \in Clients : proc'.closings[r] = 0
      /\ proc'.draining = FALSE /\ proc'.channel = "none"
  BY <1>1 DEF Fresh
<1>4. TypeOK'
  <2>1. kube' \in [ready: BOOLEAN, since: 0..ProbePeriod]
    BY <1>1, ProbeAssumption DEF MinDrainDelay
  <2>2. answer' \in [kind: ProbeKinds, code: {0, 200, 400, 404, 503}]
    BY <1>1 DEF NoAnswer, ProbeKinds
  <2> QED BY <1>1, <1>2, <2>1, <2>2 DEF IInv, TypeOK
<1>5. BootInv'
  <2>1. probe.kind # "self"
    BY <1>1 DEF IInv, BootInv, Booting
  <2> QED BY <1>1, <1>3, <2>1, SameConfig DEF BootInv, BootFacts
<1>6. OpenInv'
  BY <1>3 DEF OpenInv
<1>7. CloseInv'
  BY <1>3 DEF CloseInv, ClosedSoFar
<1>8. DrainInv'
  BY <1>3 DEF DrainInv
<1>9. TruthInv'
  BY <1>1, <1>3, SameConfig DEF IInv, TruthInv, Misled
<1> QED BY <1>4, <1>5, <1>6, <1>7, <1>8, <1>9 DEF IInv

-----------------------------------------------------------------------------
(* Probes. *)

Probes  == [kind: ProbeKinds, waiting: SUBSET (Deps \ {"tm"}),
            statuses: SUBSET {"up", "down", "degraded"}, sawUp: SUBSET Deps,
            stale: BOOLEAN]
Answers == [kind: ProbeKinds, code: {0, 200, 400, 404, 503}]

(* A probe that asks for what the process needs begins truthful. *)
LEMMA ProbeStarts ==
    ASSUME IInv, NEW kind \in {"self", "readyz", "tenant"}, NEW asked \in SUBSET (Deps \ {"tm"}),
           Required(kind) \subseteq asked, StartProbe(kind, asked),
           UNCHANGED <<config, env>>, Keeps({"channel"})
    PROVE  probe' \in Probes /\ answer' \in Answers /\ probe'.kind = kind /\ TruthInv'
<1>0. PICK st \in BOOLEAN : st = (proc.channel = "dead")
  OBVIOUS
<1>1. /\ probe' = [kind |-> kind, waiting |-> asked, statuses |-> {}, sawUp |-> env.up,
                   stale |-> st]
      /\ answer' = NoAnswer
  BY <1>0 DEF StartProbe
<1>2. env.up \in SUBSET Deps
  BY DEF IInv, TypeOK
<1>3. probe' \in Probes /\ answer' \in Answers
  BY <1>1, <1>2 DEF Probes, Answers, ProbeKinds, NoAnswer
<1>4. /\ probe'.kind = kind /\ probe'.waiting = asked /\ probe'.sawUp = env.up
      /\ proc.channel = "dead" => probe'.stale = TRUE
  BY <1>0, <1>1
<1>5. Required(kind)' = Required(kind)
  BY SameConfig
<1>6. TruthInv'
  BY <1>4, <1>5 DEF IInv, TruthInv, Keeps
<1> QED BY <1>3, <1>4, <1>6

(* The self-probe comes after the Manager's checks of its settings. *)
LEMMA ProbeComesLate ==
    ASSUME IInv, Booting, Step.probes
    PROVE  HasSettings
<1>1. config \in Configs /\ proc \in Processes
  BY DEF IInv, TypeOK
<1>2. CASE IsManager
  <2>1. \A i \in 1..3 : BootSteps[i].probes = FALSE
    BY <1>1, <1>2, ManagerBootFacts
  <2>2. BootSteps[proc.step].probes
    BY DEF Step
  <2>3. proc.step \notin 1..3
    BY <2>1, <2>2
  <2>4. proc.step > 3
    BY <1>1, <2>3 DEF Processes
  <2> QED BY <2>4 DEF IInv, BootInv, Booting
<1>3. CASE ~IsManager
  BY <1>3 DEF HasSettings
<1> QED BY <1>2, <1>3

LEMMA RunSelfProbeInv ==
    ASSUME IInv, RunSelfProbe
    PROVE  IInv'
<1>1. /\ BootFacts /\ proc \in Processes /\ Booting /\ Step.probes
      /\ proc' = [proc EXCEPT !.selfProbe = FALSE]
      /\ StartProbe("self", Checkers)
      /\ UNCHANGED <<config, kube, env>>
  BY BootFactsHold DEF IInv, TypeOK, RunSelfProbe
<1>2. /\ proc' \in Processes /\ proc'.running = proc.running
      /\ Keeps({"phase", "step", "open", "closings", "draining", "drainLeft", "channel"})
  BY <1>1 DEF Processes, Keeps
<1>3. HasSettings
  BY <1>1, ProbeComesLate
<1>4. /\ probe' \in Probes /\ answer' \in Answers /\ probe'.kind = "self" /\ TruthInv'
  <2>1. Checkers \in SUBSET (Deps \ {"tm"}) /\ Required("self") \subseteq Checkers
    BY <1>3, CheckersSuffice DEF IInv, TypeOK
  <2>2. Keeps({"channel"})
    BY <1>2 DEF Keeps
  <2> QED BY <1>1, <2>1, <2>2, ProbeStarts
<1>5. TypeOK'
  BY <1>1, <1>2, <1>4 DEF IInv, TypeOK, Probes, Answers
<1>6. BootInv'
  <2>1. proc'.phase = proc.phase /\ proc'.step = proc.step
    BY <1>2 DEF Keeps
  <2>2. Booting' /\ Step'.probes
    BY <1>1, <2>1, SameConfig DEF Booting, Step
  <2> QED BY <1>1, <2>1, <2>2, SameConfig DEF IInv, BootInv
<1>7. OpenInv' /\ CloseInv'
  BY <1>1, <1>2, LifeFrame DEF Keeps
<1>8. DrainInv'
  <2>1. Keeps({"phase", "draining", "drainLeft"}) /\ (probe'.kind = "readyz" => probe.kind = "readyz")
    BY <1>2, <1>4 DEF Keeps
  <2> QED BY <1>1, <2>1, DrainFrame
<1> QED BY <1>4, <1>5, <1>6, <1>7, <1>8 DEF IInv

(* A checker says "up" only of what was up since the probe began; RabbitMQ's *)
(* looks at the channel, which had a broker then, or was dead already.      *)
LEMMA CheckIsTruthful ==
    ASSUME IInv, probe.kind # "none", NEW d \in probe.waiting
    PROVE  /\ Check(d) \in {"up", "down", "degraded"}
           /\ Check(d) = "up" => d \in probe.sawUp \/ Misled(d)
<1>1. /\ d \in Deps \ {"tm"} /\ proc.channel \in Channels
      /\ env.up \subseteq probe.sawUp
      /\ proc.channel = "live" => "rabbitmq" \in env.up
      /\ proc.channel = "dead" => probe.stale = TRUE \/ "rabbitmq" \in probe.sawUp
  BY DEF IInv, TypeOK, TruthInv, Processes
<1>2. CASE d = "mongodb"
  BY <1>1, <1>2 DEF Check, MongoClientCheck
<1>3. CASE d = "rabbitmq" /\ probe.kind = "tenant"
  BY <1>1, <1>3 DEF Check
<1>4. CASE d = "rabbitmq" /\ probe.kind # "tenant"
  <2>0. PICK healthy \in BOOLEAN : healthy = (proc.channel # "none")
    OBVIOUS
  <2>1. Check(d) = RabbitMQAdapterCheck(proc.breaker, healthy)
    BY <1>4, <2>0 DEF Check
  <2>2. CASE proc.breaker = "open"
    BY <2>1, <2>2 DEF RabbitMQAdapterCheck
  <2>3. CASE proc.breaker = "half_open"
    BY <2>1, <2>3 DEF RabbitMQAdapterCheck
  <2>4. CASE proc.breaker \notin {"open", "half_open"}
    <3>1. proc.channel # "none" => d \in probe.sawUp \/ Misled(d)
      BY <1>1, <1>4 DEF Channels, Misled
    <3> QED BY <2>0, <2>1, <2>4, <3>1 DEF RabbitMQAdapterCheck
  <2> QED BY <2>2, <2>3, <2>4
<1>5. CASE d \in {"redis", "mt_redis"}
  BY <1>1, <1>5 DEF Check, RedisClientCheck
<1>6. CASE d = "s3"
  BY <1>1, <1>6 DEF Check, S3BucketCheck
<1> QED BY <1>1, <1>2, <1>3, <1>4, <1>5, <1>6 DEF Deps

LEMMA CheckIsTyped ==
    ASSUME IInv, NEW d \in probe.waiting
    PROVE  Check(d) \in {"up", "down", "degraded"}
<1>1. d \in Deps \ {"tm"}
  BY DEF IInv, TypeOK
<1> QED BY <1>1 DEF Deps, Check, MongoClientCheck, RabbitMQAdapterCheck, RedisClientCheck, S3BucketCheck

(* A checker that comes back, in time or not. *)
LEMMA CheckInv ==
    ASSUME IInv, NEW d, CheckReturns(d) \/ CheckTimesOut(d)
    PROVE  IInv'
<1>1. /\ d \in probe.waiting /\ probe \in Probes /\ proc \in Processes
      /\ UNCHANGED <<config, proc, answer, kube>>
  BY DEF IInv, TypeOK, Probes, CheckReturns, CheckTimesOut
<1>2. /\ env'.up = env.up
      /\ env' \in [up: SUBSET Deps, outages: Nat, faults: Nat, signals: Nat]
  <2>1. env \in [up: SUBSET Deps, outages: Nat, faults: Nat, signals: Nat]
    BY DEF IInv, TypeOK
  <2>2. UNCHANGED env \/ Fault
    BY DEF CheckReturns, CheckTimesOut
  <2> QED BY <2>1, <2>2 DEF Fault
<1>3. PICK status \in {"up", "down", "degraded"} :
        /\ Reports(d, status)
        /\ probe.kind # "none" /\ status = "up" => d \in probe.sawUp \/ Misled(d)
  <2>1. CASE CheckReturns(d)
    <3>1. PICK st : st = Check(d)
      OBVIOUS
    <3>2. Reports(d, st)
      BY <2>1, <3>1 DEF CheckReturns, RunWithDeadline
    <3>3. CASE probe.kind # "none"
      BY <1>1, <3>1, <3>2, <3>3, CheckIsTruthful
    <3>4. CASE probe.kind = "none"
      BY <1>1, <3>1, <3>2, <3>4, CheckIsTyped
    <3> QED BY <3>3, <3>4
  <2>2. CASE CheckTimesOut(d)
    BY <2>2 DEF CheckTimesOut, RunWithDeadline
  <2> QED BY <2>1, <2>2
<1>4. /\ probe'.kind = probe.kind /\ probe'.waiting = probe.waiting \ {d}
      /\ probe'.statuses = probe.statuses \cup {status} /\ probe'.sawUp = probe.sawUp
      /\ probe'.stale = probe.stale /\ probe' \in Probes
  BY <1>1, <1>3 DEF Reports, Probes
<1>5. Keeps({"phase", "step", "open", "closings", "draining", "drainLeft", "channel"})
  BY <1>1 DEF Keeps
<1>6. TypeOK'
  BY <1>1, <1>2, <1>4 DEF IInv, TypeOK, Probes
<1>7. BootInv'
  <2>1. Keeps({"phase", "step"})
    BY <1>5 DEF Keeps
  <2> QED BY <1>1, <1>4, <2>1, BootFrame
<1>8. OpenInv' /\ CloseInv'
  <2>1. Keeps({"phase", "step", "open", "closings"})
    BY <1>5 DEF Keeps
  <2> QED BY <1>1, <2>1, LifeFrame
<1>9. DrainInv'
  <2>1. Keeps({"phase", "draining", "drainLeft"})
    BY <1>5 DEF Keeps
  <2> QED BY <1>1, <1>4, <2>1, DrainFrame
<1>10. TruthInv'
  <2>1. \A kind : Required(kind)' = Required(kind)
    BY <1>1, SameConfig
  <2>2. ASSUME probe.kind # "none", NEW e \in Required(probe.kind)
        PROVE  \/ e \in probe'.waiting \cup probe'.sawUp
               \/ probe'.statuses \cap {"down", "degraded"} # {}
               \/ Misled(e)
    <3>1. \/ e \in probe.waiting \cup probe.sawUp
          \/ probe.statuses \cap {"down", "degraded"} # {}
          \/ Misled(e)
      BY <2>2 DEF IInv, TruthInv
    <3> QED BY <1>3, <1>4, <2>2, <3>1
  <2>3. \A e : Misled(e)' <=> Misled(e)
    BY <1>4 DEF Misled
  <2> QED BY <1>1, <1>2, <1>4, <2>1, <2>2, <2>3 DEF IInv, TruthInv
<1> QED BY <1>6, <1>7, <1>8, <1>9, <1>10 DEF IInv

LEMMA NoProbeTyped == NoProbe \in Probes /\ NoProbe.kind = "none"
BY DEF NoProbe, Probes, ProbeKinds

LEMMA SelfProbeEndsInv ==
    ASSUME IInv, SelfProbeEnds
    PROVE  IInv'
<1>1. /\ BootFacts /\ proc \in Processes /\ Booting /\ Step.probes
      /\ probe' = NoProbe /\ UNCHANGED <<config, kube, env>>
  BY BootFactsHold DEF IInv, TypeOK, BootInv, SelfProbeEnds
<1>2. PICK passed \in BOOLEAN : passed = \A s \in probe.statuses : IsSelfProbeHealthyStatus(s)
  OBVIOUS
<1>3. answer' \in Answers
  BY <1>2 DEF SelfProbeEnds, Answer, Answers, ProbeKinds
<1>4. /\ proc' \in Processes /\ proc'.step = proc.step + 1
      /\ Keeps({"phase", "open", "closings", "draining", "drainLeft", "channel"})
  <2>1. PICK n \in Nat \ {0} : n = proc.step + 1
    BY <1>1 DEF Processes
  <2>2. proc' = [proc EXCEPT !.selfProbe = passed, !.step = n]
    BY <1>2, <2>1 DEF SelfProbeEnds
  <2> QED BY <1>1, <2>1, <2>2 DEF Processes, Keeps
<1>5. /\ proc.phase = "boot" /\ proc'.phase = "boot" /\ proc'.open = proc.open
      /\ proc'.closings = proc.closings /\ proc.step \in Nat /\ proc.step <= Len(BootSteps)
  BY <1>1, <1>4 DEF Booting, Keeps, Processes
<1>6. TypeOK'
  BY <1>1, <1>3, <1>4, NoProbeTyped DEF IInv, TypeOK, Probes, Answers
<1>7. BootInv'
  <2>1. HasSettings
    BY <1>1, ProbeComesLate
  <2>2. proc'.step <= Len(BootSteps) + 1
    BY <1>1, <1>4, <1>5 DEF BootFacts
  <2> QED BY <1>1, <1>5, <2>1, <2>2, SameConfig, NoProbeTyped DEF BootInv
<1>8. OpenInv'
  <2>1. ASSUME NEW r \in proc.open
        PROVE  \E i \in DOMAIN BootSteps : r \in BootSteps[i].opens /\ i < proc'.step
    BY <1>1, <1>4, <1>5, <2>1 DEF IInv, OpenInv, BootFacts
  <2> QED BY <1>1, <1>5, <2>1, SameConfig DEF OpenInv
<1>9. CloseInv'
  BY <1>5 DEF IInv, CloseInv, ClosedSoFar
<1>10. DrainInv'
  <2>1. Keeps({"phase", "draining", "drainLeft"})
    BY <1>4 DEF Keeps
  <2> QED BY <1>1, <2>1, DrainFrame, NoProbeTyped
<1>11. TruthInv'
  BY <1>1, <1>4, NoProbeTyped DEF IInv, TruthInv, Keeps
<1> QED BY <1>6, <1>7, <1>8, <1>9, <1>10, <1>11 DEF IInv

(* What does not touch the process itself. *)
LEMMA ProcessKept ==
    ASSUME IInv, UNCHANGED <<config, proc>>,
           probe'.kind = "self" => probe.kind = "self"
    PROVE  BootInv' /\ OpenInv' /\ CloseInv'
<1>1. Keeps({"phase", "step"}) /\ Keeps({"phase", "step", "open", "closings"})
  BY DEF Keeps
<1> QED BY <1>1, BootFrame, LifeFrame

LEMMA KubeProbeInv ==
    ASSUME IInv, KubeProbe
    PROVE  IInv'
<1>1. /\ proc.phase \in {"serving", "cleanup"} /\ probe.kind = "none"
      /\ UNCHANGED <<config, proc, env>> /\ Keeps({"channel"})
      /\ kube \in [ready: BOOLEAN, since: 0..ProbePeriod] /\ ProbePeriod \in Nat
  BY ProbeAssumption DEF KubeProbe, Keeps, IInv, TypeOK, MinDrainDelay
<1>2. CASE Listening /\ ~proc.draining
  <2>1. StartProbe("readyz", Checkers) /\ kube' = [kube EXCEPT !.since = 0]
    BY <1>2 DEF KubeProbe
  <2>2. Checkers \in SUBSET (Deps \ {"tm"}) /\ Required("readyz") \subseteq Checkers
    BY <1>2, CheckersSuffice DEF IInv, TypeOK, BootInv, Listening
  <2>3. probe' \in Probes /\ answer' \in Answers /\ probe'.kind = "readyz" /\ TruthInv'
    BY <1>1, <2>1, <2>2, ProbeStarts
  <2>4. kube' \in [ready: BOOLEAN, since: 0..ProbePeriod]
    BY <1>1, <2>1
  <2>5. TypeOK'
    BY <1>1, <2>3, <2>4 DEF IInv, TypeOK, Probes, Answers
  <2>6. DrainInv'
    BY <1>1, <1>2 DEF DrainInv, Listening
  <2>7. BootInv' /\ OpenInv' /\ CloseInv'
    BY <1>1, <2>3, ProcessKept
  <2> QED BY <2>3, <2>5, <2>6, <2>7 DEF IInv
<1>3. CASE ~(Listening /\ ~proc.draining)
  <2>1. /\ answer' = [kind |-> "readyz", code |-> 503] /\ UNCHANGED probe
        /\ kube' = [ready |-> FALSE, since |-> 0]
    BY <1>3 DEF KubeProbe, Answer
  <2>2. kube' \in [ready: BOOLEAN, since: 0..ProbePeriod] /\ kube'.ready = FALSE
    BY <1>1, <2>1
  <2>3. answer' \in Answers
    BY <2>1 DEF Answers, ProbeKinds
  <2>4. TypeOK'
    BY <1>1, <2>1, <2>2, <2>3 DEF IInv, TypeOK, Answers
  <2>5. DrainInv'
    BY <1>1, <2>1, <2>2, SameConfig DEF DrainInv
  <2>6. BootInv' /\ OpenInv' /\ CloseInv'
    BY <1>1, <2>1, ProcessKept
  <2>7. TruthInv'
    BY <1>1, <2>1, TruthFrame
  <2> QED BY <2>4, <2>5, <2>6, <2>7 DEF IInv
<1> QED BY <1>2, <1>3

LEMMA ReadyzAnswersInv ==
    ASSUME IInv, ReadyzAnswers
    PROVE  IInv'
<1>1. /\ probe.kind = "readyz" /\ probe' = NoProbe
      /\ UNCHANGED <<config, proc, env>> /\ Keeps({"channel"})
      /\ kube \in [ready: BOOLEAN, since: 0..ProbePeriod] /\ ProbePeriod \in Nat
  BY ProbeAssumption DEF ReadyzAnswers, Keeps, IInv, TypeOK, MinDrainDelay
<1>2. PICK code \in {200, 503} : code = AggregateStatus(probe.statuses)
  BY DEF AggregateStatus
<1>3. PICK b \in BOOLEAN : b = (code = 200)
  OBVIOUS
<1>4. answer' = [kind |-> "readyz", code |-> code] /\ kube' = [kube EXCEPT !.ready = b]
  BY <1>2, <1>3 DEF ReadyzAnswers, Answer
<1>5. kube' \in [ready: BOOLEAN, since: 0..ProbePeriod] /\ kube'.since = kube.since
  BY <1>1, <1>4
<1>6. answer' \in Answers
  BY <1>4 DEF Answers, ProbeKinds
<1>7. TypeOK'
  BY <1>1, <1>5, <1>6, NoProbeTyped DEF IInv, TypeOK, Probes, Answers
<1>8. DrainInv'
  BY <1>1, <1>5, SameConfig DEF IInv, DrainInv
<1>9. BootInv' /\ OpenInv' /\ CloseInv'
  BY <1>1, NoProbeTyped, ProcessKept
<1>10. TruthInv'
  BY <1>1, NoProbeTyped DEF IInv, TruthInv
<1> QED BY <1>7, <1>8, <1>9, <1>10 DEF IInv

LEMMA TenantProbeInv ==
    ASSUME IInv, NEW known \in BOOLEAN, TenantProbe(known)
    PROVE  IInv'
<1>1. /\ Listening /\ probe.kind = "none"
      /\ UNCHANGED <<config, proc, kube, env>> /\ Keeps({"channel"})
      /\ Keeps({"phase", "draining", "drainLeft"})
  BY DEF TenantProbe, Keeps
<1>2. CASE StartProbe("tenant", {"mongodb", "rabbitmq"})
  <2>1. probe' \in Probes /\ answer' \in Answers /\ probe'.kind = "tenant" /\ TruthInv'
    <3>1. /\ {"mongodb", "rabbitmq"} \in SUBSET (Deps \ {"tm"})
          /\ Required("tenant") \subseteq {"mongodb", "rabbitmq"}
      BY CheckersSuffice DEF IInv, TypeOK, Deps
    <3> QED BY <1>1, <1>2, <3>1, ProbeStarts
  <2>2. TypeOK'
    BY <1>1, <2>1 DEF IInv, TypeOK, Probes, Answers
  <2>3. DrainInv'
    BY <1>1, <2>1, DrainFrame
  <2>4. BootInv' /\ OpenInv' /\ CloseInv'
    BY <1>1, <2>1, ProcessKept
  <2> QED BY <2>1, <2>2, <2>3, <2>4 DEF IInv
<1>3. CASE ~StartProbe("tenant", {"mongodb", "rabbitmq"})
  <2>1. PICK code \in {400, 404, 503} :
          answer' = [kind |-> "tenant", code |-> code] /\ UNCHANGED probe
    BY <1>3 DEF TenantProbe, Answer
  <2>2. answer' \in Answers
    BY <2>1 DEF Answers, ProbeKinds
  <2>3. TypeOK'
    BY <1>1, <2>1, <2>2 DEF IInv, TypeOK, Answers
  <2>4. DrainInv'
    BY <1>1, <2>1, DrainFrame
  <2>5. BootInv' /\ OpenInv' /\ CloseInv'
    BY <1>1, <2>1, ProcessKept
  <2>6. TruthInv'
    BY <1>1, <2>1, TruthFrame
  <2> QED BY <2>3, <2>4, <2>5, <2>6 DEF IInv
<1> QED BY <1>2, <1>3

LEMMA TenantProbeAnswersInv ==
    ASSUME IInv, TenantProbeAnswers
    PROVE  IInv'
<1>1. /\ probe' = NoProbe /\ UNCHANGED <<config, proc, kube, env>>
      /\ Keeps({"phase", "draining", "drainLeft"})
      /\ answer' = [kind |-> "tenant", code |-> AggregateStatus(probe.statuses)]
  BY DEF TenantProbeAnswers, Keeps, Answer
<1>2. answer' \in Answers
  BY <1>1 DEF Answers, ProbeKinds, AggregateStatus
<1>3. TypeOK'
  BY <1>1, <1>2, NoProbeTyped DEF IInv, TypeOK, Probes, Answers
<1>4. DrainInv'
  BY <1>1, NoProbeTyped, DrainFrame
<1>5. BootInv' /\ OpenInv' /\ CloseInv'
  BY <1>1, NoProbeTyped, ProcessKept
<1>6. TruthInv'
  BY <1>1, NoProbeTyped DEF IInv, TruthInv
<1> QED BY <1>3, <1>4, <1>5, <1>6 DEF IInv

LEMMA HealthProbeInv ==
    ASSUME IInv, HealthProbe
    PROVE  IInv'
<1>1. /\ proc \in Processes /\ proc' = [proc EXCEPT !.signalled = TRUE]
      /\ UNCHANGED <<config, probe, answer, kube, env>>
  BY DEF IInv, TypeOK, HealthProbe
<1>2. /\ proc' \in Processes /\ proc'.running = proc.running
      /\ Keeps({"phase", "step", "open", "closings"}) /\ Keeps({"phase", "step"})
      /\ Keeps({"phase", "draining", "drainLeft"}) /\ Keeps({"channel"})
  BY <1>1 DEF Processes, Keeps
<1>3. TypeOK'
  BY <1>1, <1>2 DEF IInv, TypeOK
<1>4. BootInv' /\ OpenInv' /\ CloseInv' /\ DrainInv' /\ TruthInv'
  BY <1>1, <1>2, BootFrame, LifeFrame, DrainFrame, TruthFrame
<1> QED BY <1>3, <1>4 DEF IInv

-----------------------------------------------------------------------------
(* SIGTERM, drain and shutdown. *)

LEMMA SigtermInv ==
    ASSUME IInv, Sigterm
    PROVE  IInv'
<1>1. /\ proc \in Processes /\ env \in [up: SUBSET Deps, outages: Nat, faults: Nat, signals: Nat]
      /\ env' = [env EXCEPT !.signals = @ + 1]
      /\ UNCHANGED <<config, answer, kube>>
  BY DEF IInv, TypeOK, Sigterm
<1>2. /\ env'.up = env.up
      /\ env' \in [up: SUBSET Deps, outages: Nat, faults: Nat, signals: Nat]
  BY <1>1
<1>3. CASE proc.phase = "boot" /\ proc' = [proc EXCEPT !.phase = "killed"] /\ probe' = NoProbe
  <2>1. /\ proc' \in Processes /\ proc'.phase = "killed" /\ proc'.open = proc.open
        /\ proc'.closings = proc.closings /\ proc'.draining = proc.draining
        /\ proc'.drainLeft = proc.drainLeft /\ proc'.channel = proc.channel
    BY <1>1, <1>3 DEF Processes, Phases
  <2>2. TypeOK'
    BY <1>1, <1>2, <1>3, <2>1, NoProbeTyped DEF IInv, TypeOK, Probes
  <2>3. BootInv'
    BY <1>3, <2>1, NoProbeTyped DEF BootInv
  <2>4. OpenInv'
    BY <1>1, <2>1, SameConfig DEF IInv, OpenInv
  <2>5. CloseInv'
    BY <1>3, <2>1 DEF IInv, CloseInv, ClosedSoFar
  <2>6. DrainInv'
    BY <1>1, <1>3, <2>1, NoProbeTyped, SameConfig DEF IInv, DrainInv
  <2>7. TruthInv'
    BY <1>2, <1>3, <2>1, NoProbeTyped DEF IInv, TruthInv
  <2> QED BY <2>2, <2>3, <2>4, <2>5, <2>6, <2>7 DEF IInv
<1>4. CASE proc' = [proc EXCEPT !.signalled = TRUE] /\ UNCHANGED probe
  <2>1. /\ proc' \in Processes /\ proc'.running = proc.running
        /\ Keeps({"phase", "step", "open", "closings"}) /\ Keeps({"phase", "step"})
        /\ Keeps({"phase", "draining", "drainLeft"}) /\ proc'.channel = proc.channel
    BY <1>1, <1>4 DEF Processes, Keeps
  <2>2. TypeOK'
    BY <1>1, <1>2, <1>4, <2>1 DEF IInv, TypeOK
  <2>3. BootInv' /\ OpenInv' /\ CloseInv' /\ DrainInv'
    BY <1>1, <1>4, <2>1, BootFrame, LifeFrame, DrainFrame
  <2>4. TruthInv'
    BY <1>1, <1>2, <1>4, <2>1, SameConfig DEF IInv, TruthInv, Misled
  <2> QED BY <2>2, <2>3, <2>4 DEF IInv
<1> QED BY <1>3, <1>4 DEF Sigterm

(* A long drain outlasts a probe period. *)
LEMMA StartDrainInv ==
    ASSUME IInv, StartDrain
    PROVE  IInv'
<1>1. /\ proc \in Processes /\ proc.phase = "serving"
      /\ UNCHANGED <<config, probe, answer, env>>
      /\ kube \in [ready: BOOLEAN, since: 0..ProbePeriod] /\ ProbePeriod \in Nat
  BY ProbeAssumption DEF StartDrain, IInv, TypeOK, MinDrainDelay
<1>2. PICK left \in Int : left = 2 * DrainDelay /\ (LongDrain => left > ProbePeriod)
  <2>1. DrainDelay \in Int
    BY DrainIsTyped DEF IInv, TypeOK
  <2> QED BY <1>1, <2>1 DEF LongDrain
<1>3. proc' = [proc EXCEPT !.draining = TRUE, !.drainLeft = left]
  BY <1>2 DEF StartDrain
<1>4. PICK s \in 0 .. ProbePeriod : kube' = [kube EXCEPT !.since = s]
  BY DEF StartDrain
<1>5. kube' \in [ready: BOOLEAN, since: 0..ProbePeriod] /\ kube'.since = s
  BY <1>1, <1>4
<1>6. /\ proc' \in Processes /\ proc'.running = proc.running /\ proc'.drainLeft = left
      /\ Keeps({"phase", "step", "open", "closings"}) /\ Keeps({"phase", "step"})
      /\ Keeps({"channel"}) /\ proc'.phase = "serving"
  BY <1>1, <1>3 DEF Processes, Keeps
<1>7. TypeOK'
  BY <1>1, <1>5, <1>6 DEF IInv, TypeOK
<1>8. BootInv' /\ OpenInv' /\ CloseInv' /\ TruthInv'
  BY <1>1, <1>6, BootFrame, LifeFrame, TruthFrame
<1>9. DrainInv'
  BY <1>1, <1>2, <1>5, <1>6, SameConfig DEF DrainInv
<1> QED BY <1>7, <1>8, <1>9 DEF IInv

LEMMA TickInv ==
    ASSUME IInv, Tick
    PROVE  IInv'
<1>1. /\ proc \in Processes /\ UNCHANGED <<config, probe, answer, env>>
      /\ kube \in [ready: BOOLEAN, since: 0..ProbePeriod] /\ ProbePeriod \in Nat
      /\ kube.since < ProbePeriod
      /\ proc' = [proc EXCEPT !.drainLeft = @ - 1]
      /\ kube' = [kube EXCEPT !.since = @ + 1]
  BY ProbeAssumption DEF Tick, IInv, TypeOK, MinDrainDelay
<1>2. /\ kube' \in [ready: BOOLEAN, since: 0..ProbePeriod]
      /\ kube'.since = kube.since + 1 /\ kube'.ready = kube.ready
  BY <1>1
<1>3. /\ proc' \in Processes /\ proc'.running = proc.running
      /\ proc'.drainLeft = proc.drainLeft - 1
      /\ Keeps({"phase", "step", "open", "closings"}) /\ Keeps({"phase", "step"})
      /\ Keeps({"channel"}) /\ proc'.phase = proc.phase /\ proc'.draining = proc.draining
  BY <1>1 DEF Processes, Keeps
<1>4. TypeOK'
  BY <1>1, <1>2, <1>3 DEF IInv, TypeOK
<1>5. BootInv' /\ OpenInv' /\ CloseInv' /\ TruthInv'
  BY <1>1, <1>3, BootFrame, LifeFrame, TruthFrame
<1>6. DrainInv'
  <2>1. proc.drainLeft \in Int /\ kube.since \in Int
    BY <1>1 DEF Processes
  <2> QED BY <1>1, <1>2, <1>3, <2>1, SameConfig DEF IInv, DrainInv
<1> QED BY <1>4, <1>5, <1>6 DEF IInv

(* The listener is closed when the drain is over, and by then, if it was    *)
(* long, the kubelet has seen the process unready.                          *)
LEMMA CloseServerInv ==
    ASSUME IInv, CloseServer
    PROVE  IInv'
<1>1. /\ proc \in Processes /\ IsManager /\ proc.phase = "serving" /\ proc.draining
      /\ proc.drainLeft <= 0 /\ proc.drainLeft \in Int
      /\ kube.since \in 0..ProbePeriod /\ ProbePeriod \in Nat
      /\ UNCHANGED <<config, probe, answer, kube, env>>
  BY ProbeAssumption DEF CloseServer, Listening, DrainOver, IInv, TypeOK, Processes, MinDrainDelay
<1>2. PICK g \in SUBSET Goroutines : g = proc.running \ {"server"}
  BY <1>1 DEF Processes
<1>3. proc' = [proc EXCEPT !.running = g, !.phase = "cleanup", !.step = 1]
  BY <1>2 DEF CloseServer
<1>4. proc' \in Processes
  <2>1. "cleanup" \in Phases /\ 1 \in Nat \ {0}
    BY DEF Phases
  <2>2. [proc EXCEPT !.running = g, !.phase = "cleanup", !.step = 1] \in Processes
    BY <1>1, <1>2, <2>1, AppsAndPhase
  <2> QED BY <1>3, <2>2
<1>5. /\ proc'.phase = "cleanup" /\ proc'.step = 1 /\ proc'.open = proc.open
      /\ proc'.closings = proc.closings /\ proc'.draining = proc.draining
      /\ proc'.drainLeft = proc.drainLeft /\ Keeps({"channel"})
  BY <1>1, <1>3 DEF Processes, Keeps
<1>6. TypeOK'
  BY <1>1, <1>4 DEF IInv, TypeOK
<1>7. BootInv'
  BY <1>1, <1>5, SameConfig DEF IInv, BootInv, Booting
<1>8. OpenInv'
  BY <1>1, <1>5, SameConfig DEF IInv, OpenInv
<1>9. CloseInv'
  <2>1. \A r \in Clients : proc.closings[r] = 0
    BY <1>1 DEF IInv, CloseInv, ClosedSoFar
  <2>2. DOMAIN Cleanup = 1..Len(Cleanup) /\ Len(Cleanup) \in Nat
    BY CleanupFacts DEF IInv, TypeOK, ClosesOnce
  <2>3. \A r \in Clients : ~ClosedSoFar(r)'
    BY <1>1, <1>5, <2>2, SameConfig DEF ClosedSoFar
  <2> QED BY <1>5, <2>1, <2>3 DEF CloseInv
<1>10. DrainInv'
  <2>1. LongDrain => kube.ready = FALSE /\ probe.kind # "readyz"
    BY <1>1 DEF IInv, DrainInv
  <2> QED BY <1>1, <2>1, SameConfig DEF DrainInv
<1>11. TruthInv'
  BY <1>1, <1>5, TruthFrame
<1> QED BY <1>6, <1>7, <1>8, <1>9, <1>10, <1>11 DEF IInv

(* The single-tenant consumer takes the adapter along, once. *)
LEMMA ConsumerStopsInv ==
    ASSUME IInv, ConsumerStops
    PROVE  IInv'
<1>1. /\ proc \in Processes /\ ~IsManager /\ proc.phase = "serving"
      /\ "consumer" \in proc.running
      /\ UNCHANGED <<config, probe, answer, kube, env>>
  BY DEF ConsumerStops, IInv, TypeOK
<1>2. \A r \in Clients : proc.closings[r] = 0
  BY <1>1 DEF IInv, CloseInv, ClosedSoFar
<1>3. PICK g \in SUBSET Goroutines : g = proc.running \ {"consumer"}
  BY <1>1 DEF Processes
<1>4. PICK p : p = [proc EXCEPT !.running = g, !.channel = "none"]
  OBVIOUS
<1>5. /\ p \in Processes /\ p.running = g /\ p.channel = "none" /\ p.phase = proc.phase
      /\ p.step = proc.step /\ p.open = proc.open /\ p.closings = proc.closings
      /\ p.draining = proc.draining /\ p.drainLeft = proc.drainLeft
  BY <1>1, <1>4 DEF Processes, Channels
<1>6. PICK f \in [Clients -> Nat] :
        f = [r \in Clients |-> p.closings[r] + (IF r \in proc.open \cap {"rabbit"} THEN 1 ELSE 0)]
  <2>1. p.closings \in [Clients -> Nat]
    BY <1>5 DEF Processes
  <2>2. [r \in Clients |-> p.closings[r] + (IF r \in proc.open \cap {"rabbit"} THEN 1 ELSE 0)]
          \in [Clients -> Nat]
    BY <2>1
  <2> QED BY <2>2
<1>7. proc' = [p EXCEPT !.closings = f]
  BY <1>3, <1>4, <1>6 DEF ConsumerStops, Closed
<1>8. /\ proc' \in Processes /\ proc'.running = g /\ proc'.channel = "none"
      /\ proc'.phase = "serving" /\ proc'.open = proc.open /\ proc'.closings = f
      /\ Keeps({"phase", "step"}) /\ Keeps({"phase", "draining", "drainLeft"})
  BY <1>1, <1>5, <1>7 DEF Processes, Keeps
<1>9. TypeOK'
  BY <1>1, <1>8 DEF IInv, TypeOK
<1>10. BootInv' /\ DrainInv'
  BY <1>1, <1>8, BootFrame, DrainFrame
<1>11. OpenInv'
  BY <1>1, <1>8, SameConfig DEF IInv, OpenInv
<1>12. CloseInv'
  <2>1. ASSUME NEW r \in Clients
        PROVE  proc'.closings[r] = IF ClosedSoFar(r)' THEN 1 ELSE 0
    <3>1. proc'.closings[r] = IF r \in proc.open /\ r = "rabbit" THEN 1 ELSE 0
      BY <1>2, <1>5, <1>6, <1>8
    <3>2. ClosedSoFar(r)' <=> r = "rabbit" /\ r \in proc.open
      BY <1>1, <1>3, <1>8, SameConfig DEF ClosedSoFar
    <3> QED BY <3>1, <3>2
  <2> QED BY <1>8, <2>1 DEF CloseInv
<1>13. TruthInv'
  BY <1>1, <1>8, SameConfig DEF IInv, TruthInv, Misled
<1> QED BY <1>9, <1>10, <1>11, <1>12, <1>13 DEF IInv

LEMMA AppStopsInv ==
    ASSUME IInv, NEW g, AppStops(g)
    PROVE  IInv'
<1>1. /\ proc \in Processes /\ g # "consumer"
      /\ UNCHANGED <<config, probe, answer, kube, env>>
  BY DEF AppStops, IInv, TypeOK
<1>2. PICK h \in SUBSET Goroutines : h = proc.running \ {g}
  BY <1>1 DEF Processes
<1>3. proc' = [proc EXCEPT !.running = h]
  BY <1>2 DEF AppStops
<1>4. /\ proc' \in Processes /\ proc'.running = h
      /\ Keeps({"phase", "step", "open", "closings"}) /\ Keeps({"phase", "step"})
      /\ Keeps({"phase", "draining", "drainLeft"}) /\ Keeps({"channel"})
  BY <1>1, <1>3 DEF Processes, Keeps
<1>5. TypeOK'
  BY <1>1, <1>4 DEF IInv, TypeOK
<1>6. BootInv' /\ OpenInv' /\ CloseInv' /\ DrainInv' /\ TruthInv'
  BY <1>1, <1>2, <1>4, BootFrame, LifeFrame, DrainFrame, TruthFrame
<1> QED BY <1>5, <1>6 DEF IInv

LEMMA LauncherReturnsInv ==
    ASSUME IInv, LauncherReturns
    PROVE  IInv'
<1>1. /\ proc \in Processes /\ ~IsManager /\ proc.phase = "serving"
      /\ proc' = [proc EXCEPT !.phase = "cleanup", !.step = 1]
      /\ UNCHANGED <<config, probe, answer, kube, env>>
  BY DEF LauncherReturns, IInv, TypeOK
<1>2. "consumer" \notin proc.running
  BY <1>1 DEF LauncherReturns, Apps, W!RunLauncher
<1>3. /\ proc' \in Processes /\ proc'.phase = "cleanup" /\ proc'.step = 1
      /\ proc'.open = proc.open /\ proc'.closings = proc.closings
      /\ proc'.draining = proc.draining /\ proc'.drainLeft = proc.drainLeft /\ Keeps({"channel"})
  <2>1. "cleanup" \in Phases /\ 1 \in Nat \ {0}
    BY DEF Phases
  <2>2. [proc EXCEPT !.phase = "cleanup", !.step = 1] \in Processes
    BY <1>1, <2>1, PhaseAlone
  <2> QED BY <1>1, <2>2 DEF Processes, Keeps
<1>4. TypeOK'
  BY <1>1, <1>3 DEF IInv, TypeOK
<1>5. BootInv'
  BY <1>1, <1>3, SameConfig DEF IInv, BootInv, Booting
<1>6. OpenInv'
  BY <1>1, <1>3, SameConfig DEF IInv, OpenInv
<1>7. CloseInv'
  <2>1. DOMAIN Cleanup = 1..Len(Cleanup) /\ Len(Cleanup) \in Nat
    BY CleanupFacts DEF IInv, TypeOK, ClosesOnce
  <2>2. \A r \in Clients : ClosedSoFar(r)' <=> ClosedSoFar(r)
    BY <1>1, <1>2, <1>3, <2>1, SameConfig DEF ClosedSoFar
  <2> QED BY <1>1, <1>3, <2>2 DEF IInv, CloseInv
<1>8. DrainInv'
  BY <1>1, <1>3, SameConfig DEF IInv, DrainInv
<1>9. TruthInv'
  BY <1>1, <1>3, TruthFrame
<1> QED BY <1>4, <1>5, <1>6, <1>7, <1>8, <1>9 DEF IInv

(* A step of the cleanup closes what no step before it closed. *)
LEMMA CleanupStepInv ==
    ASSUME IInv, CleanupStep
    PROVE  IInv'
<1>1. /\ proc \in Processes /\ proc.phase = "cleanup"
      /\ UNCHANGED <<config, probe, answer, kube, env>>
  BY DEF CleanupStep, IInv, TypeOK
<1>2. /\ DOMAIN Cleanup = 1..Len(Cleanup) /\ Len(Cleanup) \in Nat
      /\ \A i, k \in DOMAIN Cleanup : i # k => Cleanup[i].closes \cap Cleanup[k].closes = {}
      /\ \A i \in DOMAIN Cleanup : ~IsManager => "rabbit" \notin Cleanup[i].closes
  BY CleanupFacts DEF IInv, TypeOK, ClosesOnce
<1>3. CASE proc.step > Len(Cleanup)
  <2>1. proc' = [proc EXCEPT !.phase = "stopped"]
    BY <1>3 DEF CleanupStep
  <2>2. /\ proc' \in Processes /\ proc'.phase = "stopped" /\ proc'.step = proc.step
        /\ proc'.open = proc.open /\ proc'.closings = proc.closings
        /\ proc'.draining = proc.draining /\ proc'.drainLeft = proc.drainLeft /\ Keeps({"channel"})
    BY <1>1, <2>1 DEF Processes, Phases, Keeps
  <2>3. TypeOK'
    BY <1>1, <2>2 DEF IInv, TypeOK
  <2>4. BootInv'
    BY <1>1, <2>2, SameConfig DEF IInv, BootInv, Booting
  <2>5. OpenInv'
    BY <1>1, <2>2, SameConfig DEF IInv, OpenInv
  <2>6. CloseInv'
    <3>1. \A r \in Clients : ClosedSoFar(r)' <=> ClosedSoFar(r)
      BY <1>1, <2>2, SameConfig DEF ClosedSoFar
    <3> QED BY <1>1, <1>3, <2>2, <3>1, SameConfig DEF IInv, CloseInv
  <2>7. DrainInv'
    BY <1>1, <2>2, SameConfig DEF IInv, DrainInv
  <2>8. TruthInv'
    BY <1>1, <2>2, TruthFrame
  <2> QED BY <2>3, <2>4, <2>5, <2>6, <2>7, <2>8 DEF IInv
<1>4. CASE ~(proc.step > Len(Cleanup))
  <2>1. PICK k \in DOMAIN Cleanup : k = proc.step
    BY <1>1, <1>2, <1>4 DEF Processes
  <2>2. PICK g \in SUBSET Goroutines : g = proc.running \ Cleanup[k].stops
    BY <1>1 DEF Processes
  <2>3. PICK n \in Nat \ {0} : n = proc.step + 1
    BY <1>1 DEF Processes
  <2>4. PICK p : p = [proc EXCEPT !.step = n, !.running = g]
    OBVIOUS
  <2>5. /\ p \in Processes /\ p.step = n /\ p.phase = proc.phase
        /\ p.open = proc.open /\ p.closings = proc.closings
        /\ p.draining = proc.draining /\ p.drainLeft = proc.drainLeft /\ p.channel = proc.channel
    BY <1>1, <2>4 DEF Processes
  <2>6. PICK f \in [Clients -> Nat] :
          f = [r \in Clients |-> p.closings[r]
                                 + (IF r \in Cleanup[k].closes \cap proc.open THEN 1 ELSE 0)]
    <3>1. p.closings \in [Clients -> Nat]
      BY <2>5 DEF Processes
    <3>2. [r \in Clients |-> p.closings[r]
                             + (IF r \in Cleanup[k].closes \cap proc.open THEN 1 ELSE 0)]
            \in [Clients -> Nat]
      BY <3>1
    <3> QED BY <3>2
  <2>7. proc' = [p EXCEPT !.closings = f]
    BY <1>4, <2>1, <2>2, <2>3, <2>4, <2>6 DEF CleanupStep, Closed
  <2>8. /\ proc' \in Processes /\ proc'.phase = "cleanup" /\ proc'.step = n
        /\ proc'.open = proc.open /\ proc'.closings = f
        /\ Keeps({"phase", "draining", "drainLeft"}) /\ Keeps({"channel"})
    BY <1>1, <2>5, <2>7 DEF Processes, Keeps
  <2>9. TypeOK'
    BY <1>1, <2>8 DEF IInv, TypeOK
  <2>10. BootInv'
    BY <1>1, <2>8, SameConfig DEF IInv, BootInv, Booting
  <2>11. OpenInv'
    BY <1>1, <2>8, SameConfig DEF IInv, OpenInv
  <2>12. CloseInv'
    <3>1. ASSUME NEW r \in Clients
          PROVE  proc'.closings[r] = IF ClosedSoFar(r)' THEN 1 ELSE 0
      <4>1. proc'.closings[r] = proc.closings[r]
                                + (IF r \in Cleanup[k].closes \cap proc.open THEN 1 ELSE 0)
        BY <2>5, <2>6, <2>8
      <4>2. proc.closings[r] = IF ClosedSoFar(r) THEN 1 ELSE 0
        BY <1>1 DEF IInv, CloseInv
      <4>3. r \in Cleanup[k].closes => ~ClosedSoFar(r)
        BY <1>1, <1>2, <2>1 DEF ClosedSoFar
      <4>4. ClosedSoFar(r)' <=> ClosedSoFar(r) \/ r \in Cleanup[k].closes \cap proc.open
        <5>1. ClosedSoFar(r)' <=>
                /\ r \in proc.open
                /\ \/ r = "rabbit" /\ ~IsManager
                   \/ \E i \in DOMAIN Cleanup : i < n /\ r \in Cleanup[i].closes
          BY <1>1, <2>8, SameConfig DEF ClosedSoFar
        <5>2. ClosedSoFar(r) <=>
                /\ r \in proc.open
                /\ \/ r = "rabbit" /\ ~IsManager
                   \/ \E i \in DOMAIN Cleanup : i < k /\ r \in Cleanup[i].closes
          BY <1>1, <2>1 DEF ClosedSoFar
        <5>3. \A i \in DOMAIN Cleanup : i < n <=> i < k \/ i = k
          BY <1>2, <2>1, <2>3
        <5> QED BY <2>1, <5>1, <5>2, <5>3
      <4> QED BY <4>1, <4>2, <4>3, <4>4
    <3> QED BY <2>8, <3>1 DEF CloseInv
  <2>13. DrainInv'
    BY <1>1, <2>8, DrainFrame
  <2>14. TruthInv'
    BY <1>1, <2>8, TruthFrame
  <2> QED BY <2>9, <2>10, <2>11, <2>12, <2>13, <2>14 DEF IInv
<1> QED BY <1>3, <1>4

-----------------------------------------------------------------------------
(* The platform. *)

Envs == [up: SUBSET Deps, outages: Nat, faults: Nat, signals: Nat]

(* A channel dies with its broker, unnoticed. *)
LEMMA DependencyGoesDownInv ==
    ASSUME IInv, NEW d \in Deps, DependencyGoesDown(d)
    PROVE  IInv'
<1>1. /\ proc \in Processes /\ env \in Envs
      /\ env' = [env EXCEPT !.up = @ \ {d}, !.outages = @ + 1]
      /\ UNCHANGED <<config, probe, answer, kube>>
  BY DEF DependencyGoesDown, IInv, TypeOK, Envs
<1>2. PICK ch \in Channels :
        ch = IF d = "rabbitmq" /\ proc.channel = "live" THEN "dead" ELSE proc.channel
  BY <1>1 DEF Processes, Channels
<1>3. proc' = [proc EXCEPT !.channel = ch]
  BY <1>2 DEF DependencyGoesDown
<1>4. env' \in Envs /\ env'.up = env.up \ {d}
  <2>1. PICK u \in SUBSET Deps : u = env.up \ {d}
    BY <1>1 DEF Envs
  <2>2. PICK n \in Nat : n = env.outages + 1
    BY <1>1 DEF Envs
  <2>3. env' = [env EXCEPT !.up = u, !.outages = n]
    BY <1>1, <2>1, <2>2
  <2> QED BY <1>1, <2>1, <2>3 DEF Envs
<1>5. /\ proc' \in Processes /\ proc'.running = proc.running /\ proc'.channel = ch
      /\ Keeps({"phase", "step", "open", "closings"}) /\ Keeps({"phase", "step"})
      /\ Keeps({"phase", "draining", "drainLeft"})
  BY <1>1, <1>3 DEF Processes, Keeps
<1>6. TypeOK'
  BY <1>1, <1>4, <1>5 DEF IInv, TypeOK, Envs
<1>7. BootInv' /\ OpenInv' /\ CloseInv' /\ DrainInv'
  BY <1>1, <1>5, BootFrame, LifeFrame, DrainFrame
<1>8. TruthInv'
  <2>1. ch = "live" => "rabbitmq" \in env'.up
    BY <1>2, <1>4 DEF IInv, TruthInv
  <2>2. probe.kind # "none" /\ ch = "dead" => probe.stale = TRUE \/ "rabbitmq" \in probe.sawUp
    BY <1>2 DEF IInv, TruthInv
  <2> QED BY <1>1, <1>4, <1>5, <2>1, <2>2, SameConfig DEF IInv, TruthInv, Misled
<1> QED BY <1>6, <1>7, <1>8 DEF IInv

LEMMA DependencyComesBackInv ==
    ASSUME IInv, NEW d \in Deps, DependencyComesBack(d)
    PROVE  IInv'
<1>1. /\ env \in Envs /\ probe \in Probes /\ env' = [env EXCEPT !.up = @ \cup {d}]
      /\ UNCHANGED <<config, proc, answer, kube>>
  BY DEF DependencyComesBack, IInv, TypeOK, Envs, Probes
<1>2. env' \in Envs /\ env'.up = env.up \cup {d}
  BY <1>1 DEF Envs
<1>3. /\ probe' \in Probes /\ probe'.kind = probe.kind /\ probe'.waiting = probe.waiting
      /\ probe'.statuses = probe.statuses /\ probe'.stale = probe.stale
      /\ probe.kind # "none" => probe'.sawUp = probe.sawUp \cup {d}
  <2>1. CASE probe.kind = "none"
    BY <1>1, <2>1 DEF DependencyComesBack
  <2>2. CASE probe.kind # "none"
    <3>1. probe' = [probe EXCEPT !.sawUp = @ \cup {d}]
      BY <2>2 DEF DependencyComesBack
    <3> QED BY <1>1, <3>1 DEF Probes
  <2> QED BY <2>1, <2>2
<1>4. Keeps({"phase", "draining", "drainLeft"})
  BY <1>1 DEF Keeps
<1>5. TypeOK'
  BY <1>1, <1>2, <1>3 DEF IInv, TypeOK, Envs, Probes
<1>6. BootInv' /\ OpenInv' /\ CloseInv' /\ DrainInv'
  BY <1>1, <1>3, <1>4, ProcessKept, DrainFrame
<1>7. TruthInv'
  BY <1>1, <1>2, <1>3, SameConfig DEF IInv, TruthInv, Misled
<1> QED BY <1>5, <1>6, <1>7 DEF IInv

(* What the adapter does of its own: it opens a channel where a broker      *)
(* answers, forgets one, or lets its breaker half open.                     *)
LEMMA AdapterSteps ==
    ASSUME IInv, Adapter
    PROVE  \E b \in {"closed", "open", "half_open"}, ch \in Channels :
              /\ proc' = [proc EXCEPT !.channel = ch, !.breaker = b]
              /\ ch = proc.channel \/ ch = "none" \/ (ch = "live" /\ BrokerAnswers)
<1>1. /\ proc \in Processes /\ proc.channel \in Channels
      /\ proc.breaker \in {"closed", "open", "half_open"}
  BY DEF IInv, TypeOK, Processes
<1>2. CASE EnsureChannel
  <2>1. PICK b \in {"closed", "open", "half_open"} : b = IF BrokerAnswers THEN "closed" ELSE "open"
    OBVIOUS
  <2>2. PICK ch \in Channels : ch = Dial
    BY DEF Dial, Channels
  <2>3. proc' = [proc EXCEPT !.channel = ch, !.breaker = b]
    BY <1>2, <2>1, <2>2 DEF EnsureChannel
  <2>4. ch = "none" \/ (ch = "live" /\ BrokerAnswers)
    BY <2>2 DEF Dial
  <2> QED BY <2>3, <2>4
<1>3. CASE BreakerHalfOpens
  <2>1. proc' = [proc EXCEPT !.breaker = "half_open"]
    BY <1>3 DEF BreakerHalfOpens
  <2>2. proc' = [proc EXCEPT !.channel = proc.channel, !.breaker = "half_open"]
    BY <1>1, <2>1 DEF Processes
  <2> QED BY <1>1, <2>2
<1>4. CASE ChannelWatcher
  <2>1. proc' = [proc EXCEPT !.channel = "none"]
    BY <1>4 DEF ChannelWatcher
  <2>2. proc' = [proc EXCEPT !.channel = "none", !.breaker = proc.breaker]
    BY <1>1, <2>1 DEF Processes
  <2>3. "none" \in Channels
    BY DEF Channels
  <2> QED BY <1>1, <2>2, <2>3
<1> QED BY <1>2, <1>3, <1>4 DEF Adapter

LEMMA AdapterInv ==
    ASSUME IInv, Adapter
    PROVE  IInv'
<1>1. /\ proc \in Processes /\ UNCHANGED <<config, probe, answer, kube, env>>
  BY DEF Adapter, EnsureChannel, BreakerHalfOpens, ChannelWatcher, IInv, TypeOK
<1>2. PICK b \in {"closed", "open", "half_open"}, ch \in Channels :
        /\ proc' = [proc EXCEPT !.channel = ch, !.breaker = b]
        /\ ch = proc.channel \/ ch = "none" \/ (ch = "live" /\ BrokerAnswers)
  BY AdapterSteps
<1>3. /\ proc' \in Processes /\ proc'.running = proc.running
      /\ Keeps({"phase", "step", "open", "closings"}) /\ Keeps({"phase", "step"})
      /\ Keeps({"phase", "draining", "drainLeft"}) /\ proc'.channel = ch
  BY <1>1, <1>2 DEF Processes, Keeps
<1>4. TypeOK'
  BY <1>1, <1>3 DEF IInv, TypeOK
<1>5. BootInv' /\ OpenInv' /\ CloseInv' /\ DrainInv'
  BY <1>1, <1>3, BootFrame, LifeFrame, DrainFrame
<1>6. TruthInv'
  BY <1>1, <1>2, <1>3, SameConfig DEF IInv, TruthInv, Misled, BrokerAnswers
<1> QED BY <1>4, <1>5, <1>6 DEF IInv

-----------------------------------------------------------------------------
(* The theorems. *)

LEMMA InitInv ==
    ASSUME Init
    PROVE  IInv
<1>1. /\ config \in Configs /\ proc = Fresh /\ probe = NoProbe /\ answer = NoAnswer
      /\ kube = [ready |-> FALSE, since |-> 0]
      /\ env = [up |-> Deps, outages |-> 0, faults |-> 0, signals |-> 0]
  BY DEF Init
<1>2. /\ proc.phase = "boot" /\ proc.step = 1 /\ proc.open = {}
      /\ \A r \in Clients : proc.closings[r] = 0
      /\ proc.draining = FALSE /\ proc.channel = "none" /\ probe.kind = "none"
  BY <1>1 DEF Fresh, NoProbe
<1>3. TypeOK
  <2>1. proc \in Processes
    BY <1>1 DEF Fresh, Processes, Phases, Channels
  <2>2. kube \in [ready: BOOLEAN, since: 0..ProbePeriod]
    BY <1>1, ProbeAssumption DEF MinDrainDelay
  <2>3. answer \in [kind: ProbeKinds, code: {0, 200, 400, 404, 503}]
    BY <1>1 DEF NoAnswer, ProbeKinds
  <2>4. env \in [up: SUBSET Deps, outages: Nat, faults: Nat, signals: Nat]
    BY <1>1
  <2> QED BY <1>1, <2>1, <2>2, <2>3, <2>4, NoProbeTyped DEF TypeOK, Probes
<1>4. BootInv
  BY <1>1, <1>2, BootFactsHold DEF BootInv, BootFacts
<1>5. OpenInv
  BY <1>2 DEF OpenInv
<1>6. CloseInv
  BY <1>2 DEF CloseInv, ClosedSoFar
<1>7. DrainInv /\ TruthInv
  BY <1>2 DEF DrainInv, TruthInv
<1> QED BY <1>3, <1>4, <1>5, <1>6, <1>7 DEF IInv

LEMMA StutterInv ==
    ASSUME IInv, UNCHANGED vars
    PROVE  IInv'
<1>1. UNCHANGED <<config, proc, probe, answer, kube, env>>
  BY DEF vars
<1>2. Keeps({"phase", "draining", "drainLeft"}) /\ Keeps({"channel"})
  BY <1>1 DEF Keeps
<1>3. TypeOK'
  BY <1>1 DEF IInv, TypeOK
<1>4. BootInv' /\ OpenInv' /\ CloseInv' /\ DrainInv' /\ TruthInv'
  BY <1>1, <1>2, ProcessKept, DrainFrame, TruthFrame
<1> QED BY <1>3, <1>4 DEF IInv

LEMMA NextInv ==
    ASSUME IInv, [Next]_vars
    PROVE  IInv'
<1>1. CASE Bootstrap
  BY <1>1, BootStepInv, AbortInv, RunInv, RestartInv, RunSelfProbeInv DEF Bootstrap
<1>2. CASE BootFails
  BY <1>2, AbortInv
<1>3. CASE Checking
  BY <1>3, CheckInv, SelfProbeEndsInv, ReadyzAnswersInv, TenantProbeAnswersInv DEF Checking
<1>4. CASE KubeProbe \/ HealthProbe
  BY <1>4, KubeProbeInv, HealthProbeInv
<1>5. CASE \E d \in Deps : CheckTimesOut(d)
  BY <1>5, CheckInv
<1>6. CASE \E known \in BOOLEAN : TenantProbe(known)
  BY <1>6, TenantProbeInv
<1>7. CASE Shutdown
  BY <1>7, StartDrainInv, TickInv, ConsumerStopsInv, LauncherReturnsInv, CleanupStepInv
     DEF Shutdown
<1>8. CASE Sigterm \/ CloseServer
  BY <1>8, SigtermInv, CloseServerInv
<1>9. CASE \E g \in {"health", "dispatcher", "repairer", "reconciler"} : AppStops(g)
  BY <1>9, AppStopsInv
<1>10. CASE \E d \in Deps : DependencyGoesDown(d) \/ DependencyComesBack(d)
  BY <1>10, DependencyGoesDownInv, DependencyComesBackInv
<1>11. CASE Adapter
  BY <1>11, AdapterInv
<1>12. CASE UNCHANGED vars
  BY <1>12, StutterInv
<1> QED BY <1>1, <1>2, <1>3, <1>4, <1>5, <1>6, <1>7, <1>8, <1>9, <1>10, <1>11, <1>12 DEF Next

(* ProcessInvariant: the inductive invariant holds of every process,        *)
(* whatever its configuration and whatever fails or goes down.  Of the      *)
(* drain it speaks only where the drain is longer than the kubelet's        *)
(* period, and it counts with a channel that died unnoticed.                *)
THEOREM ProcessInvariant == Spec => []IInv
<1>1. Init => IInv
  BY InitInv
<1>2. IInv /\ [Next]_vars => IInv'
  BY NextInv
<1> QED BY <1>1, <1>2, PTL DEF Spec

(* ClosingIsSeen: the kubelet takes the Manager for unready before its      *)
(* listener is closed (server.go, Run and drainLoop), for every kubelet's   *)
(* period and every drain delay READYZ_DRAIN_DELAY_SEC may ask for that is  *)
(* longer than the period.                                                  *)
THEOREM ClosingIsSeen == Spec => []NotReadyWhenClosing
<1>1. IInv => NotReadyWhenClosing
  BY DEF IInv, DrainInv, LongDrain, NotReadyWhenClosing
<1> QED BY <1>1, ProcessInvariant, PTL

(* ClientsClosedOnce: no client is closed twice, and none with an owner is  *)
(* left open, when the process stops or its bootstrap fails at any step     *)
(* (config.go of both components, service.go).                              *)
THEOREM ClientsClosedOnce == Spec => []ClosedExactlyOnce
<1>1. IInv => ClosedExactlyOnce
  <2> SUFFICES ASSUME IInv PROVE ClosedExactlyOnce
    OBVIOUS
  <2>1. CASE proc.phase = "aborted"
    BY <2>1 DEF IInv, CloseInv
  <2>2. CASE proc.phase # "aborted"
    <3>1. \A r \in Clients : proc.closings[r] <= 1
      BY <2>2 DEF IInv, CloseInv
    <3>2. ASSUME proc.phase = "stopped", NEW r \in proc.open \cap OwnedAtExit
          PROVE  proc.closings[r] = 1
      <4>1. /\ BootFacts /\ r \in Clients /\ proc \in Processes /\ proc.step > Len(Cleanup)
        BY <3>2, BootFactsHold DEF IInv, TypeOK, CloseInv, Processes
      <4>2. r \in Closes \/ (~IsManager /\ r = "rabbit")
        BY <3>2, <4>1 DEF IInv, OpenInv, BootFacts
      <4>3. /\ Len(Cleanup) \in Nat /\ DOMAIN Cleanup = 1..Len(Cleanup)
            /\ r \in Closes => \E i \in DOMAIN Cleanup : r \in Cleanup[i].closes
        BY CleanupFacts DEF IInv, TypeOK, ClosesOnce
      <4>4. \A i \in DOMAIN Cleanup : i < proc.step
        BY <4>1, <4>3 DEF Processes
      <4>5. ClosedSoFar(r)
        BY <3>2, <4>2, <4>3, <4>4 DEF ClosedSoFar
      <4> QED BY <2>2, <4>1, <4>5 DEF IInv, CloseInv
    <3> QED BY <2>2, <3>1, <3>2 DEF ClosedExactlyOnce
  <2> QED BY <2>1, <2>2
<1> QED BY <1>1, ProcessInvariant, PTL

(* An answer of 200 comes from a probe whose checkers are all back and of   *)
(* which none found anything wrong.                                         *)
LEMMA GoodAnswer ==
    ASSUME Next, answer' # answer, answer'.code = 200
    PROVE  /\ probe.kind # "none" /\ answer'.kind = probe.kind
           /\ probe.waiting = {} /\ probe.statuses \cap {"down", "degraded"} = {}
<1>1. CASE Bootstrap
  BY <1>1 DEF Bootstrap, BootStep, BootRefused, Run, Restart, RunSelfProbe, StartProbe, NoAnswer
<1>2. CASE BootFails
  BY <1>2 DEF BootFails
<1>3. CASE Checking
  <2>1. CASE \E d \in Deps : CheckReturns(d)
    BY <2>1 DEF CheckReturns
  <2>2. CASE SelfProbeEnds
    BY <2>2 DEF SelfProbeEnds, Answer, IsSelfProbeHealthyStatus
  <2>3. CASE ReadyzAnswers
    BY <2>3 DEF ReadyzAnswers, Answer, AggregateStatus
  <2>4. CASE TenantProbeAnswers
    BY <2>4 DEF TenantProbeAnswers, Answer, AggregateStatus
  <2> QED BY <1>3, <2>1, <2>2, <2>3, <2>4 DEF Checking
<1>4. CASE KubeProbe
  BY <1>4 DEF KubeProbe, StartProbe, Answer, NoAnswer
<1>5. CASE HealthProbe \/ \E d \in Deps : CheckTimesOut(d)
  BY <1>5 DEF HealthProbe, CheckTimesOut
<1>6. CASE \E known \in BOOLEAN : TenantProbe(known)
  BY <1>6 DEF TenantProbe, StartProbe, Answer, NoAnswer
<1>7. CASE Sigterm \/ CloseServer
  BY <1>7 DEF Sigterm, CloseServer
<1>8. CASE Shutdown
  BY <1>8 DEF Shutdown, StartDrain, Tick, ConsumerStops, LauncherReturns, CleanupStep
<1>9. CASE \E g \in {"health", "dispatcher", "repairer", "reconciler"} : AppStops(g)
  BY <1>9 DEF AppStops
<1>10. CASE \E d \in Deps : DependencyGoesDown(d) \/ DependencyComesBack(d)
  BY <1>10 DEF DependencyGoesDown, DependencyComesBack
<1>11. CASE Adapter
  BY <1>11 DEF Adapter, EnsureChannel, BreakerHalfOpens, ChannelWatcher
<1> QED BY <1>1, <1>2, <1>3, <1>4, <1>5, <1>6, <1>7, <1>8, <1>9, <1>10, <1>11 DEF Next

(* ProbesAreTruthful: /readyz, /readyz/tenant/:id and the startup           *)
(* self-probe say 200 only if each dependency the process needs was up at   *)
(* some moment since the probe began (handler.go, selfprobe.go,             *)
(* tenant_handler.go), but for the broker of a single-tenant process whose  *)
(* adapter had not noticed, when the probe began, that it was gone          *)
(* (rabbitmq.go, IsHealthy).                                                *)
THEOREM ProbesAreTruthful == Spec => AnswersTruthful
<1> DEFINE Excused(kind) == IF kind # "tenant" /\ probe.stale THEN {"rabbitmq"} ELSE {}
           Truthful ==
               answer' # answer /\ answer'.code = 200 =>
                   Required(answer'.kind) \ Excused(answer'.kind) \subseteq probe.sawUp
<1>1. ASSUME IInv, [Next]_vars
      PROVE  [Truthful]_vars
  <2>1. CASE UNCHANGED vars
    BY <2>1
  <2>2. CASE Next
    <3> SUFFICES ASSUME answer' # answer, answer'.code = 200
                 PROVE  Required(answer'.kind) \ Excused(answer'.kind) \subseteq probe.sawUp
      OBVIOUS
    <3>1. /\ probe.kind # "none" /\ answer'.kind = probe.kind
          /\ probe.waiting = {} /\ probe.statuses \cap {"down", "degraded"} = {}
      BY <2>2, GoodAnswer
    <3>2. \A d \in Required(probe.kind) : d \in probe.sawUp \/ Misled(d)
      BY <1>1, <3>1 DEF IInv, TruthInv
    <3>3. \A d : Misled(d) => d \in Excused(probe.kind)
      BY DEF Misled
    <3> QED BY <3>1, <3>2, <3>3
  <2> QED BY <1>1, <2>1, <2>2
<1>2. IInv /\ [Next]_vars => [Truthful]_vars
  BY <1>1
<1> QED BY <1>2, ProcessInvariant, PTL DEF Spec, AnswersTruthful

-----------------------------------------------------------------------------
(* Clients and their users. *)

Alive == {"serving", "cleanup", "stopped"}

(* What the TLS gate says of a connection string it looks at. *)
AllOn(checks) == \A i \in DOMAIN checks : checks[i].seen = "on"

OneCheck(name, url, seen, skip) ==
    IF skip \/ (url = NoURL /\ name # "s3") THEN <<>> ELSE <<[name |-> name, seen |-> seen]>>

LEMMA OneCheckOn ==
    ASSUME NEW name, NEW url, NEW seen, NEW skip, AllOn(OneCheck(name, url, seen, skip)), ~skip,
           url # NoURL \/ name = "s3"
    PROVE  seen = "on"
<1>1. OneCheck(name, url, seen, skip) = <<[name |-> name, seen |-> seen]>>
  BY DEF OneCheck
<1>2. PICK c : c = [name |-> name, seen |-> seen]
  OBVIOUS
<1>3. 1 \in DOMAIN <<c>> /\ <<c>>[1] = c
  OBVIOUS
<1> QED BY <1>1, <1>2, <1>3 DEF AllOn

Seen == {"on", "off", "error"}

LEMMA OneCheckTyped ==
    ASSUME NEW T, NEW name, NEW url, NEW seen, NEW skip, [name |-> name, seen |-> seen] \in T
    PROVE  OneCheck(name, url, seen, skip) \in Seq(T)
<1>1. PICK c \in T : c = [name |-> name, seen |-> seen]
  OBVIOUS
<1>2. <<c>> \in Seq(T) /\ <<>> \in Seq(T)
  OBVIOUS
<1> QED BY <1>1, <1>2 DEF OneCheck

LEMMA ChecksJoined ==
    ASSUME NEW T, NEW a \in Seq(T), NEW b \in Seq(T), AllOn(a \o b)
    PROVE  AllOn(a) /\ AllOn(b)
<1>1. \A i \in DOMAIN a : i \in DOMAIN (a \o b) /\ (a \o b)[i] = a[i]
  OBVIOUS
<1>2. \A i \in DOMAIN b : Len(a) + i \in DOMAIN (a \o b) /\ (a \o b)[Len(a) + i] = b[i]
  OBVIOUS
<1> QED BY <1>1, <1>2 DEF AllOn

(* The gate that lets a SaaS process pass has seen TLS on every string.     *)
LEMMA GatePassed ==
    ASSUME NEW cfg, cfg.mode = "saas", ValidateSaaSTLS(cfg)
    PROVE  /\ AllOn(OneCheck("mongodb", cfg.mongo, DetectMongoTLS(cfg.mongo), FALSE))
           /\ AllOn(OneCheck("rabbitmq", cfg.rabbit, DetectAMQPTLS(cfg.rabbit), FALSE))
           /\ AllOn(OneCheck("redis", cfg.redis, DetectRedisTLS(cfg.redis), FALSE))
           /\ AllOn(OneCheck("multi_tenant_redis", cfg.mtRedis, DetectRedisTLS(cfg.mtRedis), ~cfg.mt))
           /\ AllOn(OneCheck("s3", cfg.s3, DetectS3TLS(cfg.s3), ~cfg.hasS3))
<1> DEFINE a == OneCheck("mongodb", cfg.mongo, DetectMongoTLS(cfg.mongo), FALSE)
           b == OneCheck("rabbitmq", cfg.rabbit, DetectAMQPTLS(cfg.rabbit), FALSE)
           c == OneCheck("redis", cfg.redis, DetectRedisTLS(cfg.redis), FALSE)
           d == OneCheck("multi_tenant_redis", cfg.mtRedis, DetectRedisTLS(cfg.mtRedis), ~cfg.mt)
           e == OneCheck("s3", cfg.s3, DetectS3TLS(cfg.s3), ~cfg.hasS3)
           f == OneCheck("tenant_manager", cfg.tm, DetectHTTPUpstreamTLS(cfg.tm),
                         ~cfg.mt \/ cfg.insecureTM)
           T == [name: {"mongodb", "rabbitmq", "redis", "multi_tenant_redis", "s3", "tenant_manager"},
                 seen: Seen]
<1>1. TLSChecks(cfg) = a \o b \o c \o d \o e \o f
  BY DEF TLSChecks, OneCheck
<1>2. /\ DetectMongoTLS(cfg.mongo) \in Seen /\ DetectAMQPTLS(cfg.rabbit) \in Seen
      /\ DetectRedisTLS(cfg.redis) \in Seen /\ DetectRedisTLS(cfg.mtRedis) \in Seen
      /\ DetectS3TLS(cfg.s3) \in Seen /\ DetectHTTPUpstreamTLS(cfg.tm) \in Seen
  BY DEF DetectMongoTLS, DetectAMQPTLS, DetectRedisTLS, DetectS3TLS, DetectHTTPUpstreamTLS,
     ParseOrWrap, Seen
<1>3. /\ a \in Seq(T) /\ b \in Seq(T) /\ c \in Seq(T)
  <2>1. a \in Seq(T)
    BY <1>2, OneCheckTyped
  <2>2. b \in Seq(T)
    BY <1>2, OneCheckTyped
  <2>3. c \in Seq(T)
    BY <1>2, OneCheckTyped
  <2> QED BY <2>1, <2>2, <2>3
<1>4. /\ d \in Seq(T) /\ e \in Seq(T) /\ f \in Seq(T)
  <2>1. d \in Seq(T)
    BY <1>2, OneCheckTyped
  <2>2. e \in Seq(T)
    BY <1>2, OneCheckTyped
  <2>3. f \in Seq(T)
    BY <1>2, OneCheckTyped
  <2> QED BY <2>1, <2>2, <2>3
<1>5. AllOn(a \o b \o c \o d \o e \o f)
  BY <1>1 DEF ValidateSaaSTLS, AllOn
<1> HIDE DEF a, b, c, d, e, f, T
<1>6. /\ a \o b \in Seq(T) /\ a \o b \o c \in Seq(T) /\ a \o b \o c \o d \in Seq(T)
      /\ a \o b \o c \o d \o e \in Seq(T)
  BY <1>3, <1>4
<1>7. AllOn(a \o b \o c \o d \o e)
  BY <1>4, <1>5, <1>6, ChecksJoined
<1>8. AllOn(a \o b \o c \o d) /\ AllOn(e)
  BY <1>4, <1>6, <1>7, ChecksJoined
<1>9. AllOn(a \o b \o c) /\ AllOn(d)
  BY <1>4, <1>6, <1>8, ChecksJoined
<1>10. AllOn(a \o b) /\ AllOn(c)
  BY <1>3, <1>6, <1>9, ChecksJoined
<1>11. AllOn(a) /\ AllOn(b)
  BY <1>3, <1>10, ChecksJoined
<1> QED BY <1>8, <1>9, <1>10, <1>11 DEF a, b, c, d, e

-----------------------------------------------------------------------------
(* A process that serves has taken every step of its bootstrap; while it    *)
(* boots and while it shuts down at most the listener runs, and not after   *)
(* the step that stops it; a channel has a scheme the AMQP library knows.   *)

Passed(s) == s.probes \/ ~s.refuses

PassedInv ==
    /\ proc.phase = "boot" => \A i \in DOMAIN BootSteps : i < proc.step => Passed(BootSteps[i])
    /\ proc.phase \in Alive => \A i \in DOMAIN BootSteps : Passed(BootSteps[i])

Stopping(i) == "listener" \in Cleanup[i].stops

UsersInv ==
    /\ proc.phase \in {"boot", "cleanup", "stopped"} => proc.running \subseteq {"listener"}
    /\ proc.phase = "serving" => proc.running \subseteq Apps \cup {"listener"}
    /\ proc.phase \in {"cleanup", "stopped"} =>
          \A i \in DOMAIN Cleanup : i < proc.step /\ Stopping(i) => proc.running = {}

Dialled == proc.channel # "none" => config.rabbit \in {"amqp", "amqps"}

FitInv == PassedInv /\ UsersInv /\ Dialled

LEMMA FitFrame ==
    ASSUME FitInv, UNCHANGED config, Keeps({"phase", "step"}), proc'.running \subseteq proc.running,
           proc'.channel = "none" \/ proc.channel # "none" \/ BrokerAnswers
    PROVE  FitInv'
<1>1. proc'.phase = proc.phase /\ proc'.step = proc.step
  BY DEF Keeps
<1>2. PassedInv'
  BY <1>1, SameConfig DEF FitInv, PassedInv
<1>3. UsersInv'
  BY <1>1, SameConfig DEF FitInv, UsersInv, Stopping
<1>4. Dialled'
  BY DEF FitInv, Dialled, BrokerAnswers
<1> QED BY <1>2, <1>3, <1>4 DEF FitInv

LEMMA FitKept ==
    ASSUME FitInv, UNCHANGED <<config, proc>>
    PROVE  FitInv'
BY FitFrame DEF Keeps

LEMMA BootStepFit ==
    ASSUME IInv, FitInv, BootStep
    PROVE  FitInv'
<1>1. /\ BootFacts /\ proc \in Processes /\ proc.step \in DOMAIN BootSteps
      /\ proc.phase = "boot" /\ ~Step.refuses /\ UNCHANGED config
  BY BootFactsHold DEF IInv, BootStep, Booting, TypeOK, Processes, BootFacts
<1>2. PICK b : b = IF Step.connects THEN Dial ELSE proc.channel
  OBVIOUS
<1>3. proc' = [proc EXCEPT !.step = @ + 1, !.open = @ \cup Step.opens,
                           !.running = @ \cup Step.starts, !.channel = b]
  BY <1>2 DEF BootStep
<1>4. /\ proc'.phase = "boot" /\ proc'.step = proc.step + 1
      /\ proc'.running = proc.running \cup Step.starts /\ proc'.channel = b
  BY <1>1, <1>3 DEF Processes
<1>5. PassedInv'
  <2>1. \A i \in DOMAIN BootSteps : i < proc.step + 1 => Passed(BootSteps[i])
    BY <1>1 DEF FitInv, PassedInv, Passed, Step, BootFacts, Processes
  <2> QED BY <1>1, <1>4, <2>1, SameConfig DEF PassedInv, Alive
<1>6. UsersInv'
  <2>1. Step.starts \subseteq {"listener"}
    BY <1>1 DEF BootFacts, Step
  <2> QED BY <1>1, <1>4, <2>1 DEF FitInv, UsersInv
<1>7. Dialled'
  <2>1. b # "none" => BrokerAnswers \/ proc.channel # "none"
    BY <1>2 DEF Dial
  <2> QED BY <1>1, <1>4, <2>1 DEF FitInv, Dialled, BrokerAnswers
<1> QED BY <1>5, <1>6, <1>7 DEF FitInv

LEMMA SelfProbeFit ==
    ASSUME IInv, FitInv, SelfProbeEnds
    PROVE  FitInv'
<1>1. /\ BootFacts /\ proc \in Processes /\ proc.step \in DOMAIN BootSteps
      /\ proc.phase = "boot" /\ Step.probes /\ UNCHANGED config
  BY BootFactsHold DEF IInv, SelfProbeEnds, BootInv, Booting, TypeOK, Processes, BootFacts
<1>2. PICK s : proc' = [proc EXCEPT !.selfProbe = s, !.step = @ + 1]
  BY DEF SelfProbeEnds
<1>3. /\ proc'.phase = "boot" /\ proc'.step = proc.step + 1
      /\ proc'.running = proc.running /\ proc'.channel = proc.channel
  BY <1>1, <1>2 DEF Processes
<1>4. PassedInv'
  <2>1. \A i \in DOMAIN BootSteps : i < proc.step + 1 => Passed(BootSteps[i])
    BY <1>1 DEF FitInv, PassedInv, Passed, Step, BootFacts, Processes
  <2> QED BY <1>1, <1>3, <2>1, SameConfig DEF PassedInv, Alive
<1>5. UsersInv' /\ Dialled'
  BY <1>1, <1>3 DEF FitInv, UsersInv, Dialled
<1> QED BY <1>4, <1>5 DEF FitInv

LEMMA RunFit ==
    ASSUME IInv, FitInv, Run
    PROVE  FitInv'
<1>1. /\ BootFacts /\ proc \in Processes /\ proc.phase = "boot" /\ proc.step > Len(BootSteps)
      /\ UNCHANGED config
  BY BootFactsHold DEF IInv, TypeOK, Run
<1>2. PICK f : Guarded(proc, TRUE) = [proc EXCEPT !.closings = f]
  <2>1. proc = [proc EXCEPT !.closings = proc.closings]
    BY <1>1 DEF Processes
  <2> QED BY <2>1 DEF Guarded, Closed
<1>3. PICK q : q = [proc EXCEPT !.closings = f]
  OBVIOUS
<1>4. /\ q.running = proc.running /\ q.channel = proc.channel
      /\ DOMAIN q = DOMAIN proc
  BY <1>1, <1>3 DEF Processes
<1>5. proc' = [q EXCEPT !.phase = "serving", !.step = 1, !.running = @ \cup Apps]
  BY <1>2, <1>3 DEF Run
<1>6. /\ proc'.phase = "serving" /\ proc'.running = proc.running \cup Apps
      /\ proc'.channel = proc.channel
  BY <1>1, <1>4, <1>5 DEF Processes
<1>7. PassedInv'
  <2>1. \A i \in DOMAIN BootSteps : i < proc.step
    BY <1>1 DEF BootFacts, Processes
  <2> QED BY <1>1, <1>6, <2>1, SameConfig DEF FitInv, PassedInv
<1>8. UsersInv' /\ Dialled'
  BY <1>1, <1>6, SameConfig DEF FitInv, UsersInv, Dialled
<1> QED BY <1>7, <1>8 DEF FitInv

(* A process that is gone, and one that starts. *)
LEMMA GoneFit ==
    ASSUME FitInv, UNCHANGED config, proc'.phase \in {"aborted", "killed"},
           proc'.channel = proc.channel
    PROVE  FitInv'
BY DEF FitInv, PassedInv, UsersInv, Dialled, Alive

LEMMA AbortFit ==
    ASSUME IInv, FitInv, BootRefused \/ BootFails
    PROVE  FitInv'
<1>1. proc \in Processes /\ proc' = Aborted /\ UNCHANGED config
  BY DEF IInv, TypeOK, BootRefused, BootFails
<1>2. PICK p : p = [proc EXCEPT !.running = @ \ Step.undoes]
  OBVIOUS
<1>3. PICK q : q = Closed(p, Step.undoes \cap proc.open)
  OBVIOUS
<1>4. DOMAIN p = DOMAIN proc /\ p.channel = proc.channel
  BY <1>1, <1>2 DEF Processes
<1>5. DOMAIN q = DOMAIN proc /\ q.channel = proc.channel
  BY <1>1, <1>3, <1>4 DEF Closed, Processes
<1>6. PICK z : z = Guarded(q, FALSE)
  OBVIOUS
<1>7. DOMAIN z = DOMAIN proc /\ z.channel = proc.channel
  BY <1>1, <1>5, <1>6 DEF Guarded, Closed, Processes
<1>8. proc' = [z EXCEPT !.phase = "aborted"]
  BY <1>1, <1>2, <1>3, <1>6 DEF Aborted
<1>9. proc'.phase = "aborted" /\ proc'.channel = proc.channel
  BY <1>1, <1>7, <1>8 DEF Processes
<1> QED BY <1>1, <1>9, GoneFit

LEMMA FreshFit ==
    ASSUME config \in Configs, proc = Fresh
    PROVE  FitInv
<1>1. BootFacts
  BY BootFactsHold
<1>2. proc.phase = "boot" /\ proc.step = 1 /\ proc.running = {} /\ proc.channel = "none"
  BY DEF Fresh
<1>3. \A i \in DOMAIN BootSteps : ~(i < 1)
  BY <1>1 DEF BootFacts
<1> QED BY <1>2, <1>3 DEF FitInv, PassedInv, UsersInv, Dialled, Alive

LEMMA RestartFit ==
    ASSUME IInv, FitInv, Restart
    PROVE  FitInv'
<1>1. BootFacts /\ UNCHANGED config /\ proc' = Fresh
  BY BootFactsHold DEF IInv, TypeOK, Restart
<1>2. proc'.phase = "boot" /\ proc'.step = 1 /\ proc'.running = {} /\ proc'.channel = "none"
  BY <1>1 DEF Fresh
<1>3. \A i \in DOMAIN BootSteps : ~(i < 1)
  BY <1>1 DEF BootFacts
<1> QED BY <1>1, <1>2, <1>3, SameConfig DEF FitInv, PassedInv, UsersInv, Dialled, Alive

LEMMA SigtermFit ==
    ASSUME IInv, FitInv, Sigterm
    PROVE  FitInv'
<1>1. proc \in Processes /\ UNCHANGED config
  BY DEF IInv, TypeOK, Sigterm
<1>2. CASE proc' = [proc EXCEPT !.phase = "killed"]
  <2>1. proc'.phase = "killed" /\ proc'.channel = proc.channel
    BY <1>1, <1>2 DEF Processes
  <2> QED BY <1>1, <2>1, GoneFit
<1>3. CASE proc' = [proc EXCEPT !.signalled = TRUE]
  <2>1. /\ Keeps({"phase", "step"}) /\ proc'.running = proc.running
        /\ proc'.channel = proc.channel
    BY <1>1, <1>3 DEF Processes, Keeps
  <2> QED BY <1>1, <2>1, FitFrame
<1> QED BY <1>2, <1>3 DEF Sigterm

(* The apps are gone and the shutdown begins. *)
LEMMA CleanupFit ==
    ASSUME IInv, FitInv, CloseServer \/ LauncherReturns
    PROVE  FitInv'
<1>1. proc \in Processes /\ proc.phase = "serving" /\ UNCHANGED config
  BY DEF IInv, TypeOK, CloseServer, Listening, LauncherReturns
<1>2. /\ proc'.phase = "cleanup" /\ proc'.step = 1 /\ proc'.channel = proc.channel
      /\ proc'.running \subseteq proc.running \ Apps
  <2>1. CASE CloseServer
    <3>1. Apps = {"server"}
      BY <2>1 DEF CloseServer, Apps
    <3>2. proc' = [proc EXCEPT !.running = @ \ {"server"}, !.phase = "cleanup", !.step = 1]
      BY <2>1 DEF CloseServer
    <3>3. /\ proc'.phase = "cleanup" /\ proc'.step = 1 /\ proc'.channel = proc.channel
          /\ proc'.running = proc.running \ {"server"}
      BY <1>1, <3>2 DEF Processes
    <3> QED BY <3>1, <3>3
  <2>2. CASE LauncherReturns
    <3>1. /\ proc.running \cap Apps = {}
          /\ proc' = [proc EXCEPT !.phase = "cleanup", !.step = 1]
      BY <2>2 DEF LauncherReturns
    <3>2. /\ proc'.phase = "cleanup" /\ proc'.step = 1 /\ proc'.channel = proc.channel
          /\ proc'.running = proc.running
      BY <1>1, <3>1 DEF Processes
    <3> QED BY <3>1, <3>2
  <2> QED BY <2>1, <2>2
<1>3. PassedInv' /\ Dialled'
  BY <1>1, <1>2, SameConfig DEF FitInv, PassedInv, Dialled, Alive
<1>4. UsersInv'
  <2>1. \A i \in DOMAIN Cleanup : ~(i < 1)
    BY CleanupFacts DEF IInv, TypeOK, ClosesOnce
  <2> QED BY <1>1, <1>2, <2>1, SameConfig DEF FitInv, UsersInv
<1> QED BY <1>3, <1>4 DEF FitInv

LEMMA CleanupStepFit ==
    ASSUME IInv, FitInv, CleanupStep
    PROVE  FitInv'
<1>1. /\ proc \in Processes /\ proc.phase = "cleanup" /\ UNCHANGED config
      /\ DOMAIN Cleanup = 1..Len(Cleanup) /\ Len(Cleanup) \in Nat
  BY CleanupFacts DEF CleanupStep, IInv, TypeOK, ClosesOnce
<1>2. CASE proc.step > Len(Cleanup)
  <2>1. proc' = [proc EXCEPT !.phase = "stopped"]
    BY <1>2 DEF CleanupStep
  <2>2. /\ proc'.phase = "stopped" /\ proc'.step = proc.step /\ proc'.running = proc.running
        /\ proc'.channel = proc.channel
    BY <1>1, <2>1 DEF Processes
  <2>3. PassedInv' /\ Dialled'
    BY <1>1, <2>2, SameConfig DEF FitInv, PassedInv, Dialled, Alive
  <2>4. UsersInv'
    BY <1>1, <2>2, SameConfig DEF FitInv, UsersInv, Stopping
  <2> QED BY <2>3, <2>4 DEF FitInv
<1>3. CASE ~(proc.step > Len(Cleanup))
  <2>1. PICK s : s = Cleanup[proc.step]
    OBVIOUS
  <2>2. PICK p : p = [proc EXCEPT !.step = @ + 1, !.running = @ \ s.stops]
    OBVIOUS
  <2>3. /\ DOMAIN p = DOMAIN proc /\ p.step = proc.step + 1 /\ p.phase = "cleanup"
        /\ p.running = proc.running \ s.stops /\ p.channel = proc.channel
    BY <1>1, <2>2 DEF Processes
  <2>4. proc' = Closed(p, s.closes \cap proc.open)
    BY <1>3, <2>1, <2>2 DEF CleanupStep
  <2>5. /\ proc'.step = proc.step + 1 /\ proc'.phase = "cleanup"
        /\ proc'.running = proc.running \ s.stops /\ proc'.channel = proc.channel
    BY <1>1, <2>3, <2>4 DEF Closed, Processes
  <2>6. PassedInv' /\ Dialled'
    BY <1>1, <2>5, SameConfig DEF FitInv, PassedInv, Dialled, Alive
  <2>7. UsersInv'
    <3>1. ASSUME NEW i \in DOMAIN Cleanup, i < proc.step + 1, Stopping(i)
          PROVE  proc.running \ s.stops = {}
      <4>1. CASE i < proc.step
        BY <1>1, <3>1, <4>1 DEF FitInv, UsersInv
      <4>2. CASE i = proc.step
        BY <1>1, <2>1, <3>1, <4>2 DEF FitInv, UsersInv, Stopping
      <4> QED BY <1>1, <3>1, <4>1, <4>2 DEF Processes
    <3>2. proc.running \subseteq {"listener"}
      BY <1>1 DEF FitInv, UsersInv
    <3> QED BY <1>1, <2>5, <3>1, <3>2, SameConfig DEF UsersInv, Stopping
  <2> QED BY <2>6, <2>7 DEF FitInv
<1> QED BY <1>2, <1>3

(* What stays in its phase. *)
LEMMA OtherStepsFit ==
    ASSUME IInv, FitInv,
           \/ RunSelfProbe \/ HealthProbe \/ StartDrain \/ Tick \/ ConsumerStops
           \/ \E g \in {"health", "dispatcher", "repairer", "reconciler"} : AppStops(g)
           \/ \E d \in Deps : DependencyGoesDown(d)
           \/ Adapter
    PROVE  FitInv'
<1>0. proc \in Processes
  BY DEF IInv, TypeOK
<1> DEFINE Goal == /\ UNCHANGED config /\ Keeps({"phase", "step"}) /\ proc'.running \subseteq proc.running
                   /\ proc'.channel = "none" \/ proc.channel # "none" \/ BrokerAnswers
<1>1. CASE RunSelfProbe
  <2>1. PICK s : UNCHANGED config /\ proc' = [proc EXCEPT !.selfProbe = s]
    BY <1>1 DEF RunSelfProbe
  <2>2. Goal
    BY <1>0, <2>1 DEF Processes, Keeps
  <2> QED BY <2>2, FitFrame
<1>2. CASE HealthProbe
  <2>1. UNCHANGED config /\ proc' = [proc EXCEPT !.signalled = TRUE]
    BY <1>2 DEF HealthProbe
  <2>2. Goal
    BY <1>0, <2>1 DEF Processes, Keeps
  <2> QED BY <2>2, FitFrame
<1>3. CASE StartDrain
  <2>1. UNCHANGED config /\ proc' = [proc EXCEPT !.draining = TRUE, !.drainLeft = 2 * DrainDelay]
    BY <1>3 DEF StartDrain
  <2>2. Goal
    BY <1>0, <2>1 DEF Processes, Keeps
  <2> QED BY <2>2, FitFrame
<1>4. CASE Tick
  <2>1. UNCHANGED config /\ proc' = [proc EXCEPT !.drainLeft = @ - 1]
    BY <1>4 DEF Tick
  <2>2. Goal
    BY <1>0, <2>1 DEF Processes, Keeps
  <2> QED BY <2>2, FitFrame
<1>5. CASE ConsumerStops
  <2>1. PICK p : p = [proc EXCEPT !.running = @ \ {"consumer"}, !.channel = "none"]
    OBVIOUS
  <2>2. PICK f : proc' = [p EXCEPT !.closings = f]
    BY <1>5, <2>1 DEF ConsumerStops, Closed
  <2>3. /\ DOMAIN p = DOMAIN proc /\ p.phase = proc.phase /\ p.step = proc.step
        /\ p.running = proc.running \ {"consumer"} /\ p.channel = "none"
    BY <1>0, <2>1 DEF Processes
  <2>4. /\ proc'.phase = proc.phase /\ proc'.step = proc.step
        /\ proc'.running = proc.running \ {"consumer"} /\ proc'.channel = "none"
    BY <1>0, <2>2, <2>3 DEF Processes
  <2>5. Goal
    BY <1>5, <2>4 DEF ConsumerStops, Keeps
  <2> QED BY <2>5, FitFrame
<1>6. CASE \E g \in {"health", "dispatcher", "repairer", "reconciler"} : AppStops(g)
  <2>1. PICK g : UNCHANGED config /\ proc' = [proc EXCEPT !.running = @ \ {g}]
    BY <1>6 DEF AppStops
  <2>2. Goal
    BY <1>0, <2>1 DEF Processes, Keeps
  <2> QED BY <2>2, FitFrame
<1>7. CASE \E d \in Deps : DependencyGoesDown(d)
  <2>1. PICK d \in Deps : DependencyGoesDown(d)
    BY <1>7
  <2>2. PICK ch : ch = IF d = "rabbitmq" /\ proc.channel = "live" THEN "dead" ELSE proc.channel
    OBVIOUS
  <2>3. UNCHANGED config /\ proc' = [proc EXCEPT !.channel = ch]
    BY <2>1, <2>2 DEF DependencyGoesDown
  <2>4. ch = "none" \/ proc.channel # "none"
    BY <2>2
  <2>5. Goal
    BY <1>0, <2>3, <2>4 DEF Processes, Keeps
  <2> QED BY <2>5, FitFrame
<1>8. CASE Adapter
  <2>1. PICK b, ch : /\ proc' = [proc EXCEPT !.channel = ch, !.breaker = b]
                     /\ ch = proc.channel \/ ch = "none" \/ (ch = "live" /\ BrokerAnswers)
    BY <1>8, AdapterSteps
  <2>2. UNCHANGED config
    BY <1>8 DEF Adapter, EnsureChannel, BreakerHalfOpens, ChannelWatcher
  <2>3. Goal
    BY <1>0, <2>1, <2>2 DEF Processes, Keeps
  <2> QED BY <2>3, FitFrame
<1> QED BY <1>1, <1>2, <1>3, <1>4, <1>5, <1>6, <1>7, <1>8

LEMMA NextFit ==
    ASSUME IInv, FitInv, [Next]_vars
    PROVE  FitInv'
<1>1. CASE Bootstrap
  BY <1>1, BootStepFit, AbortFit, RunFit, RestartFit, OtherStepsFit DEF Bootstrap
<1>2. CASE BootFails
  BY <1>2, AbortFit
<1>3. CASE Checking
  <2>1. CASE SelfProbeEnds
    BY <2>1, SelfProbeFit
  <2>2. CASE ReadyzAnswers \/ TenantProbeAnswers \/ \E d \in Deps : CheckReturns(d)
    BY <2>2, FitKept DEF ReadyzAnswers, TenantProbeAnswers, CheckReturns
  <2> QED BY <1>3, <2>1, <2>2 DEF Checking
<1>4. CASE \/ KubeProbe \/ \E d \in Deps : CheckTimesOut(d) \/ DependencyComesBack(d)
           \/ \E known \in BOOLEAN : TenantProbe(known)
  BY <1>4, FitKept DEF KubeProbe, CheckTimesOut, DependencyComesBack, TenantProbe
<1>5. CASE Sigterm
  BY <1>5, SigtermFit
<1>6. CASE Shutdown
  BY <1>6, OtherStepsFit, CleanupFit, CleanupStepFit DEF Shutdown
<1>7. CASE \/ HealthProbe \/ CloseServer \/ Adapter
           \/ \E g \in {"health", "dispatcher", "repairer", "reconciler"} : AppStops(g)
           \/ \E d \in Deps : DependencyGoesDown(d)
  BY <1>7, OtherStepsFit, CleanupFit
<1>8. CASE UNCHANGED vars
  BY <1>8, FitKept DEF vars
<1> QED BY <1>1, <1>2, <1>3, <1>4, <1>5, <1>6, <1>7, <1>8 DEF Next

-----------------------------------------------------------------------------
(* What the steps taken say of the settings.                                *)

Gate(c) == ValidateSaaSTLS(IF c.app = "manager" THEN M!BuildSaaSTLSConfig(c)
                                                ELSE W!BuildSaaSTLSConfig(c))

GoodSettings(c) ==
    /\ Gate(c) /\ MongoConnects(c.mongo)
    /\ c.mt => c.mtRedis.host /\ ~ClientRefuses(c)

(* Both bootstraps have their own instance of the gate. *)
LEMMA SameGate ==
    ASSUME NEW cfg
    PROVE  /\ M!ValidateSaaSTLS(cfg) <=> ValidateSaaSTLS(cfg)
           /\ W!ValidateSaaSTLS(cfg) <=> ValidateSaaSTLS(cfg)
<1>1. M!TLSChecks(cfg) = TLSChecks(cfg)
  BY DEF M!TLSChecks, TLSChecks, M!DetectMongoTLS, DetectMongoTLS, M!DetectAMQPTLS, DetectAMQPTLS,
     M!DetectRedisTLS, DetectRedisTLS, M!DetectS3TLS, DetectS3TLS, M!DetectHTTPUpstreamTLS,
     DetectHTTPUpstreamTLS, M!ParseOrWrap, ParseOrWrap, M!NoURL, NoURL, M!BadURL, BadURL, M!URL, URL,
     M!TruthyQueryValue, TruthyQueryValue, M!FalseyQueryValue, FalseyQueryValue
<1>2. W!TLSChecks(cfg) = TLSChecks(cfg)
  BY DEF W!TLSChecks, TLSChecks, W!DetectMongoTLS, DetectMongoTLS, W!DetectAMQPTLS, DetectAMQPTLS,
     W!DetectRedisTLS, DetectRedisTLS, W!DetectS3TLS, DetectS3TLS, W!DetectHTTPUpstreamTLS,
     DetectHTTPUpstreamTLS, W!ParseOrWrap, ParseOrWrap, W!NoURL, NoURL, W!BadURL, BadURL, W!URL, URL,
     W!TruthyQueryValue, TruthyQueryValue, W!FalseyQueryValue, FalseyQueryValue
<1> QED BY <1>1, <1>2 DEF M!ValidateSaaSTLS, W!ValidateSaaSTLS, ValidateSaaSTLS

LEMMA ManagerPassed ==
    ASSUME NEW c, c.app = "manager", {c.mt, c.mtRedis.host} \subseteq BOOLEAN,
           \A i \in DOMAIN M!InitServers(c) : Passed(M!InitServers(c)[i])
    PROVE  GoodSettings(c)
<1> DEFINE T == ManagerSteps(c)
           S == M!InitServers(c)
<1>1. /\ M!ValidateSecurityConfig(c) \in T /\ M!InitLoggerAndTelemetry \in T
      /\ M!RequireMultiTenantSettings(c) \in T /\ M!EnforceTLS(c) \in T
      /\ M!InitMongoRepositories(c) \in T /\ M!InitCrypto(c) \in T
      /\ M!InitMessaging(c) \in T /\ M!InitCaches(c) \in T
  BY DEF ManagerSteps
<1>2. M!AssembleService(c) \in Seq(T)
  BY ManagerHasSteps
<1> HIDE DEF T
<1>3. /\ 3 \in DOMAIN S /\ 4 \in DOMAIN S /\ 5 \in DOMAIN S /\ 7 \in DOMAIN S
      /\ S[3] = M!RequireMultiTenantSettings(c) /\ S[4] = M!EnforceTLS(c)
      /\ S[5] = M!InitMongoRepositories(c) /\ S[7] = M!InitMessaging(c)
  <2>1. M!InitPlatformDependencies(c) = <<M!InitMessaging(c), M!InitCaches(c)>>
    BY DEF M!InitPlatformDependencies
  <2> QED BY <1>1, <1>2, <2>1 DEF M!InitServers
<1>4. Passed(S[3]) /\ Passed(S[4]) /\ Passed(S[5]) /\ Passed(S[7])
  BY <1>3
<1> HIDE DEF S
<1>5. /\ Passed(M!RequireMultiTenantSettings(c)) /\ Passed(M!EnforceTLS(c))
      /\ Passed(M!InitMongoRepositories(c)) /\ Passed(M!InitMessaging(c))
  BY <1>3, <1>4
<1>6. c.mt => c.mtRedis.host
  BY <1>5 DEF Passed, M!RequireMultiTenantSettings, M!ValidateMultiTenantConfig, M!Plain
<1>7. Gate(c)
  <2>1. M!ValidateSaaSTLS(M!BuildSaaSTLSConfig(c))
    BY <1>5 DEF Passed, M!EnforceTLS, M!Plain
  <2> QED BY <2>1, SameGate DEF Gate
<1>8. MongoConnects(c.mongo)
  BY <1>5 DEF Passed, M!InitMongoRepositories, M!Plain, M!MongoConnects, MongoConnects
<1>9. c.mt => ~ClientRefuses(c)
  BY <1>5 DEF Passed, M!InitMessaging, M!Plain, M!ClientRefuses, ClientRefuses, M!BadURL, BadURL,
     M!URL, URL
<1> QED BY <1>6, <1>7, <1>8, <1>9 DEF GoodSettings


LEMMA WorkerServices ==
    ASSUME NEW c, c.mt \in BOOLEAN
    PROVE  (IF c.mt THEN W!InitMultiTenantWorkerService(c) ELSE W!InitSingleTenantWorkerService(c))
             \in Seq(WorkerSteps(c))
<1> DEFINE T == WorkerSteps(c)
<1>1. CASE c.mt = TRUE
  <2>1. /\ W!InitMultiTenantStack \in Seq(T)
        /\ <<W!InitJobEventEmitter(c), W!NewWorkerReadyzDepsMT, W!SelfProbe,
             W!BuildStreamingOutboxDispatcher>> \in Seq(T)
    BY <1>1 DEF WorkerSteps, W!InitMultiTenantStack
  <2> HIDE DEF T
  <2>2. W!InitMultiTenantWorkerService(c) \in Seq(T)
    BY <2>1 DEF W!InitMultiTenantWorkerService
  <2> QED BY <1>1, <2>2 DEF T
<1>2. CASE c.mt = FALSE
  <2>1. W!InitSingleTenantWorkerService(c) \in Seq(T)
    BY <1>2 DEF WorkerSteps, W!InitSingleTenantWorkerService
  <2> QED BY <1>2, <2>1
<1> QED BY <1>1, <1>2

LEMMA WorkerPassed ==
    ASSUME NEW c, c.app # "manager", {c.mt, c.mtRedis.host} \subseteq BOOLEAN,
           \A i \in DOMAIN W!InitWorker(c) : Passed(W!InitWorker(c)[i])
    PROVE  GoodSettings(c)
<1> DEFINE T == WorkerSteps(c)
           S == W!InitWorker(c)
<1>0. /\ W!If(c.mt, <<W!InitTenantManagerClient(c), W!InitMultiTenantManagers>>) \in Seq(T)
      /\ W!If(c.mt, <<W!BuildResolverTenantAdapter(c, {})>>) \in Seq(T)
  <2>1. CASE c.mt = TRUE
    <3>1. {W!InitTenantManagerClient(c), W!InitMultiTenantManagers,
           W!BuildResolverTenantAdapter(c, {})} \subseteq T
      BY <2>1 DEF WorkerSteps
    <3> QED BY <2>1, <3>1 DEF W!If
  <2>2. CASE c.mt = FALSE
    BY <2>2 DEF W!If
  <2> QED BY <2>1, <2>2
<1>1. /\ W!InitObservability(c) \in T /\ W!InitCryptoServices(c) \in T /\ W!EnforceTLS(c) \in T
      /\ W!InitStorageRepository(c) \in T /\ W!InitMongoConnection(c) \in T
      /\ W!InitWorkerRepositories \in T /\ W!WireEngineRunner \in T
  BY DEF WorkerSteps
<1>2. PICK n \in Seq(T) :
        n = W!If(c.mt, <<W!InitTenantManagerClient(c), W!InitMultiTenantManagers>>)
  BY <1>0
<1>3. PICK d \in Seq(T) : d = W!If(c.mt, <<W!BuildResolverTenantAdapter(c, {})>>)
  BY <1>0
<1>4. PICK e \in Seq(T) : e = IF c.mt THEN W!InitMultiTenantWorkerService(c)
                                      ELSE W!InitSingleTenantWorkerService(c)
  BY WorkerServices
<1> HIDE DEF T
<1>5. /\ 1 \in DOMAIN S /\ 3 \in DOMAIN S /\ 5 \in DOMAIN S
      /\ S[1] = W!InitObservability(c) /\ S[3] = W!EnforceTLS(c) /\ S[5] = W!InitMongoConnection(c)
      /\ n # <<>> => 6 \in DOMAIN S /\ S[6] = n[1]
  <2>1. S = <<W!InitObservability(c), W!InitCryptoServices(c), W!EnforceTLS(c),
              W!InitStorageRepository(c), W!InitMongoConnection(c)>>
            \o n \o <<W!InitWorkerRepositories, W!WireEngineRunner>> \o d \o e
    BY <1>2, <1>3, <1>4 DEF W!InitWorker
  <2> HIDE DEF S
  <2> QED BY <1>1, <2>1
<1>6. Passed(S[1]) /\ Passed(S[3]) /\ Passed(S[5]) /\ (n # <<>> => Passed(S[6]))
  BY <1>5
<1> HIDE DEF S
<1>7. /\ Passed(W!InitObservability(c)) /\ Passed(W!EnforceTLS(c)) /\ Passed(W!InitMongoConnection(c))
      /\ c.mt => Passed(W!InitTenantManagerClient(c))
  <2>1. c.mt => n # <<>> /\ n[1] = W!InitTenantManagerClient(c)
    BY <1>2 DEF W!If
  <2> QED BY <1>5, <1>6, <2>1
<1>8. c.mt => c.mtRedis.host
  BY <1>7 DEF Passed, W!InitObservability, W!ValidateMultiTenantConfig, W!Plain
<1>9. Gate(c)
  <2>1. W!ValidateSaaSTLS(W!BuildSaaSTLSConfig(c))
    BY <1>7 DEF Passed, W!EnforceTLS, W!Plain
  <2> QED BY <2>1, SameGate DEF Gate
<1>10. MongoConnects(c.mongo)
  BY <1>7 DEF Passed, W!InitMongoConnection, W!Plain, W!MongoConnects, MongoConnects
<1>11. c.mt => ~ClientRefuses(c)
  BY <1>7 DEF Passed, W!InitTenantManagerClient, W!Plain, W!ClientRefuses, ClientRefuses,
     W!BadURL, BadURL, W!URL, URL
<1> QED BY <1>8, <1>9, <1>10, <1>11 DEF GoodSettings

-----------------------------------------------------------------------------
(* What opens the clients that can do without TLS. *)

TMClients == {"tm", "service_tm", "resolver_tm", "mw_tm"}

Opener(c, r) ==
    /\ r \in TMClients \cup {"event_redis", "readyz_mt_redis"} => c.mt
    /\ r = "readyz_redis" => c.redis.host
    /\ r \in {"readyz_redis", "schema_cache"} => c.app = "manager"
    /\ r = "s3" => c.app # "manager"

LEMMA ManagerOpens ==
    ASSUME NEW c, c.app = "manager", {c.mt, c.redis.host, c.mtRedis.host} \subseteq BOOLEAN,
           NEW s \in ManagerSteps(c), NEW r \in s.opens
    PROVE  Opener(c, r)
<1> USE DEF M!Plain, Opener, TMClients
<1>1. CASE s = M!ValidateSecurityConfig(c)
  BY <1>1 DEF M!ValidateSecurityConfig
<1>2. CASE s = M!InitLoggerAndTelemetry
  BY <1>2 DEF M!InitLoggerAndTelemetry
<1>3. CASE s = M!RequireMultiTenantSettings(c)
  BY <1>3 DEF M!RequireMultiTenantSettings
<1>4. CASE s = M!EnforceTLS(c)
  BY <1>4 DEF M!EnforceTLS
<1>5. CASE s = M!InitMongoRepositories(c)
  BY <1>5 DEF M!InitMongoRepositories
<1>6. CASE s = M!InitCrypto(c)
  BY <1>6 DEF M!InitCrypto
<1>7. CASE s = M!InitMessaging(c)
  BY <1>7 DEF M!InitMessaging
<1>8. CASE s = M!InitCaches(c)
  BY <1>8 DEF M!InitCaches, M!NewReadyzRedisClient, M!NewReadyzMultiTenantRedisClient
<1>9. CASE s = M!BuildEngines
  BY <1>9 DEF M!BuildEngines
<1>10. CASE s = M!SelfProbe
  BY <1>10 DEF M!SelfProbe
<1>11. CASE s = M!NewRoutes
  BY <1>11 DEF M!NewRoutes
<1>12. CASE s = M!BuildResolverTenantAdapter(c, {"resolver_tm"}) /\ c.mt
  BY <1>12 DEF M!BuildResolverTenantAdapter, M!BuildServiceClients
<1>13. CASE s = M!NewMiddlewareClient(c) /\ c.mt
  BY <1>13 DEF M!NewMiddlewareClient
<1>14. CASE s = M!EventRedis /\ c.mt
  BY <1>14 DEF M!EventRedis
<1>15. CASE s = M!StartEventListener /\ c.mt
  BY <1>15 DEF M!StartEventListener
<1> QED BY <1>1, <1>2, <1>3, <1>4, <1>5, <1>6, <1>7, <1>8, <1>9, <1>10, <1>11, <1>12, <1>13, <1>14, <1>15
        DEF ManagerSteps

LEMMA WorkerOpens ==
    ASSUME NEW c, c.app # "manager", c.mt \in BOOLEAN, NEW s \in WorkerSteps(c), NEW r \in s.opens
    PROVE  Opener(c, r)
<1> USE DEF W!Plain, Opener, TMClients
<1>1. CASE s = W!InitObservability(c)
  BY <1>1 DEF W!InitObservability
<1>2. CASE s = W!InitCryptoServices(c)
  BY <1>2 DEF W!InitCryptoServices
<1>3. CASE s = W!EnforceTLS(c)
  BY <1>3 DEF W!EnforceTLS
<1>4. CASE s = W!InitStorageRepository(c)
  BY <1>4 DEF W!InitStorageRepository
<1>5. CASE s = W!InitMongoConnection(c)
  BY <1>5 DEF W!InitMongoConnection
<1>6. CASE s = W!InitWorkerRepositories
  BY <1>6 DEF W!InitWorkerRepositories
<1>7. CASE s = W!WireEngineRunner
  BY <1>7 DEF W!WireEngineRunner
<1>8. CASE s = W!InitJobEventEmitter(c)
  BY <1>8 DEF W!InitJobEventEmitter
<1>9. CASE s = W!SelfProbe
  BY <1>9 DEF W!SelfProbe
<1>10. CASE s = W!BuildStreamingOutboxDispatcher
  BY <1>10 DEF W!BuildStreamingOutboxDispatcher
<1>11. CASE s = W!InitSingleTenantRabbitMQ
  BY <1>11 DEF W!InitSingleTenantRabbitMQ
<1>12. CASE s = W!InitTenantManagerClient(c) /\ c.mt
  BY <1>12 DEF W!InitTenantManagerClient
<1>13. CASE s = W!InitMultiTenantManagers /\ c.mt
  BY <1>13 DEF W!InitMultiTenantManagers
<1>14. CASE s = W!BuildResolverTenantAdapter(c, {}) /\ c.mt
  BY <1>14 DEF W!BuildResolverTenantAdapter, W!BuildServiceClients
<1>15. CASE s = W!EventRedis /\ c.mt
  BY <1>15 DEF W!EventRedis
<1>16. CASE s = W!StartEventListener /\ c.mt
  BY <1>16 DEF W!StartEventListener
<1>17. CASE s = W!NewWorkerReadyzDepsMT /\ c.mt
  BY <1>17 DEF W!NewWorkerReadyzDepsMT
<1> QED BY <1>1, <1>2, <1>3, <1>4, <1>5, <1>6, <1>7, <1>8, <1>9, <1>10, <1>11, <1>12, <1>13, <1>14, <1>15, <1>16, <1>17
        DEF WorkerSteps

(* The steps of the process that serves. *)
LEMMA SettingsOfTheLiving ==
    ASSUME IInv, FitInv, proc.phase \in Alive
    PROVE  GoodSettings(config) /\ \A r \in proc.open : Opener(config, r)
<1>0. {config.mt, config.redis.host, config.mtRedis.host} \subseteq BOOLEAN
  BY ConfigAssumption DEF IInv, TypeOK
<1>1. /\ \A i \in DOMAIN BootSteps : Passed(BootSteps[i])
      /\ \A r \in proc.open : \E i \in DOMAIN BootSteps : r \in BootSteps[i].opens
  BY DEF FitInv, PassedInv, IInv, OpenInv
<1>2. CASE IsManager
  <2>1. BootSteps = M!InitServers(config) /\ config.app = "manager"
    BY <1>2 DEF BootSteps, StepsOf, IsManager, IInv, TypeOK
  <2>2. BootSteps \in Seq(ManagerSteps(config))
    BY <1>0, <2>1, ManagerHasSteps
  <2>3. \A i \in DOMAIN BootSteps : BootSteps[i] \in ManagerSteps(config)
    BY <2>2
  <2>4. GoodSettings(config)
    BY <1>0, <1>1, <2>1, ManagerPassed
  <2> QED BY <1>0, <1>1, <2>1, <2>3, <2>4, ManagerOpens
<1>3. CASE ~IsManager
  <2>1. BootSteps = W!InitWorker(config) /\ config.app # "manager"
    BY <1>3 DEF BootSteps, StepsOf, IsManager, IInv, TypeOK
  <2>2. BootSteps \in Seq(WorkerSteps(config))
    BY <1>0, <2>1, WorkerHasSteps
  <2>3. \A i \in DOMAIN BootSteps : BootSteps[i] \in WorkerSteps(config)
    BY <2>2
  <2>4. GoodSettings(config)
    BY <1>0, <1>1, <2>1, WorkerPassed
  <2> QED BY <1>0, <1>1, <2>1, <2>3, <2>4, WorkerOpens
<1> QED BY <1>2, <1>3

-----------------------------------------------------------------------------
(* Under DEPLOYMENT_MODE=saas every client the gate looks at has TLS. *)

LEMMA RedisHasTLS ==
    ASSUME NEW name, NEW tls \in BOOLEAN, NEW url, url = ComposeRedisURL(TRUE, tls),
           AllOn(OneCheck(name, url, DetectRedisTLS(url), FALSE))
    PROVE  tls = TRUE
<1>1. url.tls = "" /\ (url.scheme = "rediss" => tls = TRUE)
  BY DEF ComposeRedisURL, URL
<1>2. url # NoURL
  <2>1. NoURL.tls = "none"
    BY DEF NoURL, URL
  <2> QED BY <1>1, <2>1
<1>3. DetectRedisTLS(url) = "on"
  BY <1>2, OneCheckOn
<1>4. url.scheme = "rediss"
  BY <1>3 DEF DetectRedisTLS, ParseOrWrap
<1> QED BY <1>1, <1>4

LEMMA EncryptedClients ==
    ASSUME NEW r \in Clients \ Ungated, GoodSettings(config), Opener(config, r), Dialled,
           config.mode = "saas", {config.mt, config.redis.host, config.mtRedis.host} \subseteq BOOLEAN,
           {config.redis.tls, config.mtRedis.tls} \subseteq BOOLEAN
    PROVE  Encrypted(r)
<1> DEFINE cfg == IF config.app = "manager" THEN M!BuildSaaSTLSConfig(config)
                                            ELSE W!BuildSaaSTLSConfig(config)
<1>1. ValidateSaaSTLS(cfg)
  BY DEF GoodSettings, Gate
<1>2. /\ cfg.mode = "saas" /\ cfg.mt = config.mt
      /\ cfg.mtRedis = ComposeRedisURL(config.mtRedis.host, config.mtRedis.tls)
      /\ config.app = "manager" => cfg.redis = ComposeRedisURL(config.redis.host, config.redis.tls)
      /\ config.app # "manager" => cfg.s3 = config.s3 /\ cfg.hasS3 = TRUE
  BY DEF M!BuildSaaSTLSConfig, W!BuildSaaSTLSConfig, M!ComposeRedisURL, W!ComposeRedisURL, ComposeRedisURL,
     M!URL, W!URL, URL, M!NoURL, W!NoURL, NoURL
<1>3. /\ config.mongo.scheme # "" => cfg.mongo = URL(config.mongo.scheme, config.mongo.tls, config.mongo.ssl)
      /\ config.rabbit # "" => cfg.rabbit = URL(config.rabbit, "", "")
  BY DEF M!BuildSaaSTLSConfig, W!BuildSaaSTLSConfig, M!BuildMongoSource, W!BuildWorkerMongoURI,
     M!BuildRabbitMQSource, W!BuildWorkerRabbitMQURL, M!URL, W!URL, URL
<1> HIDE DEF cfg
<1>4. /\ AllOn(OneCheck("mongodb", cfg.mongo, DetectMongoTLS(cfg.mongo), FALSE))
      /\ AllOn(OneCheck("rabbitmq", cfg.rabbit, DetectAMQPTLS(cfg.rabbit), FALSE))
      /\ AllOn(OneCheck("redis", cfg.redis, DetectRedisTLS(cfg.redis), FALSE))
      /\ AllOn(OneCheck("multi_tenant_redis", cfg.mtRedis, DetectRedisTLS(cfg.mtRedis), ~cfg.mt))
      /\ AllOn(OneCheck("s3", cfg.s3, DetectS3TLS(cfg.s3), ~cfg.hasS3))
  BY <1>1, <1>2, GatePassed
<1>5. CASE r = "mongo"
  <2>1. /\ config.mongo.scheme \in {"mongodb", "mongodb+srv"}
        /\ {config.mongo.tls, config.mongo.ssl} \subseteq {"", "true", "false"}
    BY DEF GoodSettings, MongoConnects
  <2>2. cfg.mongo = URL(config.mongo.scheme, config.mongo.tls, config.mongo.ssl)
    BY <1>3, <2>1
  <2>3. /\ cfg.mongo.scheme = config.mongo.scheme /\ cfg.mongo.tls = config.mongo.tls
        /\ cfg.mongo.ssl = config.mongo.ssl
    BY <2>2 DEF URL
  <2>4. cfg.mongo # NoURL
    <3>1. cfg.mongo.tls # "none"
      BY <2>1, <2>3
    <3>2. NoURL.tls = "none"
      BY DEF NoURL, URL
    <3> QED BY <3>1, <3>2
  <2>5. DetectMongoTLS(cfg.mongo) = "on"
    BY <1>4, <2>4, OneCheckOn
  <2>6. /\ "false" \notin {config.mongo.tls, config.mongo.ssl}
        /\ \/ config.mongo.scheme = "mongodb+srv"
           \/ "true" \in {config.mongo.tls, config.mongo.ssl}
    BY <2>1, <2>5, <2>3 DEF DetectMongoTLS, ParseOrWrap, TruthyQueryValue, FalseyQueryValue
  <2> QED BY <1>5, <2>6 DEF Encrypted
<1>6. CASE r = "rabbit"
  <2>1. ASSUME proc.channel # "none" PROVE config.rabbit = "amqps"
    <3>1. config.rabbit \in {"amqp", "amqps"}
      BY <2>1 DEF Dialled
    <3>2. cfg.rabbit = URL(config.rabbit, "", "")
      BY <1>3, <3>1
    <3>3. cfg.rabbit # NoURL /\ cfg.rabbit.scheme = config.rabbit
      <4>1. PICK u : u = URL(config.rabbit, "", "")
        OBVIOUS
      <4>2. u.tls = "" /\ u.scheme = config.rabbit
        BY <4>1 DEF URL
      <4>3. NoURL.tls = "none"
        BY DEF NoURL, URL
      <4> QED BY <3>2, <4>1, <4>3, <4>2
    <3>4. DetectAMQPTLS(cfg.rabbit) = "on"
      BY <1>4, <3>3, OneCheckOn
    <3> QED BY <3>3, <3>4 DEF DetectAMQPTLS, ParseOrWrap
  <2> QED BY <1>6, <2>1 DEF Encrypted
<1>7. CASE r = "s3"
  <2>1. config.app # "manager"
    BY <1>7 DEF Opener
  <2>2. DetectS3TLS(config.s3) = "on"
    BY <1>2, <1>4, <2>1, OneCheckOn
  <2>3. config.s3 = NoURL \/ config.s3.scheme = "https"
    BY <2>2 DEF DetectS3TLS, ParseOrWrap
  <2> QED BY <1>7, <2>3 DEF Encrypted
<1>8. CASE r \in {"readyz_redis", "schema_cache"}
  <2>1. config.app = "manager"
    BY <1>8 DEF Opener
  <2>2. config.redis.host = TRUE => config.redis.tls = TRUE
    <3> SUFFICES ASSUME config.redis.host = TRUE PROVE config.redis.tls = TRUE
      OBVIOUS
    <3>1. PICK url : url = cfg.redis
      OBVIOUS
    <3>2. url = ComposeRedisURL(TRUE, config.redis.tls)
      BY <1>2, <2>1, <3>1
    <3>3. AllOn(OneCheck("redis", url, DetectRedisTLS(url), FALSE))
      BY <1>4, <3>1
    <3> QED BY <3>2, <3>3, RedisHasTLS
  <2>3. r = "readyz_redis" => config.redis.host = TRUE
    BY DEF Opener
  <2> QED BY <1>8, <2>2, <2>3 DEF Encrypted
<1>9. CASE r \in {"event_redis", "readyz_mt_redis"}
  <2>1. config.mt /\ config.mtRedis.host = TRUE
    BY <1>9 DEF Opener, GoodSettings
  <2>2. config.mtRedis.tls = TRUE
    <3>1. PICK url : url = cfg.mtRedis
      OBVIOUS
    <3>2. url = ComposeRedisURL(TRUE, config.mtRedis.tls)
      BY <1>2, <2>1, <3>1
    <3>3. AllOn(OneCheck("multi_tenant_redis", url, DetectRedisTLS(url), FALSE))
      BY <1>2, <1>4, <2>1, <3>1 DEF OneCheck
    <3> QED BY <3>2, <3>3, RedisHasTLS
  <2> QED BY <1>9, <2>2 DEF Encrypted
<1>10. CASE r \in TMClients
  <2>1. ~ClientRefuses(config)
    BY <1>10 DEF Opener, GoodSettings
  <2> QED BY <1>10, <2>1 DEF Encrypted, ClientRefuses, TMClients
<1> QED BY <1>5, <1>6, <1>7, <1>8, <1>9, <1>10 DEF Clients, Ungated, TMClients

-----------------------------------------------------------------------------
(* Clients are not closed under their users. *)

(* What the listener works on is closed after the listener is stopped.      *)
LEMMA ListenerStopsFirst ==
    ASSUME config \in Configs, NEW i \in DOMAIN Cleanup,
           NEW r \in {"event_redis", "tm", "mw_tm"}, r \in Cleanup[i].closes
    PROVE  \E k \in DOMAIN Cleanup : k < i /\ Stopping(k)
<1>0. {config.mt, config.redis.host} \subseteq BOOLEAN
  BY ConfigAssumption
<1> DEFINE H == Cleanup
<1>1. CASE config.mt = FALSE
  <2>1. r \notin Closes
    BY <1>1 DEF Closes, ManagerCloses, WorkerCloses
  <2> QED BY <2>1, CleanupFacts DEF ClosesOnce
<1>2. CASE config.mt = TRUE /\ IsManager
  <2>1. /\ Len(M!ShutdownHooks(config)) >= 3 /\ DOMAIN M!ShutdownHooks(config) = 1..Len(M!ShutdownHooks(config))
        /\ M!ShutdownHooks(config)[1] = M!Close("rabbit_manager")
        /\ M!ShutdownHooks(config)[2] = M!Stop("listener")
    <3>1. CASE config.redis.host = TRUE
      BY <1>2, <3>1 DEF M!ShutdownHooks, M!If
    <3>2. CASE config.redis.host = FALSE
      BY <1>2, <3>2 DEF M!ShutdownHooks, M!If
    <3> QED BY <1>0, <3>1, <3>2
  <2>2. /\ M!Close("rabbit_manager").closes = {"rabbit_manager"}
        /\ M!Stop("listener").closes = {} /\ M!Stop("listener").stops = {"listener"}
    BY DEF M!Close, M!Stop
  <2>3. H = M!ShutdownHooks(config)
    BY <1>2 DEF Cleanup
  <2> HIDE DEF H
  <2>4. i \in 1..Len(H) /\ Len(H) \in Nat
    BY <2>1, <2>3, CleanupFacts DEF H, ClosesOnce
  <2>5. i # 1 /\ i # 2
    BY <2>1, <2>2, <2>3 DEF H
  <2> QED BY <2>1, <2>2, <2>3, <2>4, <2>5 DEF H, Stopping
<1>3. CASE config.mt = TRUE /\ ~IsManager
  <2>1. /\ Len(W!GracefulShutdown(config)) = 5 /\ DOMAIN W!GracefulShutdown(config) = 1..5
        /\ W!GracefulShutdown(config)[1] = W!Stop("listener")
    BY <1>3 DEF W!GracefulShutdown, W!If
  <2>2. W!Stop("listener").closes = {} /\ W!Stop("listener").stops = {"listener"}
    BY DEF W!Stop
  <2>3. H = W!GracefulShutdown(config)
    BY <1>3 DEF Cleanup
  <2> HIDE DEF H
  <2>4. i \in 1..5 /\ i # 1
    BY <2>1, <2>2, <2>3 DEF H
  <2> QED BY <2>1, <2>2, <2>3, <2>4 DEF H, Stopping
<1> QED BY <1>0, <1>1, <1>2, <1>3

LEMMA UsersComeFirst ==
    ASSUME IInv, FitInv, proc.phase \in Alive, NEW g \in proc.running,
           NEW r \in Uses(g) \cap proc.open
    PROVE  proc.closings[r] = 0
<1>1. /\ proc \in Processes /\ r \in Clients /\ config \in Configs
      /\ proc.closings[r] = IF ClosedSoFar(r) THEN 1 ELSE 0
  BY DEF IInv, TypeOK, CloseInv, Processes, Alive
<1>2. CASE proc.phase = "serving"
  <2>1. ASSUME r = "rabbit", ~IsManager PROVE "consumer" \in proc.running
    <3>1. g \in {"consumer", "health", "dispatcher", "repairer", "reconciler", "listener"}
      BY <1>2, <2>1 DEF FitInv, UsersInv, Apps, W!RunLauncher
    <3>2. r \notin Uses("health") \cup Uses("dispatcher") \cup Uses("repairer") \cup Uses("reconciler")
                   \cup Uses("listener")
      BY <2>1 DEF Uses
    <3> QED BY <3>1, <3>2
  <2>2. ~ClosedSoFar(r)
    BY <1>2, <2>1 DEF ClosedSoFar
  <2> QED BY <1>1, <2>2
<1>3. CASE proc.phase \in {"cleanup", "stopped"}
  <2>1. g = "listener" /\ proc.running # {}
    BY <1>3 DEF FitInv, UsersInv
  <2>2. r \in {"event_redis", "tm", "mw_tm"}
    BY <2>1 DEF Uses
  <2>3. ASSUME NEW i \in DOMAIN Cleanup, i < proc.step, r \in Cleanup[i].closes
        PROVE  FALSE
    <3>1. PICK k \in DOMAIN Cleanup : k < i /\ Stopping(k)
      BY <1>1, <2>2, <2>3, ListenerStopsFirst
    <3>2. k < proc.step
      BY <1>1, <2>3, <3>1, CleanupFacts DEF ClosesOnce, Processes
    <3> QED BY <1>3, <2>1, <3>1, <3>2 DEF FitInv, UsersInv
  <2>4. ~ClosedSoFar(r)
    BY <1>3, <2>2, <2>3 DEF ClosedSoFar
  <2> QED BY <1>1, <2>4
<1> QED BY <1>2, <1>3 DEF Alive

(* ClientsAreFit: while a process serves and while it shuts down, nothing   *)
(* runs on a client that has been closed, and under DEPLOYMENT_MODE=saas    *)
(* nothing runs on one without TLS (service.go, the order of the Manager's  *)
(* hooks, tls_enforcement.go), whatever its settings and connection         *)
(* strings, except on the clients of Ungated, whose settings the gate does  *)
(* not read.                                                                *)
THEOREM ClientsAreFit == Spec => []ClientsFitForUse
<1>1. Init => FitInv
  BY FreshFit DEF Init
<1>2. IInv /\ FitInv /\ [Next]_vars => FitInv'
  BY NextFit
<1>3. IInv /\ FitInv => ClientsFitForUse
  <2> SUFFICES ASSUME IInv, FitInv, proc.phase \in Alive, NEW g \in proc.running,
                      NEW r \in Uses(g) \cap proc.open
               PROVE  proc.closings[r] = 0 /\ (config.mode = "saas" /\ r \notin Ungated => Encrypted(r))
    BY DEF ClientsFitForUse, Alive
  <2>1. proc.closings[r] = 0
    BY UsersComeFirst
  <2>2. /\ r \in Clients /\ Dialled
        /\ {config.mt, config.redis.host, config.mtRedis.host} \subseteq BOOLEAN
        /\ {config.redis.tls, config.mtRedis.tls} \subseteq BOOLEAN
    BY ConfigAssumption DEF IInv, TypeOK, Processes, FitInv
  <2>3. GoodSettings(config) /\ Opener(config, r)
    BY SettingsOfTheLiving
  <2> QED BY <2>1, <2>2, <2>3, EncryptedClients
<1> QED BY <1>1, <1>2, <1>3, ProcessInvariant, PTL DEF Spec

=============================================================================
