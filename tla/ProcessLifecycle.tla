-------------------------- MODULE ProcessLifecycle --------------------------
(***************************************************************************)
(* The life of one Manager or Worker process under Kubernetes: bootstrap    *)
(* and its failures, the startup self-probe, /readyz, /readyz/tenant/:id    *)
(* and /health, SIGTERM and the drain, the shutdown and the restart, while  *)
(* the platform's services come and go.                                     *)
(*                                                                          *)
(* What the bootstraps do is in ManagerBoot and WorkerBoot, what the checks *)
(* say in Readyz.  Checkers of a probe run concurrently and each looks at   *)
(* its dependency at a moment of its own.  Time passes in half seconds and  *)
(* only matters, and is only counted, during the drain.                     *)
(***************************************************************************)
EXTENDS Boot, FiniteSets

CONSTANTS
    Configs,      \* the configurations a process may be deployed with
    ProbePeriod,  \* half seconds between readiness probes
    MaxOutages,   \* how often a dependency goes down
    MaxFaults,    \* how many other calls fail
    MaxSignals    \* how often the process is told to stop

\* A kubelet's periods are whole seconds, so ProbePeriod is even; nothing
\* here depends on that.
ASSUME ProbeAssumption == ProbePeriod \in Nat \ {0}

ASSUME ConfigAssumption ==
    \A c \in Configs : /\ c.drain \in Int
                      /\ {c.mt, c.redis.host, c.mtRedis.host} \subseteq BOOLEAN
                      /\ {c.redis.tls, c.mtRedis.tls} \subseteq BOOLEAN

VARIABLES
    config,  \* the environment of the process
    proc,    \* the process
    probe,   \* the request for /readyz or /readyz/tenant/:id, or the self-probe, in flight
    answer,  \* the answer of the last one, none while there is one in flight
    kube,    \* the kubelet: was the last answer it saw a 200, and when did it last probe
    env      \* the dependencies that are up, and what may still go wrong

vars == <<config, proc, probe, answer, kube, env>>

M == INSTANCE ManagerBoot
W == INSTANCE WorkerBoot

Deps == {"mongodb", "rabbitmq", "redis", "mt_redis", "s3", "tm"}

Clients == {"mongo", "s3", "rabbit", "tm", "service_tm", "resolver_tm", "mw_tm",
            "mongo_manager", "rabbit_manager", "readyz_mongo_manager", "schema_cache",
            "readyz_redis", "readyz_mt_redis", "event_redis", "streaming"}

IsManager == config.app = "manager"

StepsOf == [c \in Configs |-> IF c.app = "manager" THEN M!InitServers(c) ELSE W!InitWorker(c)]

BootSteps  == StepsOf[config]
Checkers   == IF IsManager THEN M!BuildManagerReadyzCheckers(config)
                           ELSE W!BuildWorkerReadyzCheckers(config)
Apps       == IF IsManager THEN {"server"} ELSE W!RunLauncher(config)
Endpoint   == IF IsManager THEN "server" ELSE "health"
Cleanup    == IF IsManager THEN M!ShutdownHooks(config) ELSE W!GracefulShutdown(config)
DrainDelay == IF IsManager THEN ResolveServerDrainDelay(config.drain)
                           ELSE DefaultDrain(config.drain)

Listening == proc.phase = "serving" /\ Endpoint \in proc.running

Fresh == [phase |-> "boot", step |-> 1, open |-> {}, closings |-> [r \in Clients |-> 0],
          running |-> {}, signalled |-> FALSE, draining |-> FALSE, drainLeft |-> -1,
          selfProbe |-> FALSE, channel |-> "none", breaker |-> "closed"]

NoAnswer == [kind |-> "none", code |-> 0]
NoProbe  == [kind |-> "none", waiting |-> {}, statuses |-> {}, sawUp |-> {}, stale |-> FALSE]

Init ==
    /\ config \in Configs
    /\ proc = Fresh
    /\ probe = NoProbe
    /\ answer = NoAnswer
    /\ kube = [ready |-> FALSE, since |-> 0]
    /\ env = [up |-> Deps, outages |-> 0, faults |-> 0, signals |-> 0]

\* proc.channel: the adapter has no channel ("none"), one that works ("live"),
\* or one whose broker is gone, which nobody has noticed yet ("dead").  The
\* AMQP library refuses a connection string without a scheme.
BrokerAnswers == "rabbitmq" \in env.up /\ config.rabbit \in {"amqp", "amqps"}

Dial == IF BrokerAnswers THEN "live" ELSE "none"

Fault == env.faults < MaxFaults /\ env' = [env EXCEPT !.faults = @ + 1]

Closed(p, clients) ==
    [p EXCEPT !.closings = [r \in Clients |-> @[r] + (IF r \in clients THEN 1 ELSE 0)]]

----------------------------------------------------------------------------
(* Bootstrap                                                                *)

Step == BootSteps[proc.step]

Booting == proc.phase = "boot" /\ proc.step <= Len(BootSteps)

\* The deferred guards of InitWorker, which run whatever it returns.
Guarded(p, owned) ==
    IF IsManager THEN p
    ELSE Closed(p, W!CloseSharedTMClientIfUnowned(p.open, owned)
                   \cup W!ClosePerServiceTMClientsIfUnowned(p.open, owned))

BootStep ==
    /\ Booting /\ ~Step.probes
    /\ ~Step.refuses /\ Step.needs \subseteq env.up
    /\ proc' = [proc EXCEPT !.step = @ + 1, !.open = @ \cup Step.opens,
                            !.running = @ \cup Step.starts,
                            !.channel = IF Step.connects THEN Dial ELSE @]
    /\ UNCHANGED <<config, probe, answer, kube, env>>

\* main logs the error and exits.
Aborted ==
    [Guarded(Closed([proc EXCEPT !.running = @ \ Step.undoes], Step.undoes \cap proc.open), FALSE)
        EXCEPT !.phase = "aborted"]

BootRefused ==
    /\ Booting /\ ~Step.probes
    /\ Step.refuses \/ ~(Step.needs \subseteq env.up)
    /\ proc' = Aborted
    /\ UNCHANGED <<config, probe, answer, kube, env>>

BootFails ==
    /\ Booting /\ ~Step.probes
    /\ Step.fallible /\ Fault
    /\ proc' = Aborted
    /\ UNCHANGED <<config, probe, answer, kube>>

\* InitServers or InitWorker has returned the service, which main runs.
Run ==
    /\ proc.phase = "boot" /\ proc.step > Len(BootSteps)
    /\ proc' = [Guarded(proc, TRUE) EXCEPT !.phase = "serving", !.step = 1,
                                           !.running = @ \cup Apps]
    /\ UNCHANGED <<config, probe, answer, kube, env>>

\* A process that is gone is started again, with nothing but its environment.
Restart ==
    /\ proc.phase \in {"aborted", "killed", "stopped"}
    /\ proc' = Fresh
    /\ kube' = [ready |-> FALSE, since |-> 0]
    /\ answer' = NoAnswer
    /\ UNCHANGED <<config, probe, env>>

----------------------------------------------------------------------------
(* Probes                                                                   *)

StartProbe(kind, waiting) ==
    /\ probe' = [kind |-> kind, waiting |-> waiting, statuses |-> {}, sawUp |-> env.up,
                 stale |-> proc.channel = "dead"]
    /\ answer' = NoAnswer

Answer(kind, code) == answer' = [kind |-> kind, code |-> code]

RunSelfProbe ==
    /\ Booting /\ Step.probes /\ probe.kind = "none"
    /\ proc' = [proc EXCEPT !.selfProbe = FALSE]
    /\ StartProbe("self", Checkers)
    /\ UNCHANGED <<config, kube, env>>

\* What the checker of d finds now.  The single-tenant RabbitMQ checker looks
\* at the adapter's breaker and at the channel it holds (IsHealthy), never at
\* the broker.
Check(d) ==
    CASE d = "mongodb"                             -> MongoClientCheck(d \in env.up)
      [] d = "rabbitmq" /\ probe.kind = "tenant"   -> IF d \in env.up THEN "up" ELSE "down"
      [] d = "rabbitmq" /\ probe.kind # "tenant"   -> RabbitMQAdapterCheck(proc.breaker, proc.channel # "none")
      [] d \in {"redis", "mt_redis"}               -> RedisClientCheck(d \in env.up)
      [] d = "s3"                                  -> S3BucketCheck(d \in env.up)

Reports(d, status) ==
    probe' = [probe EXCEPT !.waiting = @ \ {d}, !.statuses = @ \cup {status}]

CheckReturns(d) ==
    /\ d \in probe.waiting
    /\ Reports(d, RunWithDeadline(TRUE, Check(d)))
    /\ UNCHANGED <<config, proc, answer, kube, env>>

CheckTimesOut(d) ==
    /\ d \in probe.waiting /\ Fault
    /\ Reports(d, RunWithDeadline(FALSE, Check(d)))
    /\ UNCHANGED <<config, proc, answer, kube>>

SelfProbeEnds ==
    /\ probe.kind = "self" /\ probe.waiting = {}
    /\ LET passed == \A s \in probe.statuses : IsSelfProbeHealthyStatus(s)
       IN  /\ proc' = [proc EXCEPT !.selfProbe = passed, !.step = @ + 1]
           /\ Answer("self", IF passed THEN 200 ELSE 503)
    /\ probe' = NoProbe
    /\ UNCHANGED <<config, kube, env>>

\* The kubelet asks /readyz: a draining process and one that no longer
\* listens answer at once, or not at all.
KubeProbe ==
    /\ proc.phase \in {"serving", "cleanup"} /\ probe.kind = "none"
    /\ IF Listening /\ ~proc.draining
       THEN StartProbe("readyz", Checkers) /\ kube' = [kube EXCEPT !.since = 0]
       ELSE Answer("readyz", 503) /\ UNCHANGED probe /\ kube' = [ready |-> FALSE, since |-> 0]
    /\ UNCHANGED <<config, proc, env>>

ReadyzAnswers ==
    /\ probe.kind = "readyz" /\ probe.waiting = {}
    /\ LET code == AggregateStatus(probe.statuses)
       IN  Answer("readyz", code) /\ kube' = [kube EXCEPT !.ready = code = 200]
    /\ probe' = NoProbe
    /\ UNCHANGED <<config, proc, env>>

\* /readyz/tenant/:id asks the Tenant Manager whether the tenant exists, and
\* then its MongoDB and its RabbitMQ.
TenantProbe(known) ==
    /\ Listening /\ probe.kind = "none"
    /\ LET code == CASE ~config.mt          -> 400
                     [] proc.draining       -> 503
                     [] "tm" \notin env.up  -> 503
                     [] ~known              -> 404
                     [] OTHER               -> 0
       IN  IF code = 0 THEN StartProbe("tenant", {"mongodb", "rabbitmq"})
                       ELSE Answer("tenant", code) /\ UNCHANGED probe
    /\ UNCHANGED <<config, proc, kube, env>>

TenantProbeAnswers ==
    /\ probe.kind = "tenant" /\ probe.waiting = {}
    /\ Answer("tenant", AggregateStatus(probe.statuses))
    /\ probe' = NoProbe
    /\ UNCHANGED <<config, proc, kube, env>>

\* The kubelet asks /health and stops a process whose self-probe failed.
HealthProbe ==
    /\ Listening /\ ~proc.selfProbe /\ ~proc.signalled
    /\ proc' = [proc EXCEPT !.signalled = TRUE]
    /\ UNCHANGED <<config, probe, answer, kube, env>>

----------------------------------------------------------------------------
(* SIGTERM, drain and shutdown                                              *)

\* Before Run nobody has asked for signals, and SIGTERM ends the process.
Sigterm ==
    /\ env.signals < MaxSignals
    /\ env' = [env EXCEPT !.signals = @ + 1]
    /\ \/ proc.phase = "boot" /\ proc' = [proc EXCEPT !.phase = "killed"] /\ probe' = NoProbe
       \/ /\ proc.phase = "serving" /\ ~proc.signalled
          /\ proc' = [proc EXCEPT !.signalled = TRUE]
          /\ UNCHANGED probe
    /\ UNCHANGED <<config, answer, kube>>

\* The Manager's drainLoop and the Worker's signal watcher.
StartDrain ==
    /\ proc.phase = "serving" /\ proc.signalled /\ ~proc.draining
    /\ proc' = [proc EXCEPT !.draining = TRUE, !.drainLeft = 2 * DrainDelay]
    /\ \E s \in 0 .. ProbePeriod : kube' = [kube EXCEPT !.since = s]
    /\ UNCHANGED <<config, probe, answer, env>>

\* The kubelet keeps its period and gets its answer within half a second.
Tick ==
    /\ proc.drainLeft > 0 /\ kube.since < ProbePeriod /\ probe.kind # "readyz"
    /\ proc' = [proc EXCEPT !.drainLeft = @ - 1]
    /\ kube' = [kube EXCEPT !.since = @ + 1]
    /\ UNCHANGED <<config, probe, answer, env>>

DrainNotAwaited == proc.draining

DrainOver == proc.draining /\ proc.drainLeft <= 0

\* The Manager's server manager closes the listener when the requests in
\* flight are done, and runs the hooks.
CloseServer ==
    /\ IsManager /\ Listening /\ DrainOver /\ probe.kind = "none"
    /\ proc' = [proc EXCEPT !.running = @ \ {"server"}, !.phase = "cleanup", !.step = 1]
    /\ UNCHANGED <<config, probe, answer, kube, env>>

\* The Worker's consumer returns once its context is canceled and its handlers
\* are done; in single-tenant mode it shuts its adapter down.
ConsumerStops ==
    /\ ~IsManager /\ proc.phase = "serving" /\ "consumer" \in proc.running /\ DrainOver
    /\ proc' = Closed([proc EXCEPT !.running = @ \ {"consumer"}, !.channel = "none"],
                      proc.open \cap {"rabbit"})
    /\ UNCHANGED <<config, probe, answer, kube, env>>

\* The other apps of the Launcher watch for the signal themselves; the health
\* server does not wait for the drain.
AppStops(g) ==
    /\ proc.phase = "serving" /\ proc.signalled
    /\ g \in (proc.running \cap Apps) \ {"server", "consumer"}
    /\ g = "health" => probe.kind = "none"
    /\ proc' = [proc EXCEPT !.running = @ \ {g}]
    /\ UNCHANGED <<config, probe, answer, kube, env>>

LauncherReturns ==
    /\ ~IsManager /\ proc.phase = "serving" /\ proc.running \cap Apps = {}
    /\ proc' = [proc EXCEPT !.phase = "cleanup", !.step = 1]
    /\ UNCHANGED <<config, probe, answer, kube, env>>

CleanupStep ==
    /\ proc.phase = "cleanup"
    /\ IF proc.step > Len(Cleanup)
       THEN proc' = [proc EXCEPT !.phase = "stopped"]
       ELSE LET s == Cleanup[proc.step]
            IN  proc' = Closed([proc EXCEPT !.step = @ + 1, !.running = @ \ s.stops],
                               s.closes \cap proc.open)
    /\ UNCHANGED <<config, probe, answer, kube, env>>

----------------------------------------------------------------------------
(* The platform                                                             *)

DependencyGoesDown(d) ==
    /\ d \in env.up /\ env.outages < MaxOutages
    /\ env' = [env EXCEPT !.up = @ \ {d}, !.outages = @ + 1]
    /\ proc' = [proc EXCEPT !.channel = IF d = "rabbitmq" /\ @ = "live" THEN "dead" ELSE @]
    /\ UNCHANGED <<config, probe, answer, kube>>

DependencyComesBack(d) ==
    /\ d \notin env.up
    /\ env' = [env EXCEPT !.up = @ \cup {d}]
    /\ probe' = IF probe.kind = "none" THEN probe ELSE [probe EXCEPT !.sawUp = @ \cup {d}]
    /\ UNCHANGED <<config, proc, answer, kube>>

\* startChannelWatcher: some time later the AMQP client notices, and the
\* watcher forgets the channel; it does not open another.
ChannelWatcher ==
    /\ proc.channel = "dead"
    /\ proc' = [proc EXCEPT !.channel = "none"]
    /\ UNCHANGED <<config, probe, answer, kube, env>>

\* Who calls the single-tenant adapter: the Worker's consumer loop, whenever
\* it has no channel, and the Manager's requests, which reach a ready process.
BrokerIsCalled ==
    /\ proc.phase = "serving" /\ ~config.mt
    /\ IF IsManager THEN Listening /\ kube.ready ELSE "consumer" \in proc.running

EnsureChannelKeepingBreaker ==
    /\ BrokerIsCalled /\ proc.breaker # "open"
    /\ proc' = [proc EXCEPT !.channel = Dial, !.breaker = IF BrokerAnswers THEN @ ELSE "open"]
    /\ UNCHANGED <<config, probe, answer, kube, env>>

\* ensureChannel under the circuit breaker.  A call on a channel that is dead
\* fails, the channel is invalidated, and the next attempt opens another.
EnsureChannel ==
    /\ BrokerIsCalled /\ proc.breaker # "open"
    /\ proc' = [proc EXCEPT !.channel = Dial,
                            !.breaker = IF BrokerAnswers THEN "closed" ELSE "open"]
    /\ UNCHANGED <<config, probe, answer, kube, env>>

BreakerHalfOpens ==
    /\ proc.phase = "serving" /\ proc.breaker = "open"
    /\ proc' = [proc EXCEPT !.breaker = "half_open"]
    /\ UNCHANGED <<config, probe, answer, kube, env>>

----------------------------------------------------------------------------
Bootstrap == BootStep \/ BootRefused \/ Run \/ Restart \/ RunSelfProbe
Shutdown  == StartDrain \/ Tick \/ ConsumerStops \/ LauncherReturns \/ CleanupStep
Checking  == \/ \E d \in Deps : CheckReturns(d)
             \/ SelfProbeEnds \/ ReadyzAnswers \/ TenantProbeAnswers
Adapter   == EnsureChannel \/ BreakerHalfOpens \/ ChannelWatcher

Next ==
    \/ Bootstrap \/ BootFails
    \/ Checking \/ KubeProbe \/ HealthProbe
    \/ \E d \in Deps : CheckTimesOut(d)
    \/ \E known \in BOOLEAN : TenantProbe(known)
    \/ Sigterm \/ Shutdown \/ CloseServer
    \/ \E g \in {"health", "dispatcher", "repairer", "reconciler"} : AppStops(g)
    \/ \E d \in Deps : DependencyGoesDown(d) \/ DependencyComesBack(d)
    \/ Adapter

\* The kubelet keeps probing and restarting, the process's goroutines are
\* scheduled, requests in flight end, and outages end.
Fairness ==
    /\ WF_vars(Bootstrap) /\ WF_vars(Shutdown) /\ WF_vars(Checking) /\ WF_vars(Adapter)
    /\ WF_vars(HealthProbe) /\ SF_vars(KubeProbe) /\ SF_vars(CloseServer)
    /\ SF_vars(\E g \in {"health", "dispatcher", "repairer", "reconciler"} : AppStops(g))
    /\ WF_vars(\E d \in Deps : DependencyComesBack(d))

Spec == Init /\ [][Next]_vars /\ Fairness

----------------------------------------------------------------------------
\* What a process cannot work without: the Manager does without its Redis, and
\* /readyz leaves the tenants' own dependencies to /readyz/tenant/:id.
Required(kind) ==
    CASE kind = "tenant"                    -> {"mongodb", "rabbitmq"}
      [] config.mt /\ kind # "tenant"       -> {"mt_redis"} \cup (IF IsManager THEN {} ELSE {"s3"})
      [] ~config.mt /\ kind # "tenant"      -> {"mongodb", "rabbitmq"} \cup
                                               (IF IsManager THEN {} ELSE {"s3"})

\* AnswersTruthful: /readyz, /readyz/tenant/:id and the startup self-probe,
\* whose checkers look at their dependencies at different moments while those
\* come and go, say 200 only if each dependency the process needs was up at
\* some moment since the probe began (handler.go, selfprobe.go, tenant_handler.go),
\* with one exception: the single-tenant RabbitMQ checker reads the adapter's
\* own idea of its channel, so a broker that went away before the probe began
\* is taken for up until the AMQP client notices (rabbitmq.go, IsHealthy).
AnswersTruthful ==
    [][answer' # answer /\ answer'.code = 200 =>
           Required(answer'.kind) \ (IF answer'.kind # "tenant" /\ probe.stale
                                     THEN {"rabbitmq"} ELSE {})
             \subseteq probe.sawUp]_vars

\* NotReadyWhenClosing: when the Manager's listener is closed the kubelet has
\* already seen /readyz say 503 (server.go, Run and drainLoop), even if a probe
\* that began before the signal said 200 after it, provided the drain delay is
\* longer than the kubelet's period.  The smallest delay, one second, for
\* READYZ_DRAIN_DELAY_SEC of 1 or below 0, is not, whatever the period:
\* readyz/config.go:85-89 ("draining always covers at least one
\* readiness-probe interval") does not hold of it.
NotReadyWhenClosing ==
    IsManager /\ ProbePeriod < 2 * DrainDelay /\ proc.phase \in {"cleanup", "stopped"}
        => ~kube.ready

\* Which clients a shutdown, and an aborted bootstrap, must have closed.
OwnedAtExit ==
    IF IsManager
    THEN {"rabbit_manager", "event_redis", "schema_cache", "readyz_redis", "readyz_mt_redis",
          "readyz_mongo_manager"}
    ELSE {"rabbit", "event_redis", "readyz_mt_redis", "streaming", "tm", "service_tm"}
OwnedAtAbort == IF IsManager THEN {"event_redis"} ELSE {"tm", "service_tm"}

\* ClosedExactlyOnce: the Tenant Manager clients pass from the bootstrap's
\* deferred guards to the Service, and Redis clients from the bootstrap to the
\* cleanup: none is closed twice, and none that has an owner is left open when
\* the process stops or its bootstrap fails at any step.
ClosedExactlyOnce ==
    /\ \A r \in Clients : proc.closings[r] <= 1
    /\ proc.phase = "stopped" => \A r \in proc.open \cap OwnedAtExit : proc.closings[r] = 1
    /\ proc.phase = "aborted" => \A r \in proc.open \cap OwnedAtAbort : proc.closings[r] = 1

\* What a goroutine calls.  The health server also reads the state of the
\* single-tenant adapter, which one that was shut down answers as well.
Uses(g) ==
    CASE g = "consumer"   -> {"mongo", "s3", "streaming", "rabbit", "tm", "service_tm",
                              "mongo_manager", "rabbit_manager"}
      [] g = "health"     -> {"mongo", "s3", "tm", "readyz_mt_redis", "mongo_manager",
                              "rabbit_manager"}
      [] g = "dispatcher" -> {"mongo", "streaming", "tm", "mongo_manager"}
      [] g = "repairer"   -> {"mongo", "streaming", "tm", "mongo_manager"}
      [] g = "reconciler" -> {"tm"}
      [] g = "listener"   -> {"event_redis", "tm", "mw_tm"}
      [] g = "server"     -> Clients

\* Clients that are dialed by settings the TLS gate does not read: a tenant's
\* RabbitMQ by RABBITMQ_TLS (worker config.go:1161-1163, manager
\* config.go:459-461), a tenant's MongoDB as the Tenant Manager says, the event
\* stream by STREAMING_BROKERS.
Ungated == {"rabbit_manager", "mongo_manager", "readyz_mongo_manager", "streaming"}

\* What the other clients put on the wire, as the drivers read their settings.
Encrypted(r) ==
    CASE r = "mongo" ->
            /\ "false" \notin {config.mongo.tls, config.mongo.ssl}
            /\ \/ config.mongo.scheme = "mongodb+srv"
               \/ "true" \in {config.mongo.tls, config.mongo.ssl}
      [] r = "rabbit"       -> proc.channel # "none" => config.rabbit = "amqps"
      [] r = "s3"           -> config.s3 = NoURL \/ config.s3.scheme = "https"
      [] r = "readyz_redis" -> config.redis.tls
      [] r = "schema_cache" -> config.redis.tls \/ ~config.redis.host
      [] r \in {"event_redis", "readyz_mt_redis"}             -> config.mtRedis.tls
      [] r \in {"tm", "service_tm", "resolver_tm", "mw_tm"} ->
            config.tm.scheme = "https" \/ config.insecureTM

\* ClientsFitForUse: while the process serves and while it shuts down, no
\* goroutine is left running on a client that has been closed (service.go and
\* the order of the Manager's hooks) and, under DEPLOYMENT_MODE=saas, none
\* works on one without TLS, whatever the connection strings say, except the
\* clients that ValidateSaaSTLS does not look at, though tls_enforcement.go:56
\* requires "TLS on all platform dependencies" and worker config.go:1379-1381
\* has the gate inspect "exactly the strings that will later be dialed".
ClientsFitForUse ==
    proc.phase \in {"serving", "cleanup", "stopped"} =>
        \A g \in proc.running : \A r \in Uses(g) \cap proc.open :
            proc.closings[r] = 0 /\ (config.mode = "saas" /\ r \notin Ungated => Encrypted(r))

----------------------------------------------------------------------------
Sound == /\ \A i \in DOMAIN BootSteps : ~BootSteps[i].refuses
         /\ config.mt \/ config.rabbit # ""

InService == proc.phase = "serving" /\ ~proc.signalled /\ proc.selfProbe /\ kube.ready

\* ServesAgain: once failures and outages are over, a process with a sound
\* configuration gets back into service and stays there, through restarts by
\* the kubelet where the self-probe failed, and a process told to stop drains,
\* stops its goroutines, closes its clients and is gone (server.go,
\* consumer.go, service.go).  The single-tenant Manager is left to
\* ManagerServesAgain.
ServesAgain ==
    /\ Sound /\ (IsManager => config.mt) => <>[]InService
    /\ proc.signalled ~> proc.phase = "stopped"

\* ManagerServesAgain: the same of the single-tenant Manager, whose /readyz
\* does not open a channel to RabbitMQ because "the watcher already reconnects"
\* (manager/internal/bootstrap/readyz_adapters.go).
ManagerServesAgain == Sound => <>[]InService
=============================================================================
