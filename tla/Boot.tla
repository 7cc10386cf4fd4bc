-------------------------------- MODULE Boot --------------------------------
(***************************************************************************)
(* What the bootstraps of the Manager and of the Worker have in common.     *)
(*                                                                          *)
(* c is the process's configuration, read from the environment:             *)
(*   app        "manager" or "worker"          mode    DEPLOYMENT_MODE      *)
(*   mt         MULTI_TENANT_ENABLED           drain   READYZ_DRAIN_DELAY_SEC *)
(*   mongo      its scheme, tls and ssl        rabbit  its scheme           *)
(*   redis, mtRedis   [host, tls]: is there a host, and is TLS on           *)
(*   s3, tm     connection strings             insecureTM  plain HTTP allowed *)
(*   keys       the per-service API keys: "none", "some" or "collision"     *)
(*   missing    the required settings that are absent or refused            *)
(*                                                                          *)
(* A bootstrap is a sequence of steps, one for each call that can fail,     *)
(* open something or start something.                                       *)
(***************************************************************************)
EXTENDS Readyz

(*   refuses    the configuration makes the call fail                       *)
(*   needs      dependencies it cannot do without                           *)
(*   fallible   it may fail for other reasons                               *)
(*   opens      clients it leaves open      starts   goroutines it starts   *)
(*   undoes     clients it closes itself when it fails                      *)
(*   connects   it opens the AMQP channel, if it can                        *)
(*   probes     it is the startup self-probe                                *)
Plain == [refuses |-> FALSE, needs |-> {}, fallible |-> FALSE, opens |-> {},
          starts |-> {}, undoes |-> {}, connects |-> FALSE, probes |-> FALSE]

If(enabled, steps) == IF enabled THEN steps ELSE <<>>

\* The settings both bootstraps demand in multi-tenant mode.
ValidateMultiTenantConfig(c) ==
    c.mt => /\ c.tm # NoURL
            /\ c.mtRedis.host
            /\ c.missing \cap {"api_key", "no_ca_cert"} = {}

\* tmclient.NewClient refuses a string it cannot parse, and plain HTTP unless
\* that is allowed.
ClientRefuses(c) == c.tm = BadURL \/ (c.tm.scheme # "https" /\ ~c.insecureTM)

\* One client per MULTI_TENANT_SERVICE_API_KEY_*: two names for one service
\* are refused before any client exists.
LoadServiceAPIKeysFromEnv(c) == c.keys # "collision"

BuildServiceClients(c, default) == default \cup (IF c.keys = "some" THEN {"service_tm"} ELSE {})

BuildResolverTenantAdapter(c, default) ==
    [Plain EXCEPT !.refuses = ~LoadServiceAPIKeysFromEnv(c) \/ ClientRefuses(c),
                  !.opens   = BuildServiceClients(c, default)]

\* External: the MongoDB driver refuses other schemes, and other values of the
\* tls and ssl parameters.
MongoConnects(m) ==
    m.scheme \in {"mongodb", "mongodb+srv"} /\ {m.tls, m.ssl} \subseteq {"", "true", "false"}

\* NewTenantPubSubRedisClient pings before it returns.
EventRedis == [Plain EXCEPT !.needs = {"mt_redis"}, !.opens = {"event_redis"}]

SelfProbe == [Plain EXCEPT !.probes = TRUE]
=============================================================================
