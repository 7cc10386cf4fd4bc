------------------------------- MODULE Readyz -------------------------------
(***************************************************************************)
(* The decisions of pkg/bootstrap/readyz: what a connection string says of  *)
(* TLS and what DEPLOYMENT_MODE=saas makes of it, what each dependency      *)
(* checker reports, how reports become an answer, and how the drain delay   *)
(* is read from the environment.                                            *)
(*                                                                          *)
(* A connection string is a record of its scheme and of its tls and ssl     *)
(* query parameters ("" when absent); hosts, ports and credentials do not   *)
(* matter here.  NoURL is the empty string and BadURL one that net/url      *)
(* refuses.                                                                 *)
(***************************************************************************)
EXTENDS Integers, Sequences

URL(scheme, tls, ssl) == [scheme |-> scheme, tls |-> tls, ssl |-> ssl]
NoURL  == URL("", "none", "none")
BadURL == URL("%", "", "")

----------------------------------------------------------------------------
(* tls_detection.go: each detector answers "on", "off" or "error".          *)

TruthyQueryValue(v) == v \in {"true", "1", "TRUE"}
FalseyQueryValue(v) == v \in {"false", "0", "FALSE"}

ParseOrWrap(url, tls) ==
    CASE url = BadURL -> "error"
      [] tls          -> "on"
      [] OTHER        -> "off"

\* Mutation: the scheme decides first.
DetectMongoTLSSchemeFirst(url) ==
    ParseOrWrap(url, \/ url.scheme = "mongodb+srv"
                     \/ TruthyQueryValue(url.tls) \/ TruthyQueryValue(url.ssl))

\* An explicit parameter wins over the default of the scheme, and "false"
\* wins over "true".
DetectMongoTLS(url) ==
    ParseOrWrap(url, /\ ~FalseyQueryValue(url.tls) /\ ~FalseyQueryValue(url.ssl)
                     /\ \/ TruthyQueryValue(url.tls) \/ TruthyQueryValue(url.ssl)
                        \/ url.scheme = "mongodb+srv")

DetectRedisTLS(url)        == ParseOrWrap(url, url.scheme = "rediss")
DetectAMQPTLS(url)         == ParseOrWrap(url, url.scheme = "amqps")
DetectS3TLS(url)           == ParseOrWrap(url, url = NoURL \/ url.scheme = "https")
DetectHTTPUpstreamTLS(url) == ParseOrWrap(url, url.scheme = "https")

----------------------------------------------------------------------------
(* tls_enforcement.go                                                       *)

ComposeRedisURL(host, tls) ==
    IF ~host THEN NoURL ELSE URL(IF tls THEN "rediss" ELSE "redis", "", "")

\* The checks of ValidateSaaSTLS in their order: what is skipped is absent.
TLSChecks(cfg) ==
    LET Check(name, url, seen, skip) ==
            IF skip \/ (url = NoURL /\ name # "s3") THEN <<>>
            ELSE <<[name |-> name, seen |-> seen]>>
    IN  Check("mongodb", cfg.mongo, DetectMongoTLS(cfg.mongo), FALSE)
        \o Check("rabbitmq", cfg.rabbit, DetectAMQPTLS(cfg.rabbit), FALSE)
        \o Check("redis", cfg.redis, DetectRedisTLS(cfg.redis), FALSE)
        \o Check("multi_tenant_redis", cfg.mtRedis, DetectRedisTLS(cfg.mtRedis), ~cfg.mt)
        \o Check("s3", cfg.s3, DetectS3TLS(cfg.s3), ~cfg.hasS3)
        \o Check("tenant_manager", cfg.tm, DetectHTTPUpstreamTLS(cfg.tm), ~cfg.mt \/ cfg.insecureTM)

\* The single gate: only "saas", whatever its case and padding, enforces TLS.
ValidateSaaSTLS(cfg) ==
    cfg.mode = "saas" => \A i \in DOMAIN TLSChecks(cfg) : TLSChecks(cfg)[i].seen = "on"

----------------------------------------------------------------------------
(* Checkers.  live says whether the dependency answers in time; a checker   *)
(* that does not come back within PerDepTimeout counts as down.             *)

MongoClientCheck(live)   == IF live THEN "up" ELSE "down"
RedisClientCheck(live)   == IF live THEN "up" ELSE "down"
S3BucketCheck(live)      == IF live THEN "up" ELSE "down"
\* The Tenant Manager is not called: a client that exists is up.
TenantManagerCheck       == "up"
NACheck                  == "n/a"

RabbitMQAdapterCheck(breaker, live) ==
    CASE breaker = "open"      -> "down"
      [] breaker = "half_open" -> "degraded"
      [] OTHER                 -> IF live THEN "up" ELSE "down"

RunWithDeadline(inTime, status) == IF inTime THEN status ELSE "down"

AggregateIgnoringDegraded(statuses) == IF "down" \in statuses THEN 503 ELSE 200

AggregateStatus(statuses) == IF statuses \cap {"down", "degraded"} # {} THEN 503 ELSE 200
IsSelfProbeHealthyStatus(status) == status \in {"up", "skipped", "n/a"}

----------------------------------------------------------------------------
(* The drain delay, in seconds.                                             *)

DefaultDrainDelay == 12
MinDrainDelay     == 1

\* worker/internal/bootstrap/health_server.go
DefaultDrain(sec) ==
    CASE sec < 0 -> MinDrainDelay
      [] sec = 0 -> DefaultDrainDelay
      [] OTHER   -> sec

ResolveServerDrainDelay(sec) ==
    CASE sec = 0 -> DefaultDrainDelay
      [] sec < 0 -> MinDrainDelay
      [] OTHER   -> sec
=============================================================================
