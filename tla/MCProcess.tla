----------------------------- MODULE MCProcess -----------------------------
(***************************************************************************)
(* The four deployments (Manager and Worker, single- and multi-tenant) with *)
(* sound settings, and with each setting that the bootstrap, the TLS gate   *)
(* or the drain treats differently, one at a time.                          *)
(***************************************************************************)
EXTENDS ProcessLifecycle

Base(app, mt) ==
    [app |-> app, mt |-> mt, mode |-> "saas", drain |-> 2,
     mongo |-> [scheme |-> "mongodb", tls |-> "true", ssl |-> ""], rabbit |-> "amqps",
     redis |-> [host |-> TRUE, tls |-> TRUE], mtRedis |-> [host |-> mt, tls |-> TRUE],
     s3 |-> NoURL, tm |-> IF mt THEN URL("https", "", "") ELSE NoURL,
     insecureTM |-> FALSE, keys |-> IF mt THEN "some" ELSE "none", missing |-> {}]

Mongo(scheme, tls, ssl) == [scheme |-> scheme, tls |-> tls, ssl |-> ssl]

\* c with one of the settings it reads changed.
Variants(c) ==
    {[c EXCEPT !.drain = d] : d \in {-1, 0, 1}}
    \cup {[c EXCEPT !.mongo = m] : m \in {Mongo("", "", ""), Mongo("mongodb", "", ""),
              Mongo("mongodb+srv", "", ""), Mongo("mongodb+srv", "false", ""),
              Mongo("mongodb+srv", "", "0"), Mongo("mongodb", "true", "false"),
              Mongo("%", "", "")}}
    \cup {[c EXCEPT !.rabbit = s] : s \in {"", "amqp"}}
    \cup {[c EXCEPT !.missing = {"master_key"}],
          [c EXCEPT !.mode = "local", !.mongo = Mongo("mongodb", "", ""), !.rabbit = "amqp",
                    !.redis = [host |-> TRUE, tls |-> FALSE], !.s3 = URL("http", "", "")]}
    \cup (IF c.app = "manager"
          THEN {[c EXCEPT !.redis = [host |-> h, tls |-> FALSE]] : h \in BOOLEAN}
               \cup {[c EXCEPT !.missing = {m}] : m \in {"auth", "auth_address"}}
          ELSE {[c EXCEPT !.s3 = u] : u \in {URL("https", "", ""), URL("http", "", ""), BadURL}}
               \cup {[c EXCEPT !.missing = {m}] : m \in {"bucket", "streaming", "exchange"}})
    \cup (IF c.mt
          THEN {[c EXCEPT !.mtRedis = [host |-> h, tls |-> FALSE]] : h \in BOOLEAN}
               \cup {[c EXCEPT !.tm = u, !.insecureTM = i] :
                         u \in {NoURL, BadURL, URL("http", "", "")}, i \in BOOLEAN}
               \cup {[c EXCEPT !.keys = k] : k \in {"none", "collision"}}
               \cup {[c EXCEPT !.missing = {m}] : m \in {"api_key", "no_ca_cert"}}
          ELSE {})

Deployments == {Base(app, mt) : app \in {"manager", "worker"}, mt \in BOOLEAN}

MCConfigs == Deployments \cup UNION {Variants(c) : c \in Deployments}

\* Of outages, failures and signals, a sound deployment suffers two, and a
\* variant one failure or one signal.
Budget ==
    IF config \in Deployments THEN env.outages + env.faults + env.signals <= 2
                              ELSE env.outages = 0 /\ env.faults + env.signals <= 1

BudgetSpec == Init /\ [][Next /\ Budget']_vars /\ Fairness

SingleTenantManager == {Base("manager", FALSE)}
=============================================================================
