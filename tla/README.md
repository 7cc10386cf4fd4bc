# A TLA+ specification of Fetcher

Fetcher extracts data from client databases on request. A client posts a request
to the **Manager**, which stores a job in MongoDB and puts a message on a RabbitMQ
queue; a **Worker** takes the message, runs the queries through the embeddable
**Engine**, saves the encrypted result to object storage, stores the outcome and
emits a terminal event (`job.completed`, `job.failed`) through lib-streaming.

The modules in this directory model the parts of that system whose correctness
depends on concurrency, on failures between two calls, on the order of things, and on
several pieces of code reading one name, one filter or one setting in the same way.
TLC checks them on small instances; TLAPS proves the most important invariants for
every size.

- [Inventory](#inventory)
- [Modules and the code](#modules-and-the-code)
- [Runs](#runs)
- [Bounds](#bounds)
- [Fairness](#fairness)
- [Proofs](#proofs)
- [Disagreements with the documentation](#disagreements-with-the-documentation)
- [Not modelled](#not-modelled)
- [Plan](#plan)

## Inventory

| Component | State it keeps | Operations | Hard because | Correct when |
|---|---|---|---|---|
| Job creation (Manager, `create_fetcher_job.go`) | none of its own; reads and writes jobs | `Execute`: dedup lookup, connection checks, insert with conflict recovery, publish with compensation | concurrent equal requests; lookup stale at the insert; publish unconfirmed; crash between insert and publish | one active job per request hash; an accepted job is queued |
| Job repository (`pkg/mongodb/job`) | documents, partial unique index on `dedup_active` | `Create`, `Update`, `UpdateStatus`, `ClearTerminalEventMetadata`, lookups, `ListPendingTerminalEvents` | no write tests the stored status; a derived flag must follow the status on every path | flag follows status; marker follows status |
| Work queue (RabbitMQ, `pkg/rabbitmq`) | messages, dead letters; adapter: connection, channel, confirms | publish with retries, consume, ack, nack | at-least-once delivery, lost confirms, dying channels | nothing acked before it is finished |
| Extraction handler (Worker, `extract_data.go`, `consumer.go`) | per delivery | preflight, claim, extract, save, complete or fail, publish, clear, settle | redelivery to a second handler; a crash between any two calls; which errors are acked | a completed job has its result; no event before its commit, none lost |
| Terminal-event repairer | a listing in memory | list, emit, clear | the listing is a snapshot; several repairers | markers lead to their event |
| Multi-tenant consumer and reconciler | tenants, queues, contexts, mutexes, absence counters | ensure, stop, register, run, close; reconcile pass | per-tenant mutexes that are deleted while in use; four independent callers; contexts | one loop per registration; the Tenant Manager's view is followed |
| Engine runner (`runner.go`, `runner_parallel.go`) | goroutines, channels, contexts, a sink | store mode: streaming pool and ordered writer; direct mode: bounded pool and merge | deadlock between ordered drain and window; who cancels whom; panics | a finalized result is whole and ordered; everything joined; always returns |
| Engine planner and limits (`planner.go`, `limits.go`, `schema_ops.go`) | none | tenant scope, effective limits, schema validation, plan | boundaries; names compared as they are, so the host must have mapped them | what is planned can be executed; limits only tighten |
| Engine connections and schemas (`connection_ops.go`, `schema_ops.go`) | host stores, schema cache | find, update and delete by id, gate, discovery cached and fresh | check and write are separate calls | see the two rows below |
| Connection management (Manager, `services/command`, `pkg/mongodb/connection`) | connections in MongoDB, unique index on live names | create, update, delete, assign | whole documents written from an earlier read; the active-jobs gate races with jobs | what is stored is sound; one winner; a job's connection is not changed behind the gate |
| Schema cache (`pkg/redis`) | Redis and a map in memory, which of them is used | get, set, health monitor, expiry | failover and recovery | no schema older than its TTL, none of another tenant |
| Rate limiter (`pkg/ratelimit`) | a token bucket per key | take | buckets made on demand by competing requests | tests stay within the rate |
| Data source drivers (`pkg/postgres`, `mysql`, `oracle`, `sqlserver`, `mongodb`, `enginecompat`) and plugin_crm | sockets | discover, validate, query | five dialects of the same rules; spellings, schemas, dates, patterns, encrypted fields | no filter lost, no matching row missed |
| Tenant and datasource resolution (`pkg/resolver`, `pkg/datasource`) | entries of the environment, Tenant Manager clients | resolve by name and by id, list, dial | several sources of one name; passwords and SSL modes rewritten per driver | a request dials its own tenant's database as configured |
| Readiness (`pkg/bootstrap/readyz`) | drain flag, self-probe result | `/readyz`, `/readyz/tenant/:id`, `/health`, TLS gate | checkers sample at different moments; drain races with probes | answers truthful; unready before the port closes |
| Bootstrap and shutdown (Manager and Worker) | open clients, goroutines | some twenty steps each, guards, hooks, cleanup | fails anywhere; ownership of clients changes hands | every client closed once, after its last user |
| Cryptography, object storage clients, HTTP parsing | keys, sockets | functions over bytes, I/O | - | out of reach of a model checker |

**Interactions.** Manager and Worker never call each other: they share the job
collection and the queue. The repairer and the handler share the marker in the job's
metadata. The reconciler, the Pub/Sub listener, the boot sync and the consumer loops
share the consumer's maps. The Engine is called by the Worker's handler, and calls
back into stores and connectors its host supplies. The Manager validates what the Worker
will later plan and query, from the same names and with partly different code. Both
processes serve `/readyz` over the clients their bootstrap opened.

## Modules and the code

### The life of a job

```
Faults <- JobStore <- JobQueue <- CreateFetcherJob ----------------------+
                          ^                                              v
                          +----- ExtractExternalData <- TerminalEventRepairer <- JobLifecycle
```

(an arrow points from the module that extends to the one that is extended;
`JobLifecycle` extends `CreateFetcherJob` and `TerminalEventRepairer`)

- **Faults**: the kinds of failure the services are written against and one budget
  for all of them. A run says which kinds may happen.
- **JobStore** (`pkg/mongodb/job`): `db[j]` is a document reduced to status,
  `dedup_active`, terminal-event marker and result reference. `DuplicateKey` is the
  unique partial index, which sees only the flag. `SetStatus` is `UpdateStatus`, whose
  empty arguments leave the stored fields alone; `OverwriteFailed` is `Update` as the
  Manager calls it. Every write has a failed form, and `UpdateStatus` also one that
  took effect although its caller got an error (`ambiguous`). Time is the order of
  `created_at`; `WindowSlides` lets the oldest job leave the dedup window.
- **JobQueue**: the queue as a count of copies per message, and the dead-letter queue.
- **CreateFetcherJob**: one action per call the handler makes. `Create` and `Recover`
  are each used twice, for the first round and for the single retry. `PublishToQueue`
  is one round of `ProducerDefault`; an unconfirmed attempt counts as failed whether or
  not the broker has the message.
- **ExtractExternalData**: the handler from delivery to settlement, one action per call
  out of the process. Panic, cancellation, crash and death of the channel may strike at
  every place. Which deliveries are acked and which nacked is `isNonRetryableHandlerError`
  and the two consumers' differences, as choices. The value of a result reference names
  the handler whose bytes were signed, so that a reference to another handler's bytes
  can be told apart.
- **TerminalEventRepairer**: listing, emission and clearing as separate steps, from a
  snapshot. The batch limit is left out.
- **JobLifecycle**: their composition and its properties.
- **JobContract**: the abstract specification: a job is accepted while none for the same
  request is active, starts, ends once, and only its end is announced. `ImplementsContract`
  maps `state` to the stored statuses and `announced` to the accepted events.
- **MCJobs**: gives all requests one hash, the only interesting case.

`committed` (terminal states stored with a marker) is a history variable; the code has no
such thing.

### The multi-tenant consumer

**TenantConsumers** models `worker_multi_tenant_consumer.go`,
`tenant_consumer_reconciler.go` and the wiring in `bootstrap/config.go`. Each caller of
`EnsureConsumerStarted` or `StopConsumer` (the boot sync, the event listener, the
reconciler) has a record in `calls` that goes through the function's critical sections.
The tenant's mutex lives in a `sync.Map` from which `StopConsumer` deletes it: `epoch`
numbers the mutexes of a tenant, a call remembers the number of the one it got, and
`held` has the mutexes held across steps. A loop is a slot of `loops` with the tenant
and the root of the context it runs under. The Tenant Manager (`tm`), the Pub/Sub channel
(`inbox`), the loader and the cache are external and modelled from their use. `started`
and `missed` are history variables.

### The Engine's runner

**StoreStream** models both modes of `ExecuteExtraction`. Store mode
(`runStoreExtraction`, `streamPlanToSink`, `streamSteps`, `streamStep`): one process per
step (gate, build, connect, query, cursor loop, flush, deferred closes, record), one writer
and the caller, with the three nested contexts. Direct mode, the one the Worker uses
(`runDirectExtraction`, `runStepsParallel`, `forEachStep`, `executeStep`): the same steps
behind a semaphore, whose rows are measured, kept and put together by the caller. A batch is a
pair of step and number; the size limit counts batches instead of bytes, and the indented
payload of direct mode may exceed it although the compact parts did not. `Drive` allows the
success of a cancelled step whose last rows were already read, because the code looks at
the context only between rows.

### The AMQP adapter

**RabbitAdapter** models `RabbitMQAdapter` of `pkg/rabbitmq` in its two uses: the Manager's,
where several requests publish through it at once, and the Worker's, where one consumer
loop takes messages through it. Channels are numbered in the order they were opened;
`channel` and `publisher` are the fields under `prmq.mu`, `watchers` the watcher goroutines
still waiting, `connChan` the channel the connection of lib-commons has. A section under
`prmq.mu` is one step; `invalidateChannel` is two, since it closes outside the mutex.
`pc["loop"]` goes through `ConsumerLoop`, `runConsumerCycle` and `dispatchDeliveries`; the
handlers of a session are the set `handling`, each with the channel it must settle on.
Channel, confirmable publisher, circuit breaker and broker are external and modelled from
their use. When every attempt to connect fails, `ConnectChannel` hands out the closed
channel if there still is one, as the code does.

**PublishContract** is what a publish promises: success means that the broker has the
message, after an error it may have it, once per attempt at most. This is what
`CreateFetcherJob` assumes in `PublishToQueue`; `ImplementsPublish` shows that
`ProducerDefault` delivers it.

### Connections, schemas and limits

```
ApiBase <- ConnectionStore, SchemaCache, RateLimiter <- ConnectionApi <- MCConnections
```

- **ConnectionStore** is the collection behind `ConnectionMongoDBRepository`: one operator per
  command with the condition of its filter, and the unique index over live names. A document
  is its name, product, type, SSL mode and *target* (everything that says what is reached).
- **SchemaCache** is `FallbackCache`: Redis, the map in memory, and the monitor that decides
  which is used. Redis and what other Managers do to it are external.
- **RateLimiter** is the map of token buckets; `golang.org/x/time/rate` is external, modelled
  from its documentation as the code uses it, with reservations that are cancelled.
- **ConnectionApi** runs create, update, delete, assign, test, schema, validate and submit
  against each other. A step of a request ends at its next call to the store, the cache, the
  limiter or a data source. A write whose answer is lost has happened or not. The jobs that
  were submitted run, read the connection again and end.

### The data path

```
TableNames <- Filters <- PostgresDriver, MySQLDriver, OracleDriver, SQLServerDriver
                 ^------ MongoDriver <- CrmSource <- DataPath <- MCDataPath
SSLModes <- Resolver <- DataSourceFactory  (instantiated by DataPath)
```

One datasource's request, from the Manager's validation to the rows. The state is the
request, how far it has come, the resolved connection, the mapped job and the answers; most
of the model is operators, one per function of the code.

- **TableNames**: a name is the sequence of its identifiers; `NormalizeTable`,
  `NormalizeField`, `SchemaScopeForTables` and the rules about system tables, per database.
- **Filters**: conditions, what they promise (`Meets`), and how a SQL database evaluates the
  clauses the drivers build. A value is a kind and a number; texts and patterns are
  sequences over two letters, moments count half days so that a day's last moment is its own
  value.
- The **drivers**: discovery under a scope, the checks a driver repeats before a query, the
  clauses of every operator, the heuristics on field names (dates, UUIDs), and the reading of
  a stream that may break off. **CrmSource** adds the logical collections of plugin_crm,
  the hashed search fields and the decryption.
- **Resolver** and **DataSourceFactory**: a deployment is its environment, the Tenant
  Manager's answers and the stored connections; resolution by name and by id, the listing, and
  what is dialed for a connection, with password, users and TLS as the driver would see them.
- **DataPath** composes them: the Manager resolves and validates, the Worker resolves again,
  maps, plans (limits, overrides, scoped connections, schema) and queries one table at a
  time; or a client first lists connections, looks at a schema and asks for what it saw. The
  database may fail at every step and a stream may break off.

### Process lifecycle

```
Readyz <- Boot <- WorkerBoot, ManagerBoot
             ^--- ProcessLifecycle <- MCProcess   (instantiates both)
```

- **Readyz**: TLS detection and enforcement, what each checker reports, the aggregation, the
  drain delay.
- **WorkerBoot** and **ManagerBoot**: the bootstrap as a sequence of steps, each with what makes
  it refuse, what it needs, opens and starts; the guards of an aborted bootstrap; the shutdown.
- **ProcessLifecycle**: one process under a kubelet: boot, self-probe, probes with concurrent
  checkers, SIGTERM, drain, cleanup, restart, while dependencies come and go. The kubelet, the
  launcher of lib-commons and the dependencies are external.

## Runs

| Run | Instance | Properties | Shows |
|---|---|---|---|
| `faults` | 3 equal requests, 2 handlers, 1 repairer, all 14 kinds of failure, 3 of them (fewer with more jobs: `Budget`) | `TypeOK`, `CompletedHasResult`, `MarkerMatchesStatus`, `EventAfterCommit`, `UniqueActiveHash` | What holds whatever happens. Two handlers have the same message when a channel dies or a confirm is lost, the Manager compensates a publish the broker accepted, and writes take effect although they report an error; still a completed job has its result, a marker is that of the status it stands beside, no event precedes its commit, and at most one of the equal requests is active. |
| `single` | 2 equal requests, 2 handlers, 1 repairer, 10 kinds of failure: all but a lost confirm, a channel that dies under a handler, an ambiguous write, and a delivery both of whose lookups fail | `ImplementsContract`, `EventNeverLost`, `IntegrityMatchesObject` | Through crashes and redelivery, panics, cancelled contexts, refused and failing calls and single failed lookups, the services implement the contract, lose no event and sign what they store. |
| `live` | 1 job, 2 handlers, 1 repairer; 9 kinds of failure, 3 of them | `TerminalEventDelivered`, `JobsTerminate` | Every marker leads to its event unless the message is about twice; every job ends or is dead-lettered except in four cases: its process died, a handler whose context was cancelled was acked, the Manager's compensation was not stored, or a handler whose channel was gone could not store its failure. |
| `tenants` | 1 tenant, grace of 2, 2 changes or failures | `OneLoopPerRegistration`, `NothingStartsAfterClose`, `StopOnlyAfterGrace`, `ActiveTenantServed`, `AbsentTenantForgotten` | Boot sync, events, reconciler, loops and shutdown in every order, with events lost and channels dying. |
| `stream` | 3 steps of 0 or 2 batches, window of 2, limit of 3 batches, both modes, one failing call anywhere, host may cancel or time out | `FinalizedIsComplete`, `CanceledOnlyByHost`, `NothingLeftBehind`, `Terminates` | A result is whole, ordered and within the limit; the returned category and the stored status name the host only if the host did it; nothing is left running, and nothing open but the connector of a `TestConnection` that panicked; no deadlock. |
| `rabbit` | 2 publishers, or 1 loop with 2 messages and 2 handlers; circuit opens after 3 failures, 3 failures | `FailureCostsOneAttempt`, `OneHandlerPerMessage`, `ReturnedMeansClean`, `ImplementsPublish`, `NobodyWaitsForGood` | A publish keeps its contract and returns; a late watcher or a dead channel never costs a second attempt; the consumer settles every message through dead channels, cancelled consumers and an open circuit, works on no message twice at a time, and when stopped ends with nothing in its hands. |
| `connections` | 3 requests at a time, chosen from 9 that write and from 5 that read; 3 connections of 2 tenants; 1 failure, 2 ticks | `StoredConnectionsSound`, `OneWinner`, `TestsWithinRate`, `GateProtectsJobs`, `ServedSchemaIsFresh` | Overlapping updates never leave an unsound connection, competing deletes and assignments have one winner, the gate protects the jobs it saw, a schema is fresh and of its tenant through a Redis outage, and first requests share one bucket. |
| `datapath` | some 8,300 requests over two tables called `orders`, five databases and plugin_crm | `FiltersNeverDropped`, `AnswersComplete`, `PlanIsExecutable`, `ManagerAndWorkerAgree`, `DialsAsConfigured`, `ListedIsExtractable` | However tables and fields are spelled, conditions combined, connections configured and listed: no filter is lost, no matching row missed, plans can be executed, Manager and Worker agree, and what is dialed is the tenant's own database as configured. |
| `process` | 4 deployments, and each with one setting changed; a probe every second, drains of 1, 2 and 12 s; up to 2 outages, failures or signals | `NotReadyWhenClosing`, `ClosedExactlyOnce`, `ClientsFitForUse`, `AnswersTruthful`, `ServesAgain` | `/readyz` is truthful, but for a lost broker the adapter has not noticed, and is seen unready before the listener closes if the drain is longer than the probe period; clients are closed once and after their users and, those that the TLS gate looks at, are encrypted in SaaS mode; a process gets back into service, or stops when told. |
| `stuck` | 1 job, 1 handler, 1 crash | `ProcessingResumes` (violated) | see below |
| `tenants_stop` | 1 tenant | `StopTearsDown` (violated) | see below |
| `unready` | single-tenant Manager, 1 outage | `ManagerServesAgain` (violated) | see below |

Deadlock is checked except in the runs whose system may really stop: once the consumer of
`TenantConsumers` is closed and its loops have ended, once all requests of `ConnectionApi` are
answered, or a request of `DataPath` has its answer, nothing is left to do.
`JobLifecycle` has an explicit `Quiescent` step for the state in which every request is
answered and every message settled, `StoreStream` one for the state after the return, and
`RabbitAdapter` one for returned publishers and a consumer that was shut down: any other
state without a successor would be reported.

`PROJECT.json` lists with every property of a passing run a mutation of the model, such
as a dropped guard or a reset that was forgotten, that TLC finds to violate it. The
mutated definitions stand before the ones they replace, marked *Mutation* or *Mutant*;
nothing uses them.

## Bounds

- *Failures* (`MaxFaults`, `MaxFailures`, `MaxChanges`). Every failure is drawn from a
  budget. Three let a second failure strike while the services handle the first and a
  third while they handle that (a lost channel, then a failing completion, then a refused
  event). `faults` gives fewer to instances with more jobs, `process` fewer to those with an
  unusual setting (`Budget`).
- *Jobs*. The jobs of different hashes share nothing but the handlers. Three equal
  requests are what it takes for the retry of an insert to lose against yet another one.
  Runs about redelivery and repair are about one document and have one job.
- *Handlers*. Two: the message of one job is in two handlers at once exactly when a
  channel died or a confirm was lost.
- `MaxPublishAttempts` is 2, the default of the code, where the publish is the point, and 1 where
  it is not: 2 distinguishes the
  first, the repeated and the last attempt.
- *Adapter*. Two publishers wait for each other's mutex and share the circuit; three
  failures let the circuit open, and with two the property about the retry still has a
  publish that fails and one that must not. A channel is opened only after a failure, so
  `MaxChannels` = `MaxFailures` + 2 is never reached. With two messages and two handlers
  one handler can outlive its channel while the other settles.
- `MaxLoops` = 5 is never reached with two changes: a guard on a free slot never holds
  back a start.
- *Tenants*. The consumer's state is per tenant, except `c.mu`, whose sections are single
  steps here, and the order in which one caller visits the tenants.
- *Steps and batches*. Three steps in a window of two have a step that waits and one that
  does not; two batches make a step wait for room in its channel; a step without rows is
  the empty case. A limit of three batches is exceeded in the second or third step or
  not at all, depending on the rows.
- *Connections*. Three requests are two that compete and one that changes the world under
  them (a job, a rename). Calls that write connections and calls that read schemas are mixed
  only as far as they meet: an update of the target is among the readers. `TTL` 1 and two ticks
  let an entry expire in either cache. A tick is longer than it takes to store a schema just
  discovered (guard of `Tick`); one Manager process.
- *Data path*. One datasource's tables are modelled, the others of a request only as names.
  Two tables of one name in two schemas are what qualified, unqualified and defaulted names
  can mix up; all pairs of seven spellings are tried, conditions of one operator and all pairs
  of operators on a number. Three letters' texts and seven patterns tell the wildcards apart.
  `Limits` are 2 datasources, 2 tables and 3 fields, and every override from none to one above.
- *Process*. The settings are those some code treats differently, one at a time. Time is
  counted in half seconds and only during the drain, so that a probe may begin and end between
  two whole seconds; `ProbePeriod` = 2, one second, is the shortest period of a kubelet. A drain
  of two seconds is longer than it, one of one second is not. A probe is answered within half a
  second; `kube.ready` is the last answer the kubelet saw, which is what it acts on with a
  failure threshold of 1 (a higher one needs as many periods more).

## Fairness

- *Jobs.* Weak fairness of each request handler, each worker and each repairer as a whole:
  they are goroutines the runtime schedules, RabbitMQ delivers to an idle consumer, and
  the repairer's ticker ticks. Failures, clients and the passing of time have no fairness.
- *Tenants.* Weak fairness of each caller, each loop, the event listener, the boot sequence
  and the reconciler. Taking a mutex needs no more than weak fairness here: mutexes are
  held over one step. A dying channel has none.
- *Stream.* Weak fairness of `Progress`, the disjunction of all goroutines' steps: while
  some goroutine can go on, one does. This is weaker than fairness of every goroutine, and
  suffices since every goroutine is finite. It does assume that drivers and the sink
  answer in the end; the host need not cancel.
- *Adapter.* Weak fairness of each publisher, of the loop, of the handlers (which are assumed
  to return: their context has no deadline), of delivery to an open consumer, and of the
  end of the breaker's cooldown. Not of the watchers: nothing waits for them.
- *Process.* Weak fairness of the process's own goroutines, of the kubelet's probes and
  restarts, of requests in flight and of the end of an outage; strong fairness of what other
  probes may interrupt again and again (a `/readyz` probe that finds the process busy, the
  closing of the server, the end of an app). None of signals, failures and outages.
- `ConnectionApi` and `DataPath` have no liveness properties and no fairness.

## Proofs

TLAPS checks all proofs with its SMT and Zenon backends and, for the temporal steps, its
decision procedure. Seven modules hold them, each extending the module it is about. Every
invariant below was first checked by TLC on the instance of the component's run. The proofs
rest on the named assumptions about the constants, which TLC evaluates in every run, and
hold for all values of the constants that satisfy them: any numbers of jobs, handlers, tenants,
steps, channels and requests, and any number of failures.

| Module | Assumptions |
|---|---|
| `JobLifecycleProofs` | `FaultsAssumption`, `JobStoreAssumption`, `PublishAssumption`; in its second part also the hypothesis `OneDelivery` |
| `TenantConsumersProofs` | `TenantAssumption` |
| `StoreStreamProofs` | `StreamAssumption` |
| `RabbitAdapterProofs` | `AdapterAssumption` |
| `ConnectionApiProofs` | `CallAssumption` (calls bring what their kind needs), `StoredAssumption` (the collection is sound at first), `CacheAssumption`, `LimiterAssumption` |
| `ProcessLifecycleProofs` | `ProbeAssumption` (the kubelet has a period), `ConfigAssumption` (settings have the types their parsers give them, and the Tenant Manager answers for every service) |
| `DataPathProofs` | `DeploymentsAssumption` (a deployment means what it is set up as, and stored connections are those of one tenant), `WordsAssumption` (two cases of a word, a hash without collisions), `RequestsAssumption`, `DatabasesAssumption` (rows have the columns of their tables, no field is called `*`, Oracle's identifiers are in upper case), `LimitsAssumption`, `FailedAssumption` |

**JobLifecycleProofs**, for every hash function and any failures:

| Theorem | States |
|---|---|
| `InductiveInvariant` | `Spec => []IInv` |
| `TypeCorrect` | `Spec => []TypeOK` |
| `ActiveHashUnique` | `Spec => []UniqueActiveHash` |
| `CompletedJobsHaveResults` | `Spec => []CompletedHasResult` |
| `MarkersMatch` | `Spec => []MarkerMatchesStatus` |
| `EventsFollowCommits` | `Spec => []EventAfterCommit` |

None of these properties is inductive. `UniqueActiveHash` speaks of statuses while the
index speaks of the flag, so the invariant needs `DedupMatchesStatus`. `EventAfterCommit`
needs that every event on its way out, in a handler or in a repairer's snapshot, was
committed (`CarriedEventsCommitted`), and that every marker was (`MarkerCommitted`), since
both copy it from there. `CompletedHasResult` needs `StoredBeforeCompleted`, about the handlers
that are about to complete. A lemma per store write shows what it preserves (`StoreInv`);
the proofs for Manager, handlers and repairers then reduce every action to a *duty*, a
formula about what the action may do to the shared state, and one frame lemma each shows
that the duty preserves `IInv`.

**JobLifecycleProofs**, second part, under `OneDelivery`: no lost confirm, no channel that dies
under a handler, no ambiguous write, and no delivery both of whose lookups fail (`blind`). This is
the restriction of the run `single`: these are the failures after which two handlers may have one
message, or a process may not know the status it overwrites. TLC finds `ImplementsContract` and
`EventNeverLost` violated as soon as any one of the four is allowed, so none can be spared (see
[other observations](#other-observations)). A single failed lookup, and everything else that may
fail, is allowed.

| Theorem | States |
|---|---|
| `SingleDeliveryInvariant` | `Spec => [](IInv /\ SInv)` |
| `EventsAreNotLost` | `Spec => []EventNeverLost` |
| `IntegrityHolds` | `Spec => []IntegrityMatchesObject` |
| `ServicesImplementContract` | `Spec => ImplementsContract`, a refinement |

`SInv` follows a message: it is in the Manager's hands, in the queue or in one handler, never
in two of these (`OneCopy`, `ManagerKnows`); who holds it knows the stored status
(`HandlerKnows`), so that a job ends once (`EndsOnce`), and a marker is cleared only by one
whose event was accepted (`Clearing`). For the refinement every step of the services is shown to
leave all jobs alone or to move one job in one of the contract's ways (`StepOn`).

**TenantConsumersProofs**, for any grace period and callers:

| Theorem | States |
|---|---|
| `TenantInductiveInvariant` | `Spec => []IInv` |
| `OneLoop` | `Spec => []OneLoopPerRegistration` |
| `ClosedForGood` | `Spec => []NothingStartsAfterClose` |
| `GraceRespected` | `Spec => StopOnlyAfterGrace` |

The interesting part is that no mutex appears in the argument: the starts are kept apart
by `c.mu` and the set of started queues (`StartsMatchQueues`: a tenant has had a loop since its
registration exactly if its queue is in the set), not by the tenant's mutex, which may be
deleted under its holder. `GraceRespected` rests on `AbsencesBehind`: a counter is never
ahead of the number of consecutive listings that missed the tenant, and strictly behind it
for a tenant that the current pass has still to count.

**StoreStreamProofs**, for any number of steps and batches, any window and limit, both modes:

| Theorem | States |
|---|---|
| `ExtractionInvariant` | `Spec => []IInv` |
| `ResultIsComplete` | `Spec => []FinalizedIsComplete` |
| `CanceledMeansHost` | `Spec => []CanceledOnlyByHost` |
| `NoGoroutineLeft` | `Spec => []NothingLeftBehind` |

`CauseInv` says of the contexts why they may have ended: with the host's, or for a failure
that is reported in place of the cancellation, which is why the cancellations with which the pool
and the writer stop each other never surface. `StreamInv` accounts for every batch: those in the
sink, the one in the writer's hand and those in the channels are, in this order, what the steps
have read so far. `RowsInv` says that a step without an error has all its rows, and `PhaseInv`
ties the caller's place to those of the goroutines.

**RabbitAdapterProofs**, for any publishers, messages, handlers and threshold:

| Theorem | States |
|---|---|
| `AdapterInvariant` | `Spec => []IInv` |
| `OneHandler` | `Spec => []OneHandlerPerMessage` |
| `ShutdownIsClean` | `Spec => []ReturnedMeansClean` |
| `FailuresArePaidFor` | `Spec => []FailureCostsOneAttempt` |
| `PublishImplementsContract` | `Spec => ImplementsPublish`, a refinement |

The handlers belong to the session's channel, on which the broker has their messages out while
it is open (`SessionInv`, `OutOnOpenChannel`), and a session ends only when no handler is left.
`FailureCostsOneAttempt` counts: the failures so far are at least the attempts of the
publishes that ended in error, the failed ones of the publish that holds the mutex, and the
attempt whose channel is dead and not yet noticed (`FailuresPaidFor`); while a publish works on
an open channel it is the adapter's own, so that no late watcher closes it (`ChannelIsOurs`). The
refinement needs that a publish has sent at most one copy per attempt (`CopiesCounted`).

**ConnectionApiProofs**, for any calls, requests at a time, jobs and expiries:

| Theorem | States |
|---|---|
| `ConnectionsInvariant` | `Spec => []IInv` |
| `ConnectionsSound` | `Spec => []StoredConnectionsSound` |
| `SingleWinner` | `Spec => []OneWinner` |
| `GateIsKept` | `Spec => GateProtectsJobs` |
| `RateIsKept` | `Spec => []TestsWithinRate` |
| `SchemasAreFresh` | `Spec => ServedSchemaIsFresh` |

An update writes a document it read earlier; it stays sound because a patch is validated as a
whole and written with type and SSL mode together, and the index sees the name at the write;
`ReadInv` says what is still true of the stored document by then. `WonInv` relates the winner of a
delete or an assignment to the stored document, `GateInv` the jobs the gate looked at to those
that run, `FreshInv` the expiry of an entry in either cache to the moment its schema was read.
`TokenInv` bounds the grants and reservations of a bucket by its tokens and the time; that
holds through cancelled reservations because those that lie ahead are for different times and
none is after the bucket's latest event (`ReservationInv`), and all tests of a connection use one bucket
(`BucketInv`).

**ProcessLifecycleProofs**, for any set of configurations, outages, failures and signals:

| Theorem | States |
|---|---|
| `ProcessInvariant` | `Spec => []IInv` |
| `ClosingIsSeen` | `Spec => []NotReadyWhenClosing` |
| `ClientsClosedOnce` | `Spec => []ClosedExactlyOnce` |
| `ClientsAreFit` | `Spec => []ClientsFitForUse` |
| `ProbesAreTruthful` | `Spec => AnswersTruthful` |

The lemmas about the bootstraps show for every configuration that what a step opens and the
process owns, some step of the shutdown closes, and no two steps close the same client
(`BootFactsHold`, `CleanupFacts`). `CloseInv` then counts the closings by phase and step.
An aborted Manager closes its event Redis because every step after the one that opened it
undoes it, or is the self-probe, which does not fail (`ManagerUndoes`). `DrainInv` is the race
of the drain with the probe period, for every period and every drain that is longer: the kubelet
has seen the process unready, or has a probe left before the drain is over. `TruthInv` says of
every dependency a probe needs that its checker is out, found it up while it was, or reported
something else, and that a channel has a broker, or had one when the probe began, or was already
dead by then, which is the exception (`Misled`). The Manager's `/readyz` asks for the multi-tenant Redis only because the
bootstrap refuses to go on without one (`HasSettings`). `FitInv` says that a goroutine that
still works has its clients open, which follows from the order of the shutdown, and that a
process past its TLS gate in SaaS mode has opened encrypted clients only, those of `Ungated`
apart: what the gate reads in the settings (`MongoConnects` is what the driver makes of a URI) is
what the clients put on the wire.

**DataPathProofs**, for any deployments, databases, requests, patterns and limits:

| Theorem | States |
|---|---|
| `EveryDialIsRight` | `Spec => []DialsAsConfigured` |
| `NoFilterIsDropped` | `Spec => []FiltersNeverDropped` |
| `AcceptedPlansRun` | `Spec => []PlanIsExecutable` |
| `ValidationPredictsThePlan` | `Spec => []ManagerAndWorkerAgree` |
| `WhatIsListedIsExtractable` | `Spec => []ListedIsExtractable` |
| `NoRowIsLost` | `Spec => []AnswersComplete` |

Most of the work is lemmas about operators, for it is what the functions compute that has to
agree. `DialInv` keeps the connection among the resolved ones; the lemmas show for every source
of a name (environment, registry, collection) that what the driver makes of it is the account
and encryption of the deployment. `PathInv` says that the mapped filters are stated by the
request for some spelling of the table, and that an answer is the driver's for exactly the
planned table; `ClausesMeet` (SQL), `OperatorsMeet` (MongoDB) and `HashedMeets` (plugin_crm) then
show that a row that passes what the driver sends meets every condition. `ExecInv` keeps that
the planner found every table and field in a snapshot under the plan's scope; for each database
a lemma shows that the driver, which discovers again under a scope of its own, finds them too.
`AgreeInv` keeps what the Manager decided next to the connection and the mapped selection from
which the Worker will decide; `ListInv` what was shown of which connection. `WholeInv` is for the
converse of `NoFilterIsDropped`: an answer that was not cut is the driver's whole answer for the
planned fields, none of which is `*`. A row that meets the conditions passes what the driver
sends; for a `like` on MongoDB, where the pattern loses a `%` at either end and the expression
its anchor there, because the cuts of the text that match the pattern, without those of the
ends, match the expression (`Cuts` in `Filters`).

Stating these for all constants sharpened the properties; each condition that was added is a
behaviour of the code and is listed under [other observations](#other-observations).

**Only model-checked.**

- The liveness properties (`TerminalEventDelivered`, `JobsTerminate`, `ActiveTenantServed`,
  `AbsentTenantForgotten`, `Terminates`, `NobodyWaitsForGood`, `ServesAgain`): liveness under
  fairness is out of the prover's reach.
- The three properties of the runs that expect a violation are false, and not proved.

## Disagreements with the documentation

Three properties state what a comment or a document says and are violated by the code:

- `ProcessingResumes` (run `stuck`). A Worker that dies after it claimed a job leaves the job
  in `processing`; the redelivered message is skipped and acked. The job stays there, and
  its hash stays blocked. `docs/PROJECT_RULES.md` lets the use case go on in that status.
- `StopTearsDown` (run `tenants_stop`). `StopConsumer` cancels a context derived for the
  tenant, but the loops were started with its parent: they go on consuming.
- `ManagerServesAgain` (run `unready`). `/readyz` of the single-tenant Manager reports a lost
  RabbitMQ channel and leaves the reconnection to "the watcher"; the watcher only forgets the
  channel, and only a request, which an unready process does not get, opens another.

### Other observations

Made while modelling; each is part of the model, or excluded by name from a property.

*Jobs.* A request whose lookup finds no job and whose twin completes before the insert is
accepted as new, although the twin is inside the window. The update that clears a marker
filters on the id alone (`job.mongodb.go:367`): of two handlers of one message that end
differently, one may clear the marker of the other. With two handlers of one message the stored
HMAC may be that of the other handler's bytes. Four failures let a status be written over an end:
after a *lost confirm* the Manager's compensation may overwrite what a Worker has stored, or a
second copy of the message is handled; a *channel* that dies under a handler has its message
delivered to a second one; an *ambiguous* write is answered with `handleErrorWithUpdate`, which
overwrites it; and when, after a crash, *both* lookups of the redelivery fail
(`extract_data.go:709-711` and `89-91`), `handleErrorWithUpdate` turns a completed job into a failed
one and its marker into that of the failure, so that the completed event is lost. Each alone
violates `ImplementsContract` and `EventNeverLost`; `IntegrityMatchesObject` breaks with a lost
confirm or a lost channel only. `JobsTerminate` has four exceptions (`leftBehind`), which its
comment names.

*Tenants and Engine.* Loops started by the boot sync, before `Run`, have a context no shutdown
cancels. A connector whose `TestConnection` panics is never closed: the panic gets past the close
in `openStepConnector`, and the caller defers its own only afterwards (`leaked` in `StoreStream`,
the exception of `NothingLeftBehind`). `runner_parallel.go:27-29` has "every built connector closed
on every path — success, fail-fast, panic, ctx-cancel", and `runner.go:467-470` says the same of
every failure after a build. In
store mode a step's place in the window is free when the step is done, not when its last
batch was written, so that up to one batch per finished step waits in a channel.

*Connections.* The owner of a connection is checked when a job is submitted, and the Worker
resolves the name again. The gate does not see a job inserted after it looked, nor the jobs of
a connection that was renamed meanwhile (the two exceptions in `GateProtectsJobs`). Overlapping
updates lose fields but stay sound; connections without a product cannot be updated. Denied
tests that overlap may lose a token. When Redis comes back it may serve an older, still
valid snapshot than memory had. The cache is keyed by the connection's name alone: an update
or a deletion does not invalidate it, and a snapshot discovered for one schema answers a
later request for another until it expires. `CleanupInactive`, `Cleanup`, and the cache's
`Delete` and `Clear` have no caller.

*Drivers.* `scanRows` of the SQL drivers does not ask for `rows.Err()`, so that a stream that
broke off counts as complete (excluded from `AnswersComplete` by `"querying" \notin outages`);
MongoDB skips documents it cannot decode. In MongoDB one operator replaces another on the same
field (`eq` with any other, `between` over `gte`/`lte`, several `ne` over `nin`, `in` over several
`eq`), texts are never compared with dates, and `like` ignores case and does not escape its
metacharacters: `Mongoable` says what is left. plugin_crm drops `ne` and `like` on hashed
fields. PostgreSQL and SQL Server use the filters of an unqualified table for one of the same
name with a schema and no filters (`BorrowsFilters`). Filters on a table that is not selected
are ignored. A driver discovers the schema again and skips a filter on a column that is gone
by then. A `like` on anything but a text is ignored, and of several patterns in one
`like` all but the first are. A three-part name whose catalog has the name of a schema is planned on Oracle and SQL
Server and fails at the query. SQL Server requests that mix tables with and
without schema are planned and then fail. `["*"]` (README.md) is refused by the planner. Three-part
names never validate; `PUBLIC.t` is refused on PostgreSQL, and on Oracle tables qualified with
the user's own schema. A table without fields is planned and fails at the query. Fields are
taken for UUIDs or dates by their names. Of two spellings of a table with different conditions
on one field, one wins at random, as does one of two spellings of the field in one table. The Manager counts spellings against its limits and the
Worker tables; the Manager does not look at filter fields, and accepts a request without
tables, which the planner refuses. MongoDB fields are sampled at each discovery, so that a
listed field may be refused later. A field spelled twice counts once for the Worker's limits and
twice for the Manager's; and only the Manager takes a SQL database called `plugin_crm` for the CRM.

*Resolution.* Oracle's SSL mode is checked but is no part of what is dialed; SQL Server's
`false` encrypts. Passwords are query-escaped: a space becomes a plus in a URL's user part, and
MySQL's DSN is not a URL. A stored connection may have a name of the platform: it is listed, and
requests by that name use the platform's. The total of a page of connections counts the
platform's on the first page only.

*Process.* The Worker's health server stops at SIGTERM, so the 503 of the drain is not served by
it. Three readers of the drain delay clamp 0 and negative values differently (1 s or 12 s). A
drain of one second, which the Manager takes for 1 and for anything negative, is no longer than
the shortest period of a kubelet, so that the listener may close before any probe has seen the
503, although `readyz/config.go:85-89` clamps it there "so draining always covers at least one
readiness-probe interval"; hence the condition of `NotReadyWhenClosing`, which fails already for a
drain as long as the period. The single-tenant RabbitMQ checker asks the adapter whether it has
a channel (`IsHealthy`), not the broker: until the AMQP client notices a lost connection and
the watcher runs, `/readyz` says 200 although the broker is down throughout the probe
(`tests/chaos/readyz_chaos_extended_test.go:340-343` knows of the cached state). Without this
exception TLC finds `AnswersTruthful` violated. The
self-probe runs once: after a failure `/health` stays 503 until the restart. The tenant-manager
checker does not call the Tenant Manager. In multi-tenant mode the TLS gate reads the scheme of
`RABBITMQ_URI` while connections are dialed by `RABBITMQ_TLS` (worker `config.go:1161-1163`, manager
`config.go:459-461`); nor does it read how the tenants' MongoDB and the event stream are dialed.
These clients (`Ungated`) are the exception of `ClientsFitForUse`: for them SaaS mode does not
require "TLS on all platform dependencies" (`tls_enforcement.go:56`), and the gate does not inspect
"exactly the strings that will later be dialed" (worker `config.go:1379-1381`). Some clients have no owner that
closes them (MongoDB, storage, the Manager's Tenant Manager clients and single-tenant RabbitMQ
adapter, the Worker's managers); the Worker leaves its event Redis client open when the
listener fails to start.

## Not modelled

Cryptography, the signed message envelope, the HTTP adapters' parsing and the object storage
clients are input/output or functions over bytes; they appear as calls that succeed or fail. The
integration test kit is test code. Of the modelled components:

- what the connection checks of `CreateFetcherJob` compute is a choice there (and modelled in
  `ConnectionApi` and `DataPath`); the repairer's batch limit and the order of its listing are
  left out, so that a marker beyond the first batch is not delayed in the model;
- there is one queue per tenant; rows and bytes of a batch are not distinguished; the delays
  of the adapter's backoffs, its metrics and its signature checks are left out (a delivery that
  fails verification is nacked like one whose handler fails); the Manager's per-tenant
  producer is left out;
- the text of SQL, conversions of values, connection pools, ports and certificates; the
  Manager's validation is modelled without the cache in `DataPath` and with it, but without
  tables, in `ConnectionApi`; a mismatch of types between the registry and the Tenant Manager;
- routes, middleware, telemetry and metrics of the bootstraps; early errors of the Worker's
  consumer after the start; clients that a failing `BuildServiceClients` would leave behind, which
  cannot fail midway with the settings it is given;
- the Engine's operations by name and its in-memory ports, which neither process calls; the
  migration of indexes; listing of jobs.

## Plan

Done: all modules above; proofs of all safety properties of the runs that hold. To do: the
signed envelope with its legacy form and its clock tolerance, and the Manager's per-tenant producer.
