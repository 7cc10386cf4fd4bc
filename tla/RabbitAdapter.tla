---------------------------- MODULE RabbitAdapter ----------------------------
(***************************************************************************)
(* RabbitMQAdapter: one AMQP channel, opened on demand and watched, shared  *)
(* by everyone who publishes or consumes through the adapter; the circuit   *)
(* breaker around both; the consumer loop with its sessions and handlers;   *)
(* and the shutdown.  An adapter is used in one of two roles: the Manager   *)
(* publishes through one, concurrently, and the Worker consumes one queue   *)
(* through another.                                                         *)
(*                                                                         *)
(* External, modelled from their use: the connection of lib-commons, which  *)
(* opens a channel if the one it has is closed; the confirmable publisher,  *)
(* whose Close closes its channel; the circuit breaker; and the broker.     *)
(*                                                                         *)
(* A section under prmq.mu is one step.  So is the slow path of             *)
(* ensureChannel, which holds prmq.mu over all its attempts to connect.     *)
(***************************************************************************)
EXTENDS Naturals, FiniteSets

CONSTANTS
    Producers,           \* concurrent callers of ProducerDefault, one message each
    Messages,            \* messages in the consumer's queue
    None,
    MaxPublishAttempts,
    Concurrency,         \* handlers at a time, and the channel's prefetch
    Threshold,           \* consecutive failures that open the circuit
    MaxFailures,         \* bound: failures
    MaxChannels          \* bound: channels ever opened

ASSUME AdapterAssumption ==
    /\ MaxPublishAttempts \in Nat \ {0} /\ Concurrency \in Nat \ {0}
    /\ Threshold \in Nat \ {0} /\ MaxFailures \in Nat /\ MaxChannels \in Nat
    /\ None \notin Producers /\ "loop" \notin Producers

VARIABLES
    role,       \* manager or worker
    channel,    \* prmq.channel, 0 for nil
    publisher,  \* the channel of prmq.confirmPublisher, 0 for nil
    watchers,   \* channels with a watcher goroutine that has not fired
    connChan,   \* external: the connection's channel
    opened,     \* external: channels opened so far; their names are 1..opened
    alive,      \* external: channels that are open
    circuit, consecutive,  \* external: the breaker and the failures it counted
    publishMu,  \* the producer that holds prmq.publishMu
    pc, got, dropped,      \* of each caller: where it is, the channel it works
                           \* on, channels it has taken out and not yet closed
    attempts, sent,        \* of each producer: attempts failed, copies sent
    subscribed, \* whether the session's consumer exists at the broker
    buffer,     \* deliveries of the session that no handler has taken
    handling,   \* handlers: message, channel, and whether it has settled it
    broker, on, \* external: each message at the broker, the channel it went to
    canceled,   \* whether the consumer's context was cancelled
    failures

callerVars  == <<pc, got, dropped, attempts, sent, publishMu>>
sharedVars  == <<channel, publisher, watchers>>
connVars    == <<connChan, opened, alive>>
circuitVars == <<circuit, consecutive>>
queueVars   == <<subscribed, buffer, handling, broker, on>>
vars        == <<role, callerVars, sharedVars, connVars, circuitVars, queueVars,
                 canceled, failures>>

Callers  == Producers \cup {"loop"}
Channels == 1..MaxChannels

(* NewRabbitMQAdapterWithOptions: the first channel, if it can be opened. *)
Init ==
    /\ role \in {"manager", "worker"}
    /\ opened \in {0, 1}
    /\ channel = opened /\ connChan = opened /\ watchers = 1..opened /\ alive = 1..opened
    /\ publisher = 0 /\ publishMu = None
    /\ circuit = "closed" /\ consecutive = 0
    /\ pc = [c \in Callers |-> IF c = "loop" THEN "top" ELSE "idle"]
    /\ got = [c \in Callers |-> 0] /\ dropped = [c \in Callers |-> {}]
    /\ attempts = [p \in Producers |-> 0] /\ sent = [p \in Producers |-> 0]
    /\ subscribed = FALSE /\ buffer = {} /\ handling = {}
    /\ broker = [m \in Messages |-> "ready"] /\ on = [m \in Messages |-> 0]
    /\ canceled = FALSE /\ failures = 0

Fails == failures < MaxFailures /\ failures' = failures + 1
Works == UNCHANGED failures

Goto(c, next) == pc' = [pc EXCEPT ![c] = next]

(* A call on the caller's channel goes wrong. *)
Broken(c) ==
    \/ got[c] \notin alive /\ Works
    \/ Fails

-----------------------------------------------------------------------------
(* External: what closing channels, at either end, does at the broker. *)
CloseChannels(S) ==
    /\ alive' = alive \ S
    /\ broker' = [m \in Messages |->
                     IF broker[m] = "unacked" /\ on[m] \in S THEN "ready" ELSE broker[m]]

ChannelDies ==
    /\ \E c \in alive : CloseChannels({c})
    /\ Fails
    /\ UNCHANGED <<role, callerVars, sharedVars, connChan, opened, circuitVars,
                   subscribed, buffer, handling, on, canceled>>

(* conn.EnsureChannel. *)
OpenChannel(c) ==
    IF connChan \in alive
    THEN c = connChan /\ UNCHANGED connVars
    ELSE /\ c = opened + 1
         /\ connChan' = c /\ opened' = c /\ alive' = alive \cup {c}

CircuitSucceeds == circuit' = "closed" /\ consecutive' = 0

CircuitFails ==
    IF circuit = "half-open" \/ consecutive + 1 >= Threshold
    THEN circuit' = "open" /\ consecutive' = 0
    ELSE circuit' = circuit /\ consecutive' = consecutive + 1

CircuitCoolsDown ==
    /\ circuit = "open" /\ circuit' = "half-open"
    /\ UNCHANGED <<role, callerVars, sharedVars, connVars, consecutive, queueVars,
                   canceled, failures>>

-----------------------------------------------------------------------------
(* Mutant: the watcher of an old channel drops the current one. *)
WatcherUnconditional(c) ==
    /\ c \in watchers /\ c \notin alive
    /\ watchers' = watchers \ {c}
    /\ channel' = 0 /\ publisher' = 0
    /\ CloseChannels({publisher})
    /\ UNCHANGED <<role, callerVars, connChan, opened, circuitVars, subscribed, buffer,
                   handling, on, canceled, failures>>

(* startChannelWatcher: a channel has closed. *)
Watcher(c) ==
    /\ c \in watchers /\ c \notin alive
    /\ watchers' = watchers \ {c}
    /\ IF channel = c
       THEN channel' = 0 /\ publisher' = 0 /\ CloseChannels({publisher})
       ELSE UNCHANGED <<channel, publisher, alive, broker>>
    /\ UNCHANGED <<role, callerVars, connChan, opened, circuitVars, subscribed, buffer,
                   handling, on, canceled, failures>>

(* ensureChannel for a caller that goes on at `next', or fails. *)
EnsureChannel(c, next) ==
    /\ pc[c] = "ensure"
    /\ got' = [got EXCEPT ![c] = channel]
    /\ Goto(c, IF channel \in alive THEN next ELSE "connect")
    /\ UNCHANGED <<role, dropped, attempts, sent, publishMu, sharedVars, connVars,
                   circuitVars, queueVars, canceled, failures>>

(* The slow path.  When every attempt fails and the closed channel is still *)
(* there, it is returned as if it were open.                                *)
ConnectChannel(c, next) ==
    /\ pc[c] = "connect"
    /\ \/ /\ channel \in alive
          /\ got' = [got EXCEPT ![c] = channel] /\ Goto(c, next)
          /\ UNCHANGED <<channel, watchers, connVars, circuitVars>> /\ Works
       \/ /\ channel \notin alive
          /\ \E ch \in Channels :
                /\ OpenChannel(ch)
                /\ channel' = ch /\ watchers' = watchers \cup {ch}
                /\ got' = [got EXCEPT ![c] = ch] /\ Goto(c, next)
          /\ UNCHANGED circuitVars /\ Works
       \/ /\ channel \notin alive /\ Fails
          /\ IF channel = 0
             THEN CircuitFails /\ Goto(c, "invalidate") /\ UNCHANGED got
             ELSE /\ got' = [got EXCEPT ![c] = channel] /\ Goto(c, next)
                  /\ UNCHANGED circuitVars
          /\ UNCHANGED <<channel, watchers, connVars>>
    /\ UNCHANGED <<role, dropped, attempts, sent, publishMu, publisher, queueVars, canceled>>

(* invalidateChannel: nil the fields under the mutex, close what they held. *)
InvalidateChannel(c) ==
    /\ pc[c] = "invalidate"
    /\ dropped' = [dropped EXCEPT ![c] = {channel, publisher} \ {0}]
    /\ channel' = 0 /\ publisher' = 0
    /\ Goto(c, "close")
    /\ UNCHANGED <<role, got, attempts, sent, publishMu, watchers, connVars, circuitVars,
                   queueVars, canceled, failures>>

-----------------------------------------------------------------------------
(* ProducerDefault. *)
ProducerFrame == UNCHANGED <<role, subscribed, buffer, handling, on, canceled>>

(* The check of the circuit, before the producer queues up for publishMu. *)
Call(p) ==
    /\ role = "manager" /\ pc[p] = "idle"
    /\ Goto(p, IF circuit = "open" THEN "error" ELSE "lock")
    /\ UNCHANGED <<got, dropped, attempts, sent, publishMu, sharedVars, connVars,
                   circuitVars, broker, failures>> /\ ProducerFrame

Lock(p) ==
    /\ pc[p] = "lock" /\ publishMu = None
    /\ publishMu' = p /\ Goto(p, "attempt")
    /\ UNCHANGED <<got, dropped, attempts, sent, sharedVars, connVars, circuitVars,
                   broker, failures>> /\ ProducerFrame

(* An attempt under executeWithCircuitBreaker, which may refuse it. *)
Attempt(p) ==
    /\ pc[p] = "attempt"
    /\ Goto(p, IF circuit = "open" THEN "invalidate" ELSE "ensure")
    /\ UNCHANGED <<got, dropped, attempts, sent, publishMu, sharedVars, connVars,
                   circuitVars, broker, failures>> /\ ProducerFrame

AttemptFails(p) == CircuitFails /\ Goto(p, "invalidate")

(* confirmablePublisherForChannel. *)
ConfirmablePublisher(p) ==
    /\ pc[p] = "publisher"
    /\ IF publisher = got[p]
       THEN Goto(p, "send") /\ UNCHANGED <<publisher, alive, broker, circuitVars>> /\ Works
       ELSE /\ CloseChannels({publisher})
            /\ \/ /\ got[p] \in alive
                  /\ publisher' = got[p] /\ Goto(p, "send")
                  /\ UNCHANGED circuitVars /\ Works
               \/ /\ Broken(p)
                  /\ publisher' = 0 /\ AttemptFails(p)
    /\ UNCHANGED <<got, dropped, attempts, sent, publishMu, channel, watchers, connChan,
                   opened>> /\ ProducerFrame

(* Mutant: an attempt whose send failed counts as confirmed. *)
SendUnchecked(p) ==
    /\ pc[p] = "send"
    /\ sent' = [sent EXCEPT ![p] = IF got[p] \in alive THEN sent[p] + 1 ELSE sent[p]]
    /\ CircuitSucceeds /\ Goto(p, "ok") /\ publishMu' = None
    /\ UNCHANGED <<got, dropped, attempts, sharedVars, connVars, broker, failures>>
    /\ ProducerFrame

(* publisher.Publish: the message is sent, then the confirm awaited. *)
Send(p) ==
    /\ pc[p] = "send"
    /\ IF got[p] \in alive
       THEN /\ sent' = [sent EXCEPT ![p] = sent[p] + 1] /\ Goto(p, "confirm")
            /\ UNCHANGED circuitVars
       ELSE AttemptFails(p) /\ UNCHANGED sent
    /\ UNCHANGED <<got, dropped, attempts, publishMu, sharedVars, connVars, broker,
                   failures>> /\ ProducerFrame

(* The confirm comes, or a nack or the timeout does, or the channel closes. *)
Confirm(p) ==
    /\ pc[p] = "confirm"
    /\ \/ /\ got[p] \in alive /\ Works
          /\ CircuitSucceeds /\ Goto(p, "ok") /\ publishMu' = None
       \/ Broken(p) /\ AttemptFails(p) /\ UNCHANGED publishMu
    /\ UNCHANGED <<got, dropped, attempts, sent, sharedVars, connVars, broker>> /\ ProducerFrame

(* Mutant: the mutex is kept when the attempts run out. *)
ErrorKeepsMutex(p) ==
    /\ pc[p] = "close" /\ p \in Producers
    /\ CloseChannels(dropped[p])
    /\ dropped' = [dropped EXCEPT ![p] = {}]
    /\ attempts' = [attempts EXCEPT ![p] = attempts[p] + 1]
    /\ Goto(p, IF attempts[p] + 1 < MaxPublishAttempts THEN "attempt" ELSE "error")
    /\ UNCHANGED <<got, sent, publishMu, sharedVars, connChan, opened, circuitVars, failures>>
    /\ ProducerFrame

(* The channels taken out are closed, and the next attempt begins. *)
NextAttempt(p) ==
    /\ pc[p] = "close" /\ p \in Producers
    /\ CloseChannels(dropped[p])
    /\ dropped' = [dropped EXCEPT ![p] = {}]
    /\ attempts' = [attempts EXCEPT ![p] = attempts[p] + 1]
    /\ IF attempts[p] + 1 < MaxPublishAttempts
       THEN Goto(p, "attempt") /\ UNCHANGED publishMu
       ELSE Goto(p, "error") /\ publishMu' = None
    /\ UNCHANGED <<got, sent, sharedVars, connChan, opened, circuitVars, failures>>
    /\ ProducerFrame

ProducerStep(p) ==
    \/ Lock(p) \/ Attempt(p) \/ EnsureChannel(p, "publisher") \/ ConnectChannel(p, "publisher")
    \/ ConfirmablePublisher(p) \/ Send(p) \/ Confirm(p)
    \/ InvalidateChannel(p) \/ NextAttempt(p)

-----------------------------------------------------------------------------
(* ConsumerLoop and runConsumerCycle. *)
LoopFrame == UNCHANGED <<role, attempts, sent, publishMu, canceled>>

(* Mutant: an open circuit ends the loop. *)
GiveUpWhenOpen ==
    /\ role = "worker" /\ pc["loop"] = "top"
    /\ Goto("loop", IF canceled \/ circuit = "open" THEN "ended" ELSE "ensure")
    /\ UNCHANGED <<got, dropped, sharedVars, connVars, circuitVars, queueVars,
                   failures>> /\ LoopFrame

(* The top of the loop and the checks of the circuit. *)
BeginCycle ==
    /\ role = "worker" /\ pc["loop"] = "top"
    /\ Goto("loop", IF canceled THEN "ended"
                    ELSE IF circuit = "open" THEN "backoff" ELSE "ensure")
    /\ UNCHANGED <<got, dropped, sharedVars, connVars, circuitVars, queueVars,
                   failures>> /\ LoopFrame

(* Qos and Consume on the channel. *)
Consume ==
    /\ pc["loop"] = "consume"
    /\ \/ /\ got["loop"] \in alive /\ Works
          /\ CircuitSucceeds /\ Goto("loop", "dispatch") /\ subscribed' = TRUE
       \/ /\ Broken("loop")
          /\ CircuitFails /\ Goto("loop", "invalidate") /\ UNCHANGED subscribed
    /\ UNCHANGED <<got, dropped, sharedVars, connVars, buffer, handling, broker, on>> /\ LoopFrame

(* The broker delivers up to the prefetch, or cancels the consumer. *)
Unacked == {m \in Messages : broker[m] = "unacked" /\ on[m] = got["loop"]}

Deliver(m) ==
    /\ subscribed /\ got["loop"] \in alive
    /\ broker[m] = "ready" /\ Cardinality(Unacked) < Concurrency
    /\ broker' = [broker EXCEPT ![m] = "unacked"]
    /\ on' = [on EXCEPT ![m] = got["loop"]]
    /\ buffer' = buffer \cup {m}
    /\ UNCHANGED <<role, callerVars, sharedVars, connVars, circuitVars, subscribed,
                   handling, canceled, failures>>

BrokerCancels ==
    /\ subscribed /\ got["loop"] \in alive /\ Fails
    /\ subscribed' = FALSE
    /\ UNCHANGED <<role, callerVars, sharedVars, connVars, circuitVars, buffer, handling,
                   broker, on, canceled>>

(* dispatchDeliveries takes a delivery; group.Go waits for a free place. *)
Running(m, c) == <<m, c, FALSE>>
Settled(m, c) == <<m, c, TRUE>>

StartHandler ==
    /\ pc["loop"] = "dispatch" /\ Cardinality(handling) < Concurrency
    /\ \E m \in buffer :
          /\ buffer' = buffer \ {m}
          /\ handling' = handling \cup {Running(m, got["loop"])}
    /\ UNCHANGED <<pc, got, dropped, sharedVars, connVars, circuitVars, subscribed,
                   broker, on, failures>> /\ LoopFrame

(* The deliveries are closed with the channel, which loses what is buffered, *)
(* or after the last of a cancelled consumer.                               *)
Closed ==
    \/ got["loop"] \notin alive
    \/ ~subscribed /\ buffer = {}

(* Mutant: the session only ends when its deliveries do. *)
StopOnlyWhenClosed ==
    /\ pc["loop"] = "dispatch"
    /\ Closed /\ Goto("loop", "closing")
    /\ subscribed' = FALSE /\ buffer' = {}
    /\ UNCHANGED <<got, dropped, sharedVars, connVars, circuitVars, handling, broker, on,
                   failures>> /\ LoopFrame

(* The context is cancelled or the deliveries are closed; the consumer is    *)
(* cancelled either way, and what no handler has taken is left.              *)
StopDispatch ==
    /\ pc["loop"] = "dispatch"
    /\ \/ canceled /\ Goto("loop", "canceling")
       \/ Closed /\ Goto("loop", "closing")
    /\ subscribed' = FALSE /\ buffer' = {}
    /\ UNCHANGED <<got, dropped, sharedVars, connVars, circuitVars, handling, broker, on,
                   failures>> /\ LoopFrame

SessionEnds ==
    \/ pc["loop"] = "canceling" /\ Goto("loop", "ended")
    \/ pc["loop"] = "closing" /\ Goto("loop", "invalidate")

(* Mutant: the session ends while its handlers run. *)
NoWait ==
    /\ SessionEnds
    /\ UNCHANGED <<got, dropped, sharedVars, connVars, circuitVars, queueVars,
                   failures>> /\ LoopFrame

(* group.Wait, and the end of the session. *)
WaitHandlers ==
    /\ handling = {}
    /\ SessionEnds
    /\ UNCHANGED <<got, dropped, sharedVars, connVars, circuitVars, queueVars,
                   failures>> /\ LoopFrame

(* The rest of invalidateChannel. *)
CloseDropped ==
    /\ pc["loop"] = "close"
    /\ CloseChannels(dropped["loop"])
    /\ dropped' = [dropped EXCEPT !["loop"] = {}]
    /\ Goto("loop", "backoff")
    /\ UNCHANGED <<got, sharedVars, connChan, opened, circuitVars, subscribed, buffer,
                   handling, on, failures>> /\ LoopFrame

(* The select of ConsumerLoop: the delay passes or the context is done. *)
Backoff ==
    /\ pc["loop"] = "backoff"
    /\ \/ Goto("loop", "top")
       \/ canceled /\ Goto("loop", "ended")
    /\ UNCHANGED <<got, dropped, sharedVars, connVars, circuitVars, queueVars,
                   failures>> /\ LoopFrame

LoopStep ==
    \/ BeginCycle \/ EnsureChannel("loop", "consume") \/ ConnectChannel("loop", "consume")
    \/ Consume \/ StartHandler \/ StopDispatch \/ WaitHandlers
    \/ InvalidateChannel("loop") \/ CloseDropped \/ Backoff

(* processDelivery: the handler's result is acked or nacked without requeue; *)
(* on a channel that is gone neither reaches the broker.                     *)
Settle(m, c) ==
    /\ Running(m, c) \in handling
    /\ handling' = (handling \ {Running(m, c)}) \cup {Settled(m, c)}
    /\ IF c \in alive
       THEN \E result \in {"acked", "dead"} : broker' = [broker EXCEPT ![m] = result]
       ELSE UNCHANGED broker
    /\ UNCHANGED <<role, callerVars, sharedVars, connVars, circuitVars, subscribed, buffer,
                   on, canceled, failures>>

(* The goroutine ends and frees its place. *)
Return(m, c) ==
    /\ Settled(m, c) \in handling
    /\ handling' = handling \ {Settled(m, c)}
    /\ UNCHANGED <<role, callerVars, sharedVars, connVars, circuitVars, subscribed, buffer,
                   broker, on, canceled, failures>>

HandlerStep == \E m \in Messages, c \in Channels : Settle(m, c) \/ Return(m, c)

(* MultiQueueConsumer.Run cancels the loop's context on a signal. *)
Cancel ==
    /\ role = "worker" /\ ~canceled
    /\ canceled' = TRUE
    /\ UNCHANGED <<role, callerVars, sharedVars, connVars, circuitVars, queueVars, failures>>

(* Shutdown, once RunConsumers has returned: the channel is invalidated and *)
(* the connection closed with all its channels.  Its wait for the handlers  *)
(* can time out, so it is no guard.                                         *)
Shutdown ==
    /\ pc["loop"] = "ended"
    /\ channel' = 0 /\ publisher' = 0
    /\ CloseChannels(alive)
    /\ Goto("loop", "returned")
    /\ UNCHANGED <<got, dropped, watchers, connChan, opened, circuitVars, subscribed, buffer,
                   handling, on, failures>> /\ LoopFrame

Done == {"ok", "error"}

Finished ==
    /\ \/ role = "manager" /\ \A p \in Producers : pc[p] \in Done
       \/ pc["loop"] = "returned"
    /\ UNCHANGED vars

Next ==
    \/ \E p \in Producers : Call(p) \/ ProducerStep(p)
    \/ \E c \in Channels : Watcher(c)
    \/ \E m \in Messages : Deliver(m)
    \/ LoopStep \/ HandlerStep
    \/ Cancel \/ Shutdown
    \/ ChannelDies \/ BrokerCancels \/ CircuitCoolsDown
    \/ Finished

(* Goroutines run, handlers return, the broker delivers what it has to an   *)
(* open consumer, and the breaker's cooldown ends.                          *)
Fairness ==
    /\ \A p \in Producers : WF_vars(ProducerStep(p))
    /\ WF_vars(LoopStep) /\ WF_vars(HandlerStep) /\ WF_vars(Shutdown)
    /\ \A m \in Messages : WF_vars(Deliver(m))
    /\ WF_vars(CircuitCoolsDown)

Spec == Init /\ [][Next]_vars /\ Fairness

-----------------------------------------------------------------------------
(* A publish that returns nil has put its message into the broker, and one  *)
(* that returns an error has put it there at most once per attempt          *)
(* (ProducerDefault, over all its channel and circuit handling, is the      *)
(* publish CreateFetcherJob assumes).                                       *)
Promise == INSTANCE PublishContract WITH
    call   <- [p \in Producers |->
                  IF pc[p] \in Done \cup {"idle"} THEN pc[p] ELSE "calling"],
    copies <- sent

ImplementsPublish == Promise!Spec

(* While the circuit has had no reason to open, a failure costs one attempt *)
(* of one publish: the retry of ProducerDefault finds a working channel,    *)
(* whatever watchers and invalidations of dead channels are still to come.  *)
FailureCostsOneAttempt ==
    failures < Threshold =>
        MaxPublishAttempts * Cardinality({p \in Producers : pc[p] = "error"}) <= failures

(* The process never works on two deliveries of one message at a time:      *)
(* runConsumerCycle waits for its handlers before the channel is given up   *)
(* for another, on which the broker redelivers.                             *)
OneHandlerPerMessage ==
    \A h, k \in handling : h[1] = k[1] => h = k

(* When Shutdown has returned no handler runs that could not settle its     *)
(* message, and the broker has every unsettled message back: the order of   *)
(* MultiQueueConsumer.Run, not Shutdown's wait, which times out.            *)
ReturnedMeansClean ==
    pc["loop"] = "returned" =>
        /\ handling = {}
        /\ \A m \in Messages : broker[m] # "unacked"

(* Nobody waits for good, through closed channels, cancelled consumers and   *)
(* an open circuit: unless it is stopped the consumer settles every message *)
(* (ConsumerLoop), a stopped one returns wherever the signal found it, and a *)
(* publish that queued up for publishMu returns.                            *)
NobodyWaitsForGood ==
    /\ role = "worker" => <>(canceled \/ \A m \in Messages : broker[m] \in {"acked", "dead"})
    /\ canceled ~> pc["loop"] = "returned"
    /\ \A p \in Producers : pc[p] = "lock" ~> pc[p] \in Done
=============================================================================
