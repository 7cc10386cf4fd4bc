------------------------ MODULE RabbitAdapterProofs -------------------------
(***************************************************************************)
(* Proofs about RabbitAdapter for any number of concurrent publishers and   *)
(* messages, any prefetch, circuit threshold and number of attempts, and    *)
(* any number of failures and channels.                                     *)
(***************************************************************************)
EXTENDS RabbitAdapter, FiniteSetTheorems, TLAPS

ProducerPlaces == {"idle", "lock", "attempt", "ensure", "connect", "publisher", "send",
                   "confirm", "invalidate", "close", "ok", "error"}
LoopPlaces     == {"top", "ensure", "connect", "consume", "dispatch", "canceling",
                   "closing", "invalidate", "close", "backoff", "ended", "returned"}

PlacesOK ==
    /\ pc \in [Callers -> ProducerPlaces \cup LoopPlaces]
    /\ \A p \in Producers : pc[p] \in ProducerPlaces
    /\ pc["loop"] \in LoopPlaces

ChannelsOK ==
    /\ channel \in Nat /\ opened \in Nat /\ connChan \in Nat
    /\ alive \subseteq 1..opened
    /\ got \in [Callers -> Nat]
    /\ channel <= opened /\ \A c \in Callers : got[c] <= opened

CircuitOK == circuit \in {"closed", "open", "half-open"} /\ consecutive \in Nat

QueueOK ==
    /\ subscribed \in BOOLEAN
    /\ buffer \subseteq Messages
    /\ handling \subseteq Messages \X Nat \X BOOLEAN
    /\ on \in [Messages -> Nat]

BrokerOK == broker \in [Messages -> {"ready", "unacked", "acked", "dead"}]

TypeOK ==
    /\ role \in {"manager", "worker"}
    /\ PlacesOK /\ ChannelsOK /\ CircuitOK /\ QueueOK /\ BrokerOK
    /\ publishMu \in Producers \cup {None}
    /\ attempts \in [Producers -> Nat] /\ sent \in [Producers -> Nat]
    /\ canceled \in BOOLEAN
    /\ failures \in Nat

-----------------------------------------------------------------------------
(* Publishing. *)

(* Where a producer holds publishMu. *)
Publishing == {"attempt", "ensure", "connect", "publisher", "send", "confirm",
               "invalidate", "close"}

(* The mutex is held by the producer that is publishing. *)
MutexHeld == \A p \in Producers : publishMu = p <=> pc[p] \in Publishing

(* The copies sent never exceed the attempts begun. *)
CopiesCounted ==
    \A p \in Producers :
        /\ pc[p] \in {"idle", "lock"} => attempts[p] = 0 /\ sent[p] = 0
        /\ pc[p] \in Publishing => attempts[p] < MaxPublishAttempts
        /\ pc[p] \in {"attempt", "ensure", "connect", "publisher", "send"}
              => sent[p] <= attempts[p]
        /\ pc[p] \in {"confirm", "invalidate", "close"} => sent[p] <= attempts[p] + 1
        /\ pc[p] \in {"confirm", "ok"} => sent[p] > 0

PublishInv == MutexHeld /\ CopiesCounted

-----------------------------------------------------------------------------
(* Consuming. *)

Session == {"dispatch", "canceling", "closing"}

(* Handlers belong to the session's channel.  While it is open the broker   *)
(* has every message in the buffer or in a running handler out on it, and a *)
(* settled one is settled there too.                                        *)
SessionInv ==
    /\ pc["loop"] # "dispatch" => ~subscribed /\ buffer = {}
    /\ pc["loop"] \notin Session => handling = {}
    /\ \A h \in handling : h[2] = got["loop"] /\ h[1] \notin buffer
    /\ got["loop"] \in alive =>
          /\ \A m \in buffer : broker[m] = "unacked" /\ on[m] = got["loop"]
          /\ \A h \in handling :
                /\ h[3] = TRUE => broker[h[1]] \in {"acked", "dead"}
                /\ h[3] = FALSE => broker[h[1]] = "unacked" /\ on[h[1]] = got["loop"]

(* The broker keeps a message out only on an open channel. *)
OutOnOpenChannel == \A m \in Messages : broker[m] = "unacked" => on[m] \in alive

ReturnedIsSettled ==
    pc["loop"] = "returned" => \A m \in Messages : broker[m] # "unacked"

ConsumeInv == SessionInv /\ OneHandlerPerMessage /\ OutOnOpenChannel /\ ReturnedIsSettled

-----------------------------------------------------------------------------
(* Failures. *)

(* The attempt of p is lost, or will be: its channel has been closed. *)
Doomed(p) == pc[p] \in {"publisher", "send", "confirm"} /\ got[p] \notin alive
Lost(p)   == pc[p] \in {"invalidate", "close"} \/ Doomed(p)

Refused == {p \in Producers : pc[p] = "error"}

(* What the publishes in error have cost, and the one under way; and the    *)
(* failure that the breaker is still to count.                              *)
Charged == MaxPublishAttempts * Cardinality(Refused)
Spent   == IF publishMu = None THEN 0
           ELSE attempts[publishMu] + IF Lost(publishMu) THEN 1 ELSE 0
Pending == IF publishMu # None /\ Doomed(publishMu) THEN 1 ELSE 0

(* While p works on an open channel it is the adapter's own, so that neither *)
(* a watcher nor another caller closes it.                                  *)
ChannelIsOurs ==
    \A p \in Producers :
        pc[p] \in {"publisher", "send", "confirm"} /\ got[p] \in alive => channel = got[p]

FailuresPaidFor ==
    failures < Threshold =>
        /\ circuit = "closed"
        /\ consecutive + Pending <= failures
        /\ Charged + Spent <= failures

(* The Manager does not consume and the Worker does not publish. *)
RolesApart ==
    /\ role = "worker" => \A p \in Producers : pc[p] = "idle"
    /\ role = "manager" => pc["loop"] = "top"

FailureInv ==
    /\ RolesApart
    /\ role = "manager" => FailuresPaidFor
    /\ IsFiniteSet(Refused)
    /\ ChannelIsOurs

IInv == TypeOK /\ PublishInv /\ ConsumeInv /\ FailureInv
-----------------------------------------------------------------------------
(* Closing channels only takes channels away and messages back. *)
LEMMA CloseChannelsType ==
    ASSUME TypeOK, NEW S, CloseChannels(S)
    PROVE  alive' \subseteq alive /\ BrokerOK'
BY DEF CloseChannels, TypeOK, BrokerOK

(* A caller moves to one of its own places. *)
LEMMA GotoType ==
    ASSUME TypeOK, NEW c \in Callers, NEW next, Goto(c, next),
           c = "loop" => next \in LoopPlaces,
           c # "loop" => next \in ProducerPlaces
    PROVE  PlacesOK'
BY AdapterAssumption DEF Goto, TypeOK, PlacesOK, Callers

LEMMA CircuitType ==
    ASSUME TypeOK, CircuitFails \/ CircuitSucceeds \/ UNCHANGED circuitVars
    PROVE  CircuitOK'
BY DEF CircuitFails, CircuitSucceeds, circuitVars, TypeOK, CircuitOK

LEMMA FailuresType ==
    ASSUME TypeOK, Works \/ Fails
    PROVE  failures' \in Nat
BY DEF Works, Fails, TypeOK

(* Channels and their users, when channels close and nothing opens. *)
LEMMA ChannelsShrink ==
    ASSUME TypeOK, alive' \subseteq alive, UNCHANGED <<opened, connChan, got>>,
           channel' \in {channel, 0}
    PROVE  ChannelsOK'
BY DEF TypeOK, ChannelsOK

(* The steps of ensureChannel and invalidateChannel keep the types. *)
LEMMA ChannelStepType ==
    ASSUME TypeOK, NEW c \in Callers, NEW next,
           c = "loop" => next = "consume", c # "loop" => next = "publisher",
           EnsureChannel(c, next) \/ ConnectChannel(c, next) \/ InvalidateChannel(c)
    PROVE  TypeOK'
<1> USE AdapterAssumption
<1>0. next \in {"consume", "publisher"} /\ (c # "loop" => c \in Producers)
  BY DEF Callers
<1>1. CASE EnsureChannel(c, next)
  <2>1. PICK n \in {next, "connect"} : Goto(c, n)
    BY <1>1 DEF EnsureChannel
  <2>2. PlacesOK'
    BY <2>1, GotoType DEF LoopPlaces, ProducerPlaces
  <2>3. ChannelsOK'
    BY <1>1 DEF EnsureChannel, TypeOK, ChannelsOK, sharedVars, connVars
  <2> QED BY <1>1, <2>2, <2>3 DEF EnsureChannel, TypeOK, CircuitOK, QueueOK, BrokerOK,
                                 circuitVars, queueVars
<1>2. CASE ConnectChannel(c, next)
  <2>1. PICK n \in {next, "invalidate"} : Goto(c, n)
    BY <1>2 DEF ConnectChannel
  <2>2. PlacesOK'
    BY <2>1, GotoType DEF LoopPlaces, ProducerPlaces
  <2>3. CircuitOK' /\ failures' \in Nat
    BY <1>2, CircuitType, FailuresType DEF ConnectChannel
  <2>4. /\ channel' \in Nat /\ opened' \in Nat /\ connChan' \in Nat
        /\ alive' \subseteq 1..opened' /\ channel' <= opened' /\ opened <= opened'
        /\ \/ got' = got
           \/ got' = [got EXCEPT ![c] = channel']
    <3> USE DEF ChannelsOK
    <3>1. CASE UNCHANGED <<channel, connVars>> /\ got' \in {got, [got EXCEPT ![c] = channel]}
      BY <3>1 DEF TypeOK, connVars
    <3>2. CASE \E ch \in Channels : /\ OpenChannel(ch) /\ channel' = ch
                                    /\ got' = [got EXCEPT ![c] = ch]
      <4>1. CASE connChan \in alive
        <5>1. /\ UNCHANGED connVars /\ channel' = connChan
              /\ got' = [got EXCEPT ![c] = channel']
          BY <3>2, <4>1 DEF OpenChannel
        <5>2. connChan \in 1..opened
          BY <4>1 DEF TypeOK
        <5> QED BY <5>1, <5>2 DEF TypeOK, connVars
      <4>2. CASE connChan \notin alive
        <5>1. /\ opened' = opened + 1 /\ channel' = opened' /\ connChan' = opened'
              /\ alive' = alive \cup {opened'} /\ got' = [got EXCEPT ![c] = channel']
          BY <3>2, <4>2 DEF OpenChannel
        <5>2. opened \in Nat /\ \A x \in alive : x \in 1..opened
          BY DEF TypeOK
        <5>3. \A x \in alive' : x \in 1..opened'
          BY <5>1, <5>2
        <5> QED BY <5>1, <5>2, <5>3
      <4> QED BY <4>1, <4>2
    <3> QED BY <1>2, <3>1, <3>2 DEF ConnectChannel
  <2>5. got' \in [Callers -> Nat] /\ \A d \in Callers : got'[d] <= opened'
    BY <2>4 DEF TypeOK, ChannelsOK
  <2> QED BY <1>2, <2>2, <2>3, <2>4, <2>5
          DEF ConnectChannel, TypeOK, ChannelsOK, QueueOK, BrokerOK, queueVars
<1>3. CASE InvalidateChannel(c)
  <2>1. PlacesOK'
    BY <1>3, GotoType DEF InvalidateChannel, LoopPlaces, ProducerPlaces
  <2>2. ChannelsOK'
    BY <1>3, ChannelsShrink DEF InvalidateChannel, connVars
  <2> QED BY <1>3, <2>1, <2>2 DEF InvalidateChannel, TypeOK, CircuitOK, QueueOK, BrokerOK,
                                 circuitVars, queueVars
<1> QED BY <1>1, <1>2, <1>3

(* The other steps of ProducerDefault keep the types. *)
LEMMA ProducerStepType ==
    ASSUME TypeOK, NEW p \in Producers, Call(p) \/ ProducerStep(p)
    PROVE  TypeOK'
<1> USE AdapterAssumption
<1>0. p \in Callers /\ p # "loop"
  BY DEF Callers
<1>1. CASE EnsureChannel(p, "publisher") \/ ConnectChannel(p, "publisher") \/ InvalidateChannel(p)
  BY <1>0, <1>1, ChannelStepType
<1>2. CASE Call(p) \/ Lock(p) \/ Attempt(p)
  <2>1. PICK n \in {"error", "lock", "attempt", "invalidate", "ensure"} : Goto(p, n)
    BY <1>2 DEF Call, Lock, Attempt
  <2>2. PlacesOK'
    BY <1>0, <2>1, GotoType DEF ProducerPlaces
  <2> QED BY <1>2, <2>2 DEF Call, Lock, Attempt, ProducerFrame, TypeOK, ChannelsOK, CircuitOK,
                       QueueOK, BrokerOK, sharedVars, connVars, circuitVars
<1>3. CASE ConfirmablePublisher(p)
  <2>1. PICK n \in {"send", "invalidate"} : Goto(p, n)
    BY <1>3 DEF ConfirmablePublisher, AttemptFails
  <2>2. PlacesOK'
    BY <1>0, <2>1, GotoType DEF ProducerPlaces
  <2>3. CircuitOK' /\ failures' \in Nat
    BY <1>3, CircuitType, FailuresType DEF ConfirmablePublisher, AttemptFails, Broken
  <2>4. alive' \subseteq alive /\ BrokerOK'
    BY <1>3, CloseChannelsType DEF ConfirmablePublisher, TypeOK, BrokerOK
  <2>5. ChannelsOK'
    BY <1>3, <2>4, ChannelsShrink DEF ConfirmablePublisher
  <2> QED BY <1>3, <2>2, <2>3, <2>4, <2>5
          DEF ConfirmablePublisher, ProducerFrame, TypeOK, QueueOK
<1>4. CASE Send(p) \/ Confirm(p)
  <2>1. PICK n \in {"confirm", "invalidate", "ok"} : Goto(p, n)
    BY <1>4 DEF Send, Confirm, AttemptFails
  <2>2. PlacesOK'
    BY <1>0, <2>1, GotoType DEF ProducerPlaces
  <2>3. CircuitOK' /\ failures' \in Nat
    BY <1>4, CircuitType, FailuresType DEF Send, Confirm, AttemptFails, Broken, Works
  <2>4. sent' \in [Producers -> Nat]
    BY <1>4 DEF Send, Confirm, TypeOK
  <2> QED BY <1>4, <2>2, <2>3, <2>4
          DEF Send, Confirm, ProducerFrame, TypeOK, QueueOK, BrokerOK, ChannelsOK,
              sharedVars, connVars
<1>5. CASE NextAttempt(p)
  <2>1. PICK n \in {"attempt", "error"} : Goto(p, n)
    BY <1>5 DEF NextAttempt
  <2>2. PlacesOK'
    BY <1>0, <2>1, GotoType DEF ProducerPlaces
  <2>3. alive' \subseteq alive /\ BrokerOK'
    BY <1>5, CloseChannelsType DEF NextAttempt
  <2>4. ChannelsOK'
    BY <1>5, <2>3, ChannelsShrink DEF NextAttempt, sharedVars
  <2> QED BY <1>5, <2>2, <2>3, <2>4
          DEF NextAttempt, ProducerFrame, TypeOK, CircuitOK, QueueOK, circuitVars
<1> QED BY <1>1, <1>2, <1>3, <1>4, <1>5 DEF ProducerStep

(* So do the consumer loop, the handlers and the shutdown. *)
LEMMA ConsumerStepType ==
    ASSUME TypeOK, LoopStep \/ HandlerStep \/ Cancel \/ Shutdown
    PROVE  TypeOK'
<1> USE AdapterAssumption
<1>0. "loop" \in Callers
  BY DEF Callers
<1>1. CASE EnsureChannel("loop", "consume") \/ ConnectChannel("loop", "consume")
             \/ InvalidateChannel("loop")
  BY <1>0, <1>1, ChannelStepType
<1>2. CASE BeginCycle \/ WaitHandlers \/ Backoff
  <2>1. PICK n \in {"ended", "backoff", "ensure", "invalidate", "top"} : Goto("loop", n)
    BY <1>2 DEF BeginCycle, WaitHandlers, SessionEnds, Backoff
  <2>2. PlacesOK'
    BY <1>0, <2>1, GotoType DEF LoopPlaces
  <2> QED BY <1>2, <2>2 DEF BeginCycle, WaitHandlers, Backoff, LoopFrame, TypeOK, ChannelsOK,
                       CircuitOK, QueueOK, BrokerOK, sharedVars, connVars, circuitVars, queueVars
<1>3. CASE Consume
  <2>1. PICK n \in {"dispatch", "invalidate"} : Goto("loop", n)
    BY <1>3 DEF Consume
  <2>2. PlacesOK'
    BY <1>0, <2>1, GotoType DEF LoopPlaces
  <2>3. CircuitOK' /\ failures' \in Nat
    BY <1>3, CircuitType, FailuresType DEF Consume, Broken
  <2> QED BY <1>3, <2>2, <2>3 DEF Consume, LoopFrame, TypeOK, ChannelsOK, QueueOK, BrokerOK,
                             sharedVars, connVars
<1>4. CASE StartHandler
  <2>1. handling' \subseteq Messages \X Nat \X BOOLEAN /\ buffer' \subseteq Messages
    <3>1. PICK m \in buffer : /\ buffer' = buffer \ {m}
                              /\ handling' = handling \cup {<<m, got["loop"], FALSE>>}
      BY <1>4 DEF StartHandler, Running
    <3>2. m \in Messages /\ got["loop"] \in Nat
      BY <1>0 DEF TypeOK, QueueOK, ChannelsOK
    <3>3. <<m, got["loop"], FALSE>> \in Messages \X Nat \X BOOLEAN
      BY <3>2
    <3> QED BY <3>1, <3>3 DEF TypeOK, QueueOK
  <2> QED BY <1>4, <2>1 DEF StartHandler, LoopFrame, TypeOK, PlacesOK, ChannelsOK, CircuitOK,
                       QueueOK, BrokerOK, sharedVars, connVars, circuitVars
<1>5. CASE StopDispatch
  <2>1. PICK n \in {"canceling", "closing"} : Goto("loop", n)
    BY <1>5 DEF StopDispatch
  <2>2. PlacesOK'
    BY <1>0, <2>1, GotoType DEF LoopPlaces
  <2> QED BY <1>5, <2>2 DEF StopDispatch, LoopFrame, TypeOK, ChannelsOK, CircuitOK, QueueOK,
                       BrokerOK, sharedVars, connVars, circuitVars
<1>6. CASE CloseDropped \/ Shutdown
  <2>1. PICK n \in {"backoff", "returned"} : Goto("loop", n)
    BY <1>6 DEF CloseDropped, Shutdown
  <2>2. PlacesOK'
    BY <1>0, <2>1, GotoType DEF LoopPlaces
  <2>3. alive' \subseteq alive /\ BrokerOK'
    BY <1>6, CloseChannelsType DEF CloseDropped, Shutdown
  <2>4. ChannelsOK'
    BY <1>6, <2>3, ChannelsShrink DEF CloseDropped, Shutdown, sharedVars
  <2> QED BY <1>6, <2>2, <2>3, <2>4 DEF CloseDropped, Shutdown, LoopFrame, TypeOK, CircuitOK,
                                   QueueOK, circuitVars
<1>7. ASSUME NEW m \in Messages, NEW c \in Channels, Settle(m, c) \/ Return(m, c)
      PROVE  TypeOK'
  <2>1. c \in Nat
    BY DEF Channels
  <2>2. handling' \subseteq Messages \X Nat \X BOOLEAN
    <3>1. <<m, c, TRUE>> \in Messages \X Nat \X BOOLEAN
      BY <2>1
    <3>2. handling' \subseteq handling \cup {<<m, c, TRUE>>}
      BY <1>7 DEF Settle, Return, Settled
    <3> QED BY <3>1, <3>2 DEF TypeOK, QueueOK
  <2>3. BrokerOK'
    BY <1>7 DEF Settle, Return, TypeOK, BrokerOK
  <2> QED BY <1>7, <2>2, <2>3 DEF Settle, Return, TypeOK, PlacesOK, ChannelsOK, CircuitOK,
                             QueueOK, callerVars, sharedVars, connVars, circuitVars
<1>8. CASE Cancel
  BY <1>8 DEF Cancel, TypeOK, PlacesOK, ChannelsOK, CircuitOK, QueueOK, BrokerOK,
              callerVars, sharedVars, connVars, circuitVars, queueVars
<1> QED BY <1>1, <1>2, <1>3, <1>4, <1>5, <1>6, <1>7, <1>8 DEF LoopStep, HandlerStep

(* And so do the connection, the broker and the breaker. *)
LEMMA EnvironmentStepType ==
    ASSUME TypeOK,
           \/ \E c \in Channels : Watcher(c)
           \/ \E m \in Messages : Deliver(m)
           \/ ChannelDies \/ BrokerCancels \/ CircuitCoolsDown \/ UNCHANGED vars
    PROVE  TypeOK'
<1>1. ASSUME NEW c \in Channels, Watcher(c)
      PROVE  TypeOK'
  <2>1. alive' \subseteq alive /\ BrokerOK'
    BY <1>1, CloseChannelsType DEF Watcher, TypeOK, BrokerOK
  <2>2. ChannelsOK'
    BY <1>1, <2>1, ChannelsShrink DEF Watcher, callerVars
  <2> QED BY <1>1, <2>1, <2>2 DEF Watcher, TypeOK, PlacesOK, CircuitOK, QueueOK,
                             callerVars, circuitVars
<1>2. ASSUME NEW m \in Messages, Deliver(m)
      PROVE  TypeOK'
  <2>1. BrokerOK' /\ QueueOK'
    BY <1>2 DEF Deliver, TypeOK, BrokerOK, QueueOK, ChannelsOK, Callers
  <2> QED BY <1>2, <2>1 DEF Deliver, TypeOK, PlacesOK, ChannelsOK, CircuitOK,
                       callerVars, sharedVars, connVars, circuitVars
<1>3. CASE ChannelDies
  <2>1. alive' \subseteq alive /\ BrokerOK'
    BY <1>3, CloseChannelsType DEF ChannelDies
  <2>2. ChannelsOK' /\ failures' \in Nat
    BY <1>3, <2>1, ChannelsShrink, FailuresType DEF ChannelDies, sharedVars, callerVars
  <2> QED BY <1>3, <2>1, <2>2 DEF ChannelDies, TypeOK, PlacesOK, CircuitOK, QueueOK,
                             callerVars, circuitVars
<1>4. CASE BrokerCancels \/ CircuitCoolsDown
  <2>1. failures' \in Nat /\ CircuitOK'
    BY <1>4, FailuresType DEF BrokerCancels, CircuitCoolsDown, TypeOK, CircuitOK, circuitVars
  <2> QED BY <1>4, <2>1 DEF BrokerCancels, CircuitCoolsDown, TypeOK, PlacesOK, ChannelsOK, QueueOK,
                       BrokerOK, callerVars, sharedVars, connVars, queueVars
<1>5. CASE UNCHANGED vars
  BY <1>5 DEF vars, TypeOK, PlacesOK, ChannelsOK, CircuitOK, QueueOK, BrokerOK,
              callerVars, sharedVars, connVars, circuitVars, queueVars
<1> QED BY <1>1, <1>2, <1>3, <1>4, <1>5

LEMMA TypeStep ==
    ASSUME TypeOK, [Next]_vars
    PROVE  TypeOK'
BY ProducerStepType, ConsumerStepType, EnvironmentStepType DEF Next, Finished

-----------------------------------------------------------------------------
(* Steps of the consumer, the connection and the broker do not publish. *)
LEMMA OthersDoNotPublish ==
    ASSUME TypeOK, [Next]_vars, ~\E p \in Producers : Call(p) \/ ProducerStep(p)
    PROVE  /\ UNCHANGED <<attempts, sent, publishMu>>
           /\ \A p \in Producers : pc'[p] = pc[p] /\ got'[p] = got[p]
<1> USE AdapterAssumption DEF TypeOK, PlacesOK, ChannelsOK, Callers
<1>1. CASE LoopStep
  <2>1. CASE EnsureChannel("loop", "consume") \/ ConnectChannel("loop", "consume")
               \/ InvalidateChannel("loop")
    BY <2>1 DEF EnsureChannel, ConnectChannel, InvalidateChannel, Goto
  <2>2. CASE BeginCycle \/ Consume \/ StartHandler \/ StopDispatch \/ WaitHandlers
               \/ CloseDropped \/ Backoff
    BY <2>2 DEF BeginCycle, Consume, StartHandler, StopDispatch, WaitHandlers, SessionEnds,
                CloseDropped, Backoff, Goto, LoopFrame
  <2> QED BY <1>1, <2>1, <2>2 DEF LoopStep
<1>2. CASE HandlerStep \/ Cancel \/ Shutdown
  BY <1>2 DEF HandlerStep, Settle, Return, Cancel, Shutdown, Goto, LoopFrame, callerVars
<1>3. CASE \/ \E c \in Channels : Watcher(c)
           \/ \E m \in Messages : Deliver(m)
           \/ ChannelDies \/ BrokerCancels \/ CircuitCoolsDown \/ UNCHANGED vars
  BY <1>3 DEF Watcher, Deliver, ChannelDies, BrokerCancels, CircuitCoolsDown, callerVars, vars
<1> QED BY <1>1, <1>2, <1>3 DEF Next, Finished

(* The facts about publishing only depend on these variables. *)
LEMMA PublishFrame ==
    ASSUME PublishInv, UNCHANGED <<attempts, sent, publishMu>>,
           \A p \in Producers : pc'[p] = pc[p]
    PROVE  PublishInv'
BY DEF PublishInv, MutexHeld, CopiesCounted

(* The others' facts when one producer moves and keeps or frees the mutex. *)
LEMMA OneProducerMoves ==
    ASSUME TypeOK, PublishInv, NEW p \in Producers, NEW next, Goto(p, next),
           \A q \in Producers : q # p => attempts'[q] = attempts[q] /\ sent'[q] = sent[q],
           next \in Publishing <=> publishMu' = p,
           \/ publishMu' = publishMu
           \/ publishMu \in {p, None} /\ publishMu' \in {p, None},
           next \in {"idle", "lock"} => attempts'[p] = 0 /\ sent'[p] = 0,
           next \in Publishing => attempts'[p] < MaxPublishAttempts,
           next \in {"attempt", "ensure", "connect", "publisher", "send"}
              => sent'[p] <= attempts'[p],
           next \in {"confirm", "invalidate", "close"} => sent'[p] <= attempts'[p] + 1,
           next \in {"confirm", "ok"} => sent'[p] > 0
    PROVE  PublishInv'
<1>1. pc'[p] = next /\ \A q \in Producers : q # p => pc'[q] = pc[q]
  BY DEF Goto, TypeOK, PlacesOK, Callers
<1>2. MutexHeld'
  BY <1>1, AdapterAssumption DEF PublishInv, MutexHeld
<1>3. CopiesCounted'
  BY <1>1 DEF PublishInv, CopiesCounted
<1> QED BY <1>2, <1>3 DEF PublishInv

LEMMA PublishStep ==
    ASSUME TypeOK, PublishInv, [Next]_vars
    PROVE  PublishInv'
<1> USE AdapterAssumption
<1>1. ASSUME NEW p \in Producers, Call(p) \/ ProducerStep(p)
      PROVE  PublishInv'
  <2>0. /\ attempts[p] \in Nat /\ sent[p] \in Nat /\ p # None
        /\ publishMu = p <=> pc[p] \in Publishing
    BY DEF TypeOK, PublishInv, MutexHeld
  <2> USE DEF Publishing
  <2>1. CASE Call(p)
    <3>1. PICK n \in {"error", "lock"} : Goto(p, n)
      BY <2>1 DEF Call
    <3>2. pc[p] = "idle" /\ UNCHANGED <<attempts, sent, publishMu>>
      BY <2>1 DEF Call
    <3> QED BY <2>0, <3>1, <3>2, OneProducerMoves DEF PublishInv, CopiesCounted
  <2>2. CASE Lock(p)
    <3>1. /\ pc[p] = "lock" /\ UNCHANGED <<attempts, sent>> /\ publishMu = None
          /\ publishMu' = p /\ Goto(p, "attempt")
      BY <2>2 DEF Lock
    <3> QED BY <2>0, <3>1, OneProducerMoves DEF PublishInv, CopiesCounted
  <2>3. CASE Attempt(p) \/ EnsureChannel(p, "publisher") \/ ConnectChannel(p, "publisher")
               \/ InvalidateChannel(p)
    <3>1. PICK n \in {"ensure", "connect", "publisher", "invalidate", "close"} : Goto(p, n)
      BY <2>3 DEF Attempt, EnsureChannel, ConnectChannel, InvalidateChannel
    <3>2. /\ UNCHANGED <<attempts, sent, publishMu>>
          /\ \/ pc[p] \in {"attempt", "ensure", "connect"}
             \/ pc[p] = "invalidate" /\ Goto(p, "close")
      BY <2>3 DEF Attempt, EnsureChannel, ConnectChannel, InvalidateChannel
    <3>3. CASE pc[p] \in {"attempt", "ensure", "connect"}
      BY <2>0, <3>1, <3>2, <3>3, OneProducerMoves DEF PublishInv, CopiesCounted
    <3>4. CASE pc[p] = "invalidate" /\ Goto(p, "close")
      BY <2>0, <3>2, <3>4, OneProducerMoves DEF PublishInv, CopiesCounted
    <3> QED BY <3>2, <3>3, <3>4
  <2>4. CASE ConfirmablePublisher(p)
    <3>1. PICK n \in {"send", "invalidate"} : Goto(p, n)
      BY <2>4 DEF ConfirmablePublisher, AttemptFails
    <3>2. pc[p] = "publisher" /\ UNCHANGED <<attempts, sent, publishMu>>
      BY <2>4 DEF ConfirmablePublisher
    <3> QED BY <2>0, <3>1, <3>2, OneProducerMoves DEF PublishInv, CopiesCounted
  <2>5. CASE Send(p)
    <3>1. /\ pc[p] = "send" /\ UNCHANGED <<attempts, publishMu>>
          /\ \/ sent' = [sent EXCEPT ![p] = sent[p] + 1] /\ Goto(p, "confirm")
             \/ sent' = sent /\ Goto(p, "invalidate")
      BY <2>5 DEF Send, AttemptFails
    <3>2. \A q \in Producers : q # p => sent'[q] = sent[q]
      BY <3>1 DEF TypeOK
    <3>3. CASE sent' = [sent EXCEPT ![p] = sent[p] + 1] /\ Goto(p, "confirm")
      <4>1. sent'[p] = sent[p] + 1
        BY <3>3 DEF TypeOK
      <4> QED BY <2>0, <3>1, <3>2, <3>3, <4>1, OneProducerMoves DEF PublishInv, CopiesCounted
    <3>4. CASE sent' = sent /\ Goto(p, "invalidate")
      BY <2>0, <3>1, <3>2, <3>4, OneProducerMoves DEF PublishInv, CopiesCounted
    <3> QED BY <3>1, <3>3, <3>4
  <2>6. CASE Confirm(p)
    <3>1. /\ pc[p] = "confirm" /\ UNCHANGED <<attempts, sent>>
          /\ \/ Goto(p, "ok") /\ publishMu' = None
             \/ Goto(p, "invalidate") /\ publishMu' = publishMu
      BY <2>6 DEF Confirm, AttemptFails
    <3> QED BY <2>0, <3>1, OneProducerMoves DEF PublishInv, CopiesCounted
  <2>7. CASE NextAttempt(p)
    <3>1. /\ pc[p] = "close" /\ UNCHANGED sent
          /\ attempts' = [attempts EXCEPT ![p] = attempts[p] + 1]
          /\ IF attempts[p] + 1 < MaxPublishAttempts
             THEN Goto(p, "attempt") /\ UNCHANGED publishMu
             ELSE Goto(p, "error") /\ publishMu' = None
      BY <2>7 DEF NextAttempt
    <3>2. /\ attempts'[p] = attempts[p] + 1
          /\ \A q \in Producers : q # p => attempts'[q] = attempts[q]
      BY <3>1 DEF TypeOK
    <3> QED BY <2>0, <3>1, <3>2, OneProducerMoves DEF PublishInv, CopiesCounted
  <2> QED BY <1>1, <2>1, <2>2, <2>3, <2>4, <2>5, <2>6, <2>7 DEF ProducerStep
<1>2. CASE ~\E p \in Producers : Call(p) \/ ProducerStep(p)
  BY <1>2, OthersDoNotPublish, PublishFrame
<1> QED BY <1>1, <1>2

-----------------------------------------------------------------------------
(* What a step may do to the channels and, through them, at the broker. *)
ConnectionEffect ==
    \/ UNCHANGED <<alive, broker>>
    \/ \E S : CloseChannels(S)
    \/ alive' = alive \cup {opened + 1} /\ UNCHANGED broker

LEMMA ConnectEffect ==
    ASSUME NEW c, NEW next, ConnectChannel(c, next)
    PROVE  ConnectionEffect /\ UNCHANGED <<subscribed, buffer, handling, on, broker>>
BY DEF ConnectChannel, ConnectionEffect, OpenChannel, connVars, queueVars

LEMMA ProducerEffect ==
    ASSUME TypeOK, NEW p \in Producers, Call(p) \/ ProducerStep(p)
    PROVE  /\ ConnectionEffect /\ UNCHANGED <<subscribed, buffer, handling, on>>
           /\ pc'["loop"] = pc["loop"] /\ got'["loop"] = got["loop"]
<1> USE AdapterAssumption
<1>0. ASSUME NEW n, Goto(p, n) PROVE pc'["loop"] = pc["loop"]
  BY <1>0 DEF Goto, TypeOK, PlacesOK, Callers
<1>1. CASE Call(p) \/ Lock(p) \/ Attempt(p)
  BY <1>0, <1>1 DEF Call, Lock, Attempt, ProducerFrame, ConnectionEffect, connVars
<1>2. CASE EnsureChannel(p, "publisher") \/ InvalidateChannel(p)
  BY <1>0, <1>2 DEF EnsureChannel, InvalidateChannel, ConnectionEffect, connVars, queueVars,
                    TypeOK, ChannelsOK, Callers
<1>3. CASE ConnectChannel(p, "publisher")
  BY <1>0, <1>3, ConnectEffect DEF ConnectChannel, TypeOK, ChannelsOK, Callers
<1>4. CASE ConfirmablePublisher(p)
  BY <1>0, <1>4 DEF ConfirmablePublisher, AttemptFails, ProducerFrame, ConnectionEffect
<1>5. CASE Send(p) \/ Confirm(p)
  BY <1>0, <1>5 DEF Send, Confirm, AttemptFails, ProducerFrame, ConnectionEffect, connVars
<1>6. CASE NextAttempt(p)
  BY <1>0, <1>6 DEF NextAttempt, ProducerFrame, ConnectionEffect
<1> QED BY <1>1, <1>2, <1>3, <1>4, <1>5, <1>6 DEF ProducerStep

(* The broker's side of a change of channels. *)
LEMMA ConnectionKeepsBroker ==
    ASSUME TypeOK, OutOnOpenChannel, ConnectionEffect, UNCHANGED on
    PROVE  /\ OutOnOpenChannel'
           /\ \A m \in Messages : broker'[m] = "unacked" => broker[m] = "unacked"
           /\ \A m \in Messages : broker[m] \in {"acked", "dead"} => broker'[m] = broker[m]
           /\ \A m \in Messages : broker[m] = "unacked" /\ on[m] \in alive' =>
                                      broker'[m] = broker[m]
           /\ \A c \in 0..opened : c \in alive' => c \in alive
<1>1. CASE UNCHANGED <<alive, broker>>
  BY <1>1 DEF OutOnOpenChannel
<1>2. CASE alive' = alive \cup {opened + 1} /\ UNCHANGED broker
  BY <1>2 DEF OutOnOpenChannel, TypeOK, ChannelsOK
<1>3. ASSUME NEW S, CloseChannels(S)
      PROVE  /\ OutOnOpenChannel'
             /\ \A m \in Messages : broker'[m] = "unacked" => broker[m] = "unacked"
             /\ \A m \in Messages : broker[m] \in {"acked", "dead"} => broker'[m] = broker[m]
             /\ \A m \in Messages : broker[m] = "unacked" /\ on[m] \in alive' =>
                                        broker'[m] = broker[m]
             /\ \A c \in 0..opened : c \in alive' => c \in alive
  BY <1>3 DEF CloseChannels, OutOnOpenChannel
<1> QED BY <1>1, <1>2, <1>3 DEF ConnectionEffect

(* A change of channels under a session. *)
LEMMA ConnectionKeepsSession ==
    ASSUME TypeOK, ConsumeInv, ConnectionEffect, UNCHANGED <<subscribed, buffer, handling, on>>,
           pc'["loop"] = pc["loop"], got'["loop"] = got["loop"]
    PROVE  ConsumeInv'
<1>1. got["loop"] \in 0..opened
  BY DEF TypeOK, ChannelsOK, Callers
<1>2. \A h \in handling : h[1] \in Messages
  BY DEF TypeOK, QueueOK
<1>3. SessionInv'
  BY <1>1, <1>2, ConnectionKeepsBroker DEF ConsumeInv, SessionInv, TypeOK, QueueOK
<1>4. OutOnOpenChannel' /\ ReturnedIsSettled'
  BY ConnectionKeepsBroker DEF ConsumeInv, ReturnedIsSettled
<1> QED BY <1>3, <1>4 DEF ConsumeInv, OneHandlerPerMessage

(* The loop outside of a session: it has no handlers and no deliveries. *)
LEMMA IdleKeepsSession ==
    ASSUME TypeOK, ConsumeInv, ConnectionEffect, UNCHANGED <<subscribed, buffer, handling, on>>,
           handling = {}, pc["loop"] # "dispatch",
           pc'["loop"] # "returned"
    PROVE  ConsumeInv'
<1>1. SessionInv'
  BY DEF ConsumeInv, SessionInv
<1>2. OutOnOpenChannel' /\ ReturnedIsSettled'
  BY ConnectionKeepsBroker DEF ConsumeInv, ReturnedIsSettled
<1> QED BY <1>1, <1>2 DEF ConsumeInv, OneHandlerPerMessage

LEMMA SessionStep ==
    ASSUME TypeOK, ConsumeInv,
           Consume \/ StartHandler \/ StopDispatch \/ BrokerCancels \/ Shutdown
    PROVE  ConsumeInv'
<1> USE AdapterAssumption
<1>0. ASSUME NEW n, Goto("loop", n) PROVE pc'["loop"] = n
  BY <1>0 DEF Goto, TypeOK, PlacesOK, Callers
<1>1. CASE Consume
  <2>1. /\ handling = {} /\ buffer = {} /\ pc'["loop"] \in {"dispatch", "invalidate"}
        /\ UNCHANGED <<buffer, handling, alive, broker, on>>
        /\ pc'["loop"] # "dispatch" => subscribed' = subscribed
        /\ ~subscribed
    BY <1>0, <1>1 DEF Consume, ConsumeInv, SessionInv, Session, connVars
  <2> QED BY <2>1 DEF ConsumeInv, SessionInv, OneHandlerPerMessage, OutOnOpenChannel,
                      ReturnedIsSettled, Session
<1>2. CASE StartHandler
  <2>1. PICK m \in buffer : /\ buffer' = buffer \ {m}
                            /\ handling' = handling \cup {<<m, got["loop"], FALSE>>}
    BY <1>2 DEF StartHandler, Running
  <2>2. /\ pc["loop"] = "dispatch"
        /\ UNCHANGED <<pc, got, subscribed, alive, broker, on>>
    BY <1>2 DEF StartHandler, connVars
  <2>3. \A h \in handling : h[1] # m
    BY DEF ConsumeInv, SessionInv
  <2> DEFINE new == <<m, got["loop"], FALSE>>
  <2>a. \A h \in handling' : \/ h \in handling /\ h[1] # m
                             \/ h = new /\ h[1] = m /\ h[2] = got["loop"] /\ h[3] = FALSE
    <3>1. new[1] = m /\ new[2] = got["loop"] /\ new[3] = FALSE
      OBVIOUS
    <3>2. handling' = handling \cup {new}
      BY <2>1
    <3> HIDE DEF new
    <3> QED BY <3>1, <3>2, <2>3
  <2>b. m \notin buffer' /\ buffer' \subseteq buffer
    BY <2>1
  <2> HIDE DEF new
  <2>4. SessionInv'
    BY <2>a, <2>b, <2>2 DEF ConsumeInv, SessionInv, Session
  <2>5. OneHandlerPerMessage'
    BY <2>a DEF ConsumeInv, OneHandlerPerMessage
  <2> QED BY <2>2, <2>4, <2>5 DEF ConsumeInv, OutOnOpenChannel, ReturnedIsSettled
<1>3. CASE StopDispatch
  <2>1. /\ pc'["loop"] \in {"canceling", "closing"} /\ subscribed' = FALSE /\ buffer' = {}
        /\ UNCHANGED <<got, handling, alive, broker, on>>
    BY <1>0, <1>3 DEF StopDispatch, connVars
  <2> QED BY <2>1 DEF ConsumeInv, SessionInv, OneHandlerPerMessage, OutOnOpenChannel,
                      ReturnedIsSettled, Session
<1>4. CASE BrokerCancels
  BY <1>4 DEF BrokerCancels, callerVars, connVars, ConsumeInv, SessionInv,
              OneHandlerPerMessage, OutOnOpenChannel, ReturnedIsSettled, Session
<1>5. CASE Shutdown
  <2>1. /\ pc["loop"] = "ended" /\ pc'["loop"] = "returned" /\ CloseChannels(alive)
        /\ UNCHANGED <<got, subscribed, buffer, handling, on>>
    BY <1>0, <1>5 DEF Shutdown
  <2>2. handling = {} /\ buffer = {} /\ ~subscribed
    BY <2>1 DEF ConsumeInv, SessionInv, Session
  <2>3. \A m \in Messages : broker'[m] # "unacked"
    BY <2>1 DEF ConsumeInv, OutOnOpenChannel, CloseChannels
  <2> QED BY <2>1, <2>2, <2>3 DEF ConsumeInv, SessionInv, OneHandlerPerMessage,
                                  OutOnOpenChannel, ReturnedIsSettled, Session
<1> QED BY <1>1, <1>2, <1>3, <1>4, <1>5

(* A delivery comes: with the channel open, no handler has the message. *)
LEMMA DeliverStep ==
    ASSUME TypeOK, ConsumeInv, NEW m \in Messages, Deliver(m)
    PROVE  ConsumeInv'
<1>1. /\ subscribed /\ got["loop"] \in alive /\ broker[m] = "ready"
      /\ broker' = [broker EXCEPT ![m] = "unacked"] /\ on' = [on EXCEPT ![m] = got["loop"]]
      /\ buffer' = buffer \cup {m}
      /\ UNCHANGED <<pc, got, alive, subscribed, handling>>
  BY DEF Deliver, callerVars, connVars
<1>2. broker'[m] = "unacked" /\ on'[m] = got["loop"]
  BY <1>1 DEF TypeOK, BrokerOK, QueueOK
<1>3. \A k \in Messages : k # m => broker'[k] = broker[k] /\ on'[k] = on[k]
  BY <1>1 DEF TypeOK, BrokerOK, QueueOK
<1>4. \A h \in handling : h[1] # m /\ h[1] \in Messages
  BY <1>1 DEF ConsumeInv, SessionInv, TypeOK, QueueOK
<1>5. pc["loop"] = "dispatch"
  BY <1>1 DEF ConsumeInv, SessionInv
<1>6. SessionInv'
  BY <1>1, <1>2, <1>3, <1>4, <1>5 DEF ConsumeInv, SessionInv, Session, TypeOK, QueueOK
<1>7. OutOnOpenChannel'
  BY <1>1, <1>2, <1>3 DEF ConsumeInv, OutOnOpenChannel
<1> QED BY <1>1, <1>5, <1>6, <1>7 DEF ConsumeInv, OneHandlerPerMessage, ReturnedIsSettled

LEMMA HandlerKeepsSession ==
    ASSUME TypeOK, ConsumeInv, NEW m \in Messages, NEW c, Settle(m, c) \/ Return(m, c)
    PROVE  ConsumeInv'
<1>1. CASE Settle(m, c)
  <2>1. /\ <<m, c, FALSE>> \in handling
        /\ handling' = (handling \ {<<m, c, FALSE>>}) \cup {<<m, c, TRUE>>}
        /\ UNCHANGED <<pc, got, alive, subscribed, buffer, on>>
    BY <1>1 DEF Settle, Running, Settled, callerVars, connVars
  <2>2. c = got["loop"] /\ m \notin buffer /\ pc["loop"] \in Session
    BY <2>1 DEF ConsumeInv, SessionInv
  <2>3. \A h \in handling : h # <<m, c, FALSE>> => h[1] # m /\ h[1] \in Messages
    BY <2>1 DEF ConsumeInv, OneHandlerPerMessage, TypeOK, QueueOK
  <2>4. /\ c \in alive => broker'[m] \in {"acked", "dead"}
        /\ \A k \in Messages : k # m => broker'[k] = broker[k]
        /\ c \notin alive => broker' = broker
    BY <1>1 DEF Settle, TypeOK, BrokerOK
  <2> DEFINE new == <<m, c, TRUE>>
  <2>a. \A h \in handling' : \/ h \in handling /\ h[1] # m /\ h[1] \in Messages
                             \/ h = new /\ h[1] = m /\ h[2] = c /\ h[3] = TRUE
    <3>1. new[1] = m /\ new[2] = c /\ new[3] = TRUE
      OBVIOUS
    <3>2. \A h \in handling' : h = new \/ (h \in handling /\ h # <<m, c, FALSE>>)
      BY <2>1
    <3> HIDE DEF new
    <3> QED BY <3>1, <3>2, <2>3
  <2>b. \A k \in buffer : k \in Messages /\ k # m
    BY <2>2 DEF TypeOK, QueueOK
  <2> HIDE DEF new
  <2>5. SessionInv'
    <3>1. /\ pc'["loop"] # "dispatch" => ~subscribed' /\ buffer' = {}
          /\ pc'["loop"] \notin Session => handling' = {}
      BY <2>1, <2>2 DEF ConsumeInv, SessionInv
    <3>2. \A h \in handling' : h[2] = got'["loop"] /\ h[1] \notin buffer'
      BY <2>a, <2>1, <2>2 DEF ConsumeInv, SessionInv
    <3>3. got'["loop"] \in alive' =>
             \A k \in buffer' : broker'[k] = "unacked" /\ on'[k] = got'["loop"]
      BY <2>b, <2>1, <2>4 DEF ConsumeInv, SessionInv
    <3>4. ASSUME got'["loop"] \in alive', NEW h \in handling'
          PROVE  /\ h[3] = TRUE => broker'[h[1]] \in {"acked", "dead"}
                 /\ h[3] = FALSE => broker'[h[1]] = "unacked" /\ on'[h[1]] = got'["loop"]
      <4>1. got["loop"] \in alive /\ c \in alive
        BY <3>4, <2>1, <2>2
      <4>2. CASE h \in handling /\ h[1] # m /\ h[1] \in Messages
        <5>1. broker'[h[1]] = broker[h[1]] /\ on' = on /\ got' = got
          BY <4>2, <2>1, <2>4
        <5> QED BY <4>1, <4>2, <5>1 DEF ConsumeInv, SessionInv
      <4>3. CASE h = new /\ h[1] = m /\ h[2] = c /\ h[3] = TRUE
        BY <4>1, <4>3, <2>4
      <4> QED BY <4>2, <4>3, <2>a
    <3> QED BY <3>1, <3>2, <3>3, <3>4 DEF SessionInv
  <2>6. OneHandlerPerMessage'
    BY <2>a DEF ConsumeInv, OneHandlerPerMessage
  <2>7. OutOnOpenChannel'
    BY <2>1, <2>4 DEF ConsumeInv, OutOnOpenChannel
  <2>8. ReturnedIsSettled'
    BY <2>1, <2>2 DEF ReturnedIsSettled, Session
  <2> QED BY <2>5, <2>6, <2>7, <2>8 DEF ConsumeInv
<1>2. CASE Return(m, c)
  BY <1>2 DEF Return, Settled, callerVars, connVars, ConsumeInv, SessionInv,
              OneHandlerPerMessage, OutOnOpenChannel, ReturnedIsSettled, Session
<1> QED BY <1>1, <1>2

LEMMA ConsumeStep ==
    ASSUME TypeOK, ConsumeInv, [Next]_vars
    PROVE  ConsumeInv'
<1> USE AdapterAssumption
<1>0. ASSUME NEW n, Goto("loop", n) PROVE pc'["loop"] = n
  BY <1>0 DEF Goto, TypeOK, PlacesOK, Callers
<1>1. CASE \E p \in Producers : Call(p) \/ ProducerStep(p)
  BY <1>1, ProducerEffect, ConnectionKeepsSession
<1>2. CASE \/ \E c \in Channels : Watcher(c)
           \/ ChannelDies \/ CircuitCoolsDown \/ Cancel \/ UNCHANGED vars
  <2>1. /\ ConnectionEffect /\ UNCHANGED <<subscribed, buffer, handling, on>>
        /\ pc'["loop"] = pc["loop"] /\ got'["loop"] = got["loop"]
    BY <1>2 DEF Watcher, ChannelDies, CircuitCoolsDown, Cancel, ConnectionEffect,
                callerVars, connVars, queueVars, vars
  <2> QED BY <2>1, ConnectionKeepsSession
<1>3. CASE BeginCycle \/ WaitHandlers \/ Backoff \/ CloseDropped
             \/ EnsureChannel("loop", "consume") \/ ConnectChannel("loop", "consume")
             \/ InvalidateChannel("loop")
  <2>1. ConnectionEffect /\ UNCHANGED <<subscribed, buffer, handling, on>>
    BY <1>3, ConnectEffect DEF BeginCycle, WaitHandlers, Backoff, CloseDropped, EnsureChannel,
       InvalidateChannel, ConnectionEffect, connVars, queueVars
  <2>2. /\ handling = {} /\ pc["loop"] # "dispatch"
    BY <1>3 DEF BeginCycle, WaitHandlers, SessionEnds, Backoff, CloseDropped, EnsureChannel,
       ConnectChannel, InvalidateChannel, ConsumeInv, SessionInv, Session
  <2>3. pc'["loop"] # "returned"
    BY <1>0, <1>3 DEF BeginCycle, WaitHandlers, SessionEnds, Backoff, CloseDropped, EnsureChannel,
       ConnectChannel, InvalidateChannel
  <2> QED BY <2>1, <2>2, <2>3, IdleKeepsSession
<1>4. CASE Consume \/ StartHandler \/ StopDispatch \/ BrokerCancels \/ Shutdown
  BY <1>4, SessionStep
<1>5. CASE (\E m \in Messages : Deliver(m)) \/ HandlerStep
  BY <1>5, DeliverStep, HandlerKeepsSession DEF HandlerStep
<1> QED BY <1>1, <1>2, <1>3, <1>4, <1>5 DEF Next, LoopStep, Finished

-----------------------------------------------------------------------------
(* The Manager's steps are those of its publishes and of the connection. *)
LEMMA RolesStep ==
    ASSUME TypeOK, RolesApart, [Next]_vars
    PROVE  RolesApart'
<1> USE AdapterAssumption
<1>1. role' = role
  BY DEF Next, Call, ProducerStep, Lock, Attempt, EnsureChannel, ConnectChannel,
     ConfirmablePublisher, Send, Confirm, InvalidateChannel, NextAttempt, ProducerFrame,
     Watcher, Deliver, LoopStep, BeginCycle, Consume, StartHandler, StopDispatch, WaitHandlers,
     CloseDropped, Backoff, LoopFrame, HandlerStep, Settle, Return, Cancel, Shutdown,
     ChannelDies, BrokerCancels, CircuitCoolsDown, Finished, vars
<1>2. CASE \E p \in Producers : Call(p) \/ ProducerStep(p)
  <2>1. PICK p \in Producers : Call(p) \/ ProducerStep(p)
    BY <1>2
  <2>2. pc'["loop"] = pc["loop"]
    BY <2>1, ProducerEffect
  <2>3. role = "manager" \/ pc[p] # "idle"
    BY <2>1 DEF Call, ProducerStep, Lock, Attempt, EnsureChannel, ConnectChannel,
       ConfirmablePublisher, Send, Confirm, InvalidateChannel, NextAttempt
  <2> QED BY <1>1, <2>2, <2>3 DEF RolesApart, TypeOK
<1>3. CASE ~\E p \in Producers : Call(p) \/ ProducerStep(p)
  <2>1. \A p \in Producers : pc'[p] = pc[p]
    BY <1>3, OthersDoNotPublish
  <2>2. role = "manager" => pc'["loop"] = "top"
    <3>1. CASE LoopStep \/ Shutdown
      BY <3>1 DEF RolesApart, LoopStep, BeginCycle, EnsureChannel, ConnectChannel, Consume,
         StartHandler, StopDispatch, WaitHandlers, SessionEnds, InvalidateChannel, CloseDropped,
         Backoff, Shutdown
    <3>2. CASE ~(LoopStep \/ Shutdown)
      BY <1>3, <3>2 DEF RolesApart, Next, Watcher, Deliver, HandlerStep, Settle, Return, Cancel,
         ChannelDies, BrokerCancels, CircuitCoolsDown, Finished, vars, callerVars
    <3> QED BY <3>1, <3>2
  <2> QED BY <1>1, <2>1, <2>2 DEF RolesApart
<1> QED BY <1>2, <1>3

(* Only its holder works on a channel. *)
LEMMA HolderWorksAlone ==
    ASSUME PublishInv, NEW p \in Producers, pc[p] \in Publishing,
           NEW q \in Producers, q # p
    PROVE  pc[q] \notin Publishing
BY DEF PublishInv, MutexHeld

(* Nobody but the holder takes its open channel out or closes it, short of  *)
(* a failure.                                                               *)
LEMMA ChannelStep ==
    ASSUME TypeOK, PublishInv, RolesApart, ChannelIsOurs, [Next]_vars
    PROVE  ChannelIsOurs'
<1> USE AdapterAssumption
<1> DEFINE Working == {"publisher", "send", "confirm"}
<1>1. ASSUME NEW p \in Producers, Call(p) \/ ProducerStep(p)
      PROVE  ChannelIsOurs'
  <2>0. ASSUME NEW n, Goto(p, n)
        PROVE  pc'[p] = n /\ \A q \in Producers : q # p => pc'[q] = pc[q]
    BY <2>0 DEF Goto, TypeOK, PlacesOK, Callers
  <2>1. CASE Call(p) \/ Lock(p)
    BY <2>0, <2>1 DEF Call, Lock, ChannelIsOurs, sharedVars, connVars
  <2>2. CASE ~(Call(p) \/ Lock(p))
    <3>1. ProducerStep(p) /\ pc[p] \in Publishing
      BY <1>1, <2>2 DEF ProducerStep, Attempt, EnsureChannel, ConnectChannel,
         ConfirmablePublisher, Send, Confirm, InvalidateChannel, NextAttempt, Publishing
    <3>2. \A q \in Producers : q # p => pc[q] \notin Working
      BY <3>1, HolderWorksAlone DEF Publishing
    <3>3. (\E n : Goto(p, n)) => \A q \in Producers : q # p => pc'[q] \notin Working
      BY <2>0, <3>2
    <3>4. \E n : Goto(p, n)
      BY <2>2, <3>1 DEF ProducerStep, Attempt, EnsureChannel, ConnectChannel,
         ConfirmablePublisher, Send, Confirm, InvalidateChannel, NextAttempt, AttemptFails
    <3>5. pc'[p] \in Working /\ got'[p] \in alive' => channel' = got'[p]
      <4>1. CASE Attempt(p) \/ InvalidateChannel(p) \/ NextAttempt(p)
        BY <2>0, <4>1 DEF Attempt, InvalidateChannel, NextAttempt
      <4>2. CASE EnsureChannel(p, "publisher")
        BY <4>2 DEF EnsureChannel, sharedVars, TypeOK, ChannelsOK, Callers
      <4>3. CASE ConnectChannel(p, "publisher")
        BY <2>0, <4>3 DEF ConnectChannel, TypeOK, ChannelsOK, Callers
      <4>4. CASE ConfirmablePublisher(p)
        BY <4>4 DEF ConfirmablePublisher, CloseChannels, ChannelIsOurs
      <4>5. CASE Send(p) \/ Confirm(p)
        BY <4>5 DEF Send, Confirm, ChannelIsOurs, sharedVars, connVars
      <4> QED BY <2>2, <3>1, <4>1, <4>2, <4>3, <4>4, <4>5 DEF ProducerStep
    <3> QED BY <3>3, <3>4, <3>5 DEF ChannelIsOurs
  <2> QED BY <2>1, <2>2
<1>2. CASE ~\E p \in Producers : Call(p) \/ ProducerStep(p)
  <2>1. \A p \in Producers : pc'[p] = pc[p] /\ got'[p] = got[p]
    BY <1>2, OthersDoNotPublish
  <2>2. CASE role = "worker"
    BY <2>1, <2>2 DEF RolesApart, ChannelIsOurs
  <2>3. CASE role = "manager"
    <3>1. ~LoopStep /\ ~Shutdown
      BY <2>3 DEF RolesApart, LoopStep, BeginCycle, EnsureChannel, ConnectChannel, Consume,
         StartHandler, StopDispatch, WaitHandlers, SessionEnds, InvalidateChannel, CloseDropped,
         Backoff, Shutdown
    <3>2. ASSUME NEW c \in Channels, Watcher(c)
          PROVE  ChannelIsOurs'
      BY <2>1, <3>2 DEF Watcher, ChannelIsOurs, CloseChannels
    <3>3. CASE ChannelDies
      BY <2>1, <3>3 DEF ChannelDies, CloseChannels, ChannelIsOurs, sharedVars
    <3>4. CASE UNCHANGED <<alive, channel>>
      BY <2>1, <3>4 DEF ChannelIsOurs
    <3> QED BY <1>2, <3>1, <3>2, <3>3, <3>4 DEF Next, Deliver, HandlerStep, Settle, Return, Cancel,
               BrokerCancels, CircuitCoolsDown, Finished, vars, sharedVars, connVars
  <2> QED BY <2>2, <2>3 DEF TypeOK
<1> QED BY <1>1, <1>2

-----------------------------------------------------------------------------
(* The costs are natural numbers. *)
LEMMA CostsType ==
    ASSUME TypeOK, IsFiniteSet(Refused)
    PROVE  Charged \in Nat /\ Spent \in Nat /\ Pending \in {0, 1}
<1>1. Cardinality(Refused) \in Nat
  BY FS_CardinalityType
<1>2. Charged \in Nat
  BY <1>1, AdapterAssumption DEF Charged
<1>3. Spent \in Nat
  BY DEF Spent, TypeOK
<1> QED BY <1>2, <1>3 DEF Pending

(* What was within f stays within g when it grows by no more than f does. *)
LEMMA Within ==
    ASSUME NEW a \in Nat, NEW b \in Nat, NEW c \in Nat, NEW d \in Nat,
           NEW f \in Nat, NEW g \in Nat,
           a + b <= f, c + d + f <= a + b + g
    PROVE  c + d <= g
OBVIOUS

LEMMA WithinCharge ==
    ASSUME NEW a \in Nat, NEW b \in Nat, NEW d \in Nat, NEW f \in Nat, NEW g \in Nat,
           a + b <= f, d + f <= b + g
    PROVE  a + d <= g
OBVIOUS

(* A step that costs no more than the failures it has. *)
LEMMA PaidByStep ==
    ASSUME TypeOK, TypeOK', FailuresPaidFor, IsFiniteSet(Refused), Refused' = Refused,
           failures <= failures',
           failures' < Threshold /\ circuit = "closed" /\ consecutive + Pending <= failures =>
              /\ circuit' = "closed"
              /\ consecutive' + Pending' + failures <= consecutive + Pending + failures'
              /\ Spent' + failures <= Spent + failures'
    PROVE  FailuresPaidFor'
<1>1. Charged \in Nat /\ Spent \in Nat /\ Pending \in Nat
  BY CostsType
<1>2. Spent' \in Nat /\ Pending' \in Nat /\ Charged' = Charged
  BY DEF Spent, Pending, Charged, TypeOK
<1>3. /\ failures \in Nat /\ failures' \in Nat /\ Threshold \in Nat
      /\ consecutive \in Nat /\ consecutive' \in Nat
  BY AdapterAssumption DEF TypeOK, CircuitOK
<1> SUFFICES ASSUME failures' < Threshold
             PROVE  /\ circuit' = "closed"
                    /\ consecutive' + Pending' <= failures'
                    /\ Charged' + Spent' <= failures'
  BY DEF FailuresPaidFor
<1>4. failures < Threshold
  BY <1>3
<1>5. circuit = "closed" /\ consecutive + Pending <= failures /\ Charged + Spent <= failures
  BY <1>4 DEF FailuresPaidFor
<1>6. /\ circuit' = "closed"
      /\ consecutive' + Pending' + failures <= consecutive + Pending + failures'
      /\ Spent' + failures <= Spent + failures'
  BY <1>5
<1>7. consecutive' + Pending' <= failures'
  BY <1>1, <1>2, <1>3, <1>5, <1>6, Within
<1>8. Charged + Spent' <= failures'
  BY <1>1, <1>2, <1>3, <1>5, <1>6, WithinCharge
<1> QED BY <1>2, <1>6, <1>7, <1>8

(* A failure that the breaker counts below its threshold. *)
LEMMA CircuitStaysClosed ==
    ASSUME TypeOK, CircuitFails, circuit = "closed", consecutive + 1 < Threshold
    PROVE  circuit' = "closed" /\ consecutive' = consecutive + 1
BY AdapterAssumption DEF CircuitFails, TypeOK, CircuitOK

(* The holder's own costs. *)
LEMMA HolderCosts ==
    ASSUME TypeOK, PublishInv, NEW p \in Producers, pc[p] \in Publishing
    PROVE  /\ publishMu = p /\ p # None
           /\ Spent = attempts[p] + IF Lost(p) THEN 1 ELSE 0
           /\ Pending = IF Doomed(p) THEN 1 ELSE 0
BY AdapterAssumption DEF PublishInv, MutexHeld, Spent, Pending

LEMMA HolderCostsNext ==
    ASSUME NEW p \in Producers, publishMu' = p
    PROVE  /\ Spent' = attempts'[p] + IF Lost(p)' THEN 1 ELSE 0
           /\ Pending' = IF Doomed(p)' THEN 1 ELSE 0
BY AdapterAssumption DEF Spent, Pending

(* An attempt fails because its channel is closed, or by a new failure. *)
LEMMA AttemptIsPaid ==
    ASSUME TypeOK, TypeOK', PublishInv, FailuresPaidFor, IsFiniteSet(Refused),
           NEW p \in Producers, pc[p] \in {"publisher", "send", "confirm"},
           (got[p] \notin alive /\ Works) \/ Fails,
           AttemptFails(p), UNCHANGED <<publishMu, attempts>>
    PROVE  FailuresPaidFor'
<1>1. pc'[p] = "invalidate" /\ \A q \in Producers : q # p => pc'[q] = pc[q]
  BY DEF AttemptFails, Goto, TypeOK, PlacesOK, Callers
<1>2. Refused' = Refused
  BY <1>1 DEF Refused
<1>3. /\ publishMu' = p
      /\ Spent = attempts[p] + IF Lost(p) THEN 1 ELSE 0
      /\ Pending = IF Doomed(p) THEN 1 ELSE 0
  BY HolderCosts DEF Publishing
<1>4. Spent' = attempts[p] + 1 /\ Pending' = 0
  BY <1>1, <1>3, HolderCostsNext DEF Lost, Doomed
<1>5. failures \in Nat /\ consecutive \in Nat /\ attempts[p] \in Nat /\ Threshold \in Nat
  BY AdapterAssumption DEF TypeOK, CircuitOK
<1>6. CASE got[p] \notin alive /\ Works
  <2>1. Doomed(p) /\ Lost(p) /\ failures' = failures
    BY <1>6 DEF Doomed, Lost, Works
  <2> QED BY <1>2, <1>3, <1>4, <1>5, <2>1, PaidByStep, CircuitStaysClosed DEF AttemptFails
<1>7. CASE Fails
  <2>1. failures' = failures + 1
    BY <1>7 DEF Fails
  <2>2. Pending \in {0, 1} /\ Spent >= attempts[p]
    BY <1>3, <1>5
  <2>3. ASSUME failures' < Threshold, circuit = "closed", consecutive + Pending <= failures
        PROVE  /\ circuit' = "closed"
               /\ consecutive' + Pending' + failures <= consecutive + Pending + failures'
    <3>1. consecutive + 1 < Threshold
      BY <1>5, <2>1, <2>2, <2>3
    <3>2. circuit' = "closed" /\ consecutive' = consecutive + 1
      BY <2>3, <3>1, CircuitStaysClosed DEF AttemptFails
    <3> QED BY <1>4, <1>5, <2>1, <2>2, <3>2
  <2>4. Spent \in Nat /\ Spent' + failures <= Spent + failures'
    BY <1>3, <1>4, <1>5, <2>1, <2>2
  <2> QED BY <1>2, <1>5, <2>1, <2>3, <2>4, PaidByStep
<1> QED BY <1>6, <1>7

(* A producer moves on without a loss. *)
LEMMA MoveIsFree ==
    ASSUME TypeOK, TypeOK', PublishInv, FailuresPaidFor, IsFiniteSet(Refused),
           NEW p \in Producers, pc[p] \in Publishing, pc'[p] \in ProducerPlaces \ {"error"},
           \A q \in Producers : q # p => pc'[q] = pc[q],
           UNCHANGED <<publishMu, attempts, circuit, consecutive>>, failures <= failures',
           Lost(p)' => Lost(p) \/ failures' = failures + 1,
           Doomed(p)' => Doomed(p) \/ failures' = failures + 1
    PROVE  FailuresPaidFor'
<1>1. Refused' = Refused
  BY DEF Refused, Publishing
<1>2. /\ publishMu' = p
      /\ Spent = attempts[p] + IF Lost(p) THEN 1 ELSE 0
      /\ Pending = IF Doomed(p) THEN 1 ELSE 0
  BY HolderCosts
<1>3. /\ Spent' = attempts[p] + IF Lost(p)' THEN 1 ELSE 0
      /\ Pending' = IF Doomed(p)' THEN 1 ELSE 0
  BY <1>2, HolderCostsNext
<1>4. /\ failures \in Nat /\ failures' \in Nat /\ consecutive \in Nat
      /\ attempts[p] \in Nat
  BY DEF TypeOK, CircuitOK
<1>5. consecutive' + Pending' + failures <= consecutive + Pending + failures'
  BY <1>2, <1>3, <1>4
<1>6. Spent' + failures <= Spent + failures'
  BY <1>2, <1>3, <1>4
<1>7. circuit' = circuit
  OBVIOUS
<1> QED BY <1>1, <1>5, <1>6, <1>7, PaidByStep

(* Every publish in error has used up its attempts. *)
LEMMA ErrorIsPaid ==
    ASSUME TypeOK, TypeOK', PublishInv, FailuresPaidFor, IsFiniteSet(Refused),
           NEW p \in Producers, NextAttempt(p)
    PROVE  FailuresPaidFor'
<1> USE AdapterAssumption
<1>1. /\ pc[p] = "close" /\ UNCHANGED <<failures, circuit, consecutive>>
      /\ attempts' = [attempts EXCEPT ![p] = attempts[p] + 1]
      /\ IF attempts[p] + 1 < MaxPublishAttempts
         THEN Goto(p, "attempt") /\ UNCHANGED publishMu
         ELSE Goto(p, "error") /\ publishMu' = None
  BY DEF NextAttempt, circuitVars
<1>2. attempts[p] \in Nat /\ attempts'[p] = attempts[p] + 1 /\ attempts[p] < MaxPublishAttempts
  BY <1>1 DEF TypeOK, PublishInv, CopiesCounted, Publishing
<1>3. publishMu = p /\ Spent = attempts[p] + 1 /\ Pending = 0
  BY <1>1, HolderCosts DEF Publishing, Lost, Doomed
<1>4. /\ failures \in Nat /\ consecutive \in Nat /\ Threshold \in Nat
      /\ MaxPublishAttempts \in Nat
  BY DEF TypeOK, CircuitOK
<1>5. CASE attempts[p] + 1 < MaxPublishAttempts
  <2>1. /\ pc'[p] = "attempt" /\ \A q \in Producers : q # p => pc'[q] = pc[q]
        /\ publishMu' = p
    BY <1>1, <1>3, <1>5 DEF Goto, TypeOK, PlacesOK, Callers
  <2>2. Refused' = Refused
    BY <1>1, <2>1 DEF Refused
  <2>3. Spent' = attempts[p] + 1 /\ Pending' = 0
    BY <1>2, <2>1, HolderCostsNext DEF Lost, Doomed
  <2> QED BY <1>1, <1>2, <1>3, <1>4, <2>2, <2>3, PaidByStep
<1>6. CASE ~(attempts[p] + 1 < MaxPublishAttempts)
  <2>1. /\ pc'[p] = "error" /\ \A q \in Producers : q # p => pc'[q] = pc[q]
        /\ publishMu' = None
    BY <1>1, <1>6 DEF Goto, TypeOK, PlacesOK, Callers
  <2>2. Refused' = Refused \cup {p} /\ p \notin Refused
    BY <1>1, <2>1 DEF Refused
  <2>3. Cardinality(Refused) \in Nat /\ Cardinality(Refused') = Cardinality(Refused) + 1
    BY <2>2, FS_AddElement, FS_CardinalityType
  <2>4. Charged' = Charged + MaxPublishAttempts
    BY <1>4, <2>3 DEF Charged
  <2>5. Spent' = 0 /\ Pending' = 0 /\ Spent = MaxPublishAttempts
    BY <1>2, <1>3, <1>4, <1>6, <2>1 DEF Spent, Pending
  <2>6. Charged \in Nat
    BY CostsType
  <2> QED BY <1>1, <1>3, <1>4, <2>4, <2>5, <2>6 DEF FailuresPaidFor
<1> QED BY <1>5, <1>6

(* The other steps of a publish. *)
LEMMA PublishIsPaid ==
    ASSUME TypeOK, TypeOK', PublishInv, FailuresPaidFor, IsFiniteSet(Refused),
           NEW p \in Producers, Call(p) \/ ProducerStep(p), ~NextAttempt(p)
    PROVE  FailuresPaidFor'
<1> USE AdapterAssumption
<1>0. ASSUME NEW n, Goto(p, n)
      PROVE  pc'[p] = n /\ \A q \in Producers : q # p => pc'[q] = pc[q]
  BY <1>0 DEF Goto, TypeOK, PlacesOK, Callers
<1>a. /\ failures \in Nat /\ consecutive \in Nat /\ attempts[p] \in Nat
      /\ p \in Callers /\ got \in [Callers -> Nat] /\ Threshold \in Nat
  BY DEF TypeOK, CircuitOK, ChannelsOK, Callers
<1>1. CASE Call(p)
  <2>1. /\ pc[p] = "idle" /\ UNCHANGED <<attempts, got, alive, publishMu, circuit, consecutive, failures>>
        /\ circuit = "closed" => Goto(p, "lock")
    BY <1>1 DEF Call, connVars, circuitVars
  <2>2. CASE circuit = "closed"
    <3>1. Refused' = Refused
      BY <1>0, <2>1, <2>2 DEF Refused
    <3>2. publishMu # p
      BY <2>1 DEF PublishInv, MutexHeld, Publishing
    <3>3. publishMu # None => pc'[publishMu] = pc[publishMu]
      BY <1>0, <2>1, <2>2, <3>2 DEF TypeOK
    <3>4. Spent' = Spent /\ Pending' = Pending
      BY <2>1, <3>3 DEF Spent, Pending, Lost, Doomed
    <3>5. Spent \in Nat /\ Pending \in Nat
      BY CostsType
    <3> QED BY <1>a, <2>1, <3>1, <3>4, <3>5, PaidByStep
  <2>3. CASE circuit # "closed"
    BY <2>1, <2>3 DEF FailuresPaidFor
  <2> QED BY <2>2, <2>3
<1>2. CASE Lock(p)
  <2>1. /\ pc[p] = "lock" /\ pc'[p] = "attempt" /\ publishMu = None /\ publishMu' = p
        /\ UNCHANGED <<attempts, circuit, consecutive, failures>>
        /\ \A q \in Producers : q # p => pc'[q] = pc[q]
    BY <1>0, <1>2 DEF Lock, circuitVars
  <2>2. Refused' = Refused
    BY <2>1 DEF Refused
  <2>3. attempts[p] = 0
    BY <2>1 DEF PublishInv, CopiesCounted
  <2>4. Spent = 0 /\ Pending = 0 /\ Spent' = 0 /\ Pending' = 0
    BY <2>1, <2>3 DEF Spent, Pending, Lost, Doomed
  <2> QED BY <1>a, <2>1, <2>2, <2>4, PaidByStep
<1>3. CASE Attempt(p)
  <2>1. /\ pc[p] = "attempt" /\ UNCHANGED <<attempts, publishMu, circuit, consecutive, failures>>
        /\ circuit = "closed" => Goto(p, "ensure")
    BY <1>3 DEF Attempt, circuitVars
  <2>2. CASE circuit = "closed"
    <3>1. pc'[p] = "ensure" /\ ~Lost(p)' /\ ~Doomed(p)'
      BY <1>0, <2>1, <2>2 DEF Lost, Doomed
    <3> QED BY <1>0, <1>a, <2>1, <2>2, <3>1, MoveIsFree DEF Publishing, ProducerPlaces
  <2>3. CASE circuit # "closed"
    BY <2>1, <2>3 DEF FailuresPaidFor
  <2> QED BY <2>2, <2>3
<1>4. CASE EnsureChannel(p, "publisher")
  <2>1. /\ pc[p] = "ensure" /\ got'[p] = channel /\ alive' = alive
        /\ UNCHANGED <<attempts, publishMu, circuit, consecutive, failures>>
        /\ \/ pc'[p] = "publisher" /\ channel \in alive
           \/ pc'[p] = "connect"
        /\ \A q \in Producers : q # p => pc'[q] = pc[q]
    BY <1>0, <1>4, <1>a DEF EnsureChannel, circuitVars, connVars
  <2>2. ~Lost(p)' /\ ~Doomed(p)'
    BY <2>1 DEF Lost, Doomed
  <2> QED BY <1>a, <2>1, <2>2, MoveIsFree DEF Publishing, ProducerPlaces
<1>5. CASE ConnectChannel(p, "publisher")
  <2>1. pc[p] = "connect" /\ UNCHANGED <<attempts, publishMu>>
    BY <1>5 DEF ConnectChannel
  <2>2. CASE /\ pc'[p] = "publisher" /\ UNCHANGED circuitVars
             /\ (got'[p] \in alive' /\ Works) \/ Fails
             /\ \A q \in Producers : q # p => pc'[q] = pc[q]
    <3>1. /\ failures' \in {failures, failures + 1}
          /\ Lost(p)' => failures' = failures + 1
          /\ Doomed(p)' => failures' = failures + 1
      BY <2>2 DEF Works, Fails, Lost, Doomed
    <3> QED BY <1>a, <2>1, <2>2, <3>1, MoveIsFree DEF Publishing, ProducerPlaces, circuitVars
  <2>3. CASE CircuitFails /\ Goto(p, "invalidate") /\ Fails
    <3>1. /\ pc'[p] = "invalidate" /\ failures' = failures + 1
          /\ \A q \in Producers : q # p => pc'[q] = pc[q]
      BY <1>0, <2>3 DEF Fails
    <3>2. Refused' = Refused
      BY <2>1, <3>1 DEF Refused
    <3>3. publishMu' = p /\ Spent = attempts[p] /\ Pending = 0
      BY <2>1, <1>a, HolderCosts DEF Publishing, Lost, Doomed
    <3>4. Spent' = attempts[p] + 1 /\ Pending' = 0
      BY <2>1, <3>1, <3>3, HolderCostsNext DEF Lost, Doomed
    <3> QED BY <1>a, <2>3, <3>1, <3>2, <3>3, <3>4, PaidByStep, CircuitStaysClosed
  <2>4. \/ /\ Goto(p, "publisher") /\ UNCHANGED circuitVars
           /\ (got'[p] \in alive' /\ Works) \/ Fails
        \/ CircuitFails /\ Goto(p, "invalidate") /\ Fails
    <3>1. CASE channel \in alive
      BY <1>5, <1>a, <3>1 DEF ConnectChannel, connVars
    <3>2. CASE channel \notin alive
      BY <1>5, <1>a, <3>2 DEF ConnectChannel, OpenChannel, connVars
    <3> QED BY <3>1, <3>2
  <2> QED BY <1>0, <2>2, <2>3, <2>4
<1>6. CASE ConfirmablePublisher(p)
  <2>1. /\ pc[p] = "publisher" /\ UNCHANGED <<attempts, publishMu, got>>
        /\ got[p] \in alive => got[p] \in alive'
        /\ \/ Goto(p, "send") /\ UNCHANGED circuitVars /\ Works
           \/ Broken(p) /\ AttemptFails(p)
    BY <1>6 DEF ConfirmablePublisher, CloseChannels
  <2>2. CASE Goto(p, "send") /\ UNCHANGED circuitVars /\ Works
    <3>1. /\ failures' = failures /\ pc'[p] = "send"
      BY <1>0, <2>2 DEF Works
    <3>2. (Lost(p)' => Lost(p)) /\ (Doomed(p)' => Doomed(p))
      BY <2>1, <3>1 DEF Lost, Doomed
    <3> QED BY <1>0, <1>a, <2>1, <2>2, <3>1, <3>2, MoveIsFree DEF Publishing, ProducerPlaces, circuitVars
  <2>3. CASE Broken(p) /\ AttemptFails(p)
    BY <2>1, <2>3, AttemptIsPaid DEF Broken
  <2> QED BY <2>1, <2>2, <2>3
<1>7. CASE Send(p)
  <2>1. /\ pc[p] = "send" /\ UNCHANGED <<attempts, publishMu, got, alive, failures>>
        /\ \/ got[p] \in alive /\ Goto(p, "confirm") /\ UNCHANGED circuitVars
           \/ got[p] \notin alive /\ AttemptFails(p)
    BY <1>7 DEF Send, connVars
  <2>2. CASE got[p] \in alive /\ Goto(p, "confirm") /\ UNCHANGED circuitVars
    <3>1. pc'[p] = "confirm" /\ ~Lost(p)' /\ ~Doomed(p)'
      BY <1>0, <2>1, <2>2 DEF Lost, Doomed
    <3> QED BY <1>0, <1>a, <2>1, <2>2, <3>1, MoveIsFree DEF Publishing, ProducerPlaces, circuitVars
  <2>3. CASE got[p] \notin alive /\ AttemptFails(p)
    BY <2>1, <2>3, AttemptIsPaid DEF Works
  <2> QED BY <2>1, <2>2, <2>3
<1>8. CASE Confirm(p)
  <2>1. CASE Works /\ CircuitSucceeds /\ Goto(p, "ok") /\ publishMu' = None
    <3>1. /\ pc[p] = "confirm" /\ pc'[p] = "ok" /\ circuit' = "closed" /\ consecutive' = 0
          /\ failures' = failures
          /\ \A q \in Producers : q # p => pc'[q] = pc[q]
      BY <1>0, <1>8, <2>1 DEF Confirm, CircuitSucceeds, Works
    <3>2. Refused' = Refused
      BY <3>1 DEF Refused
    <3>3. Spent' = 0 /\ Pending' = 0
      BY <2>1 DEF Spent, Pending
    <3>4. Spent \in Nat /\ Pending \in Nat
      BY CostsType
    <3> QED BY <1>a, <3>1, <3>2, <3>3, <3>4, PaidByStep
  <2>2. CASE Broken(p) /\ AttemptFails(p) /\ UNCHANGED publishMu
    BY <1>8, <2>2, AttemptIsPaid DEF Confirm, Broken
  <2> QED BY <1>8, <2>1, <2>2 DEF Confirm
<1>9. CASE InvalidateChannel(p)
  <2>1. /\ pc[p] = "invalidate" /\ pc'[p] = "close"
        /\ UNCHANGED <<attempts, publishMu, circuit, consecutive, failures>>
        /\ \A q \in Producers : q # p => pc'[q] = pc[q]
    BY <1>0, <1>9 DEF InvalidateChannel, circuitVars
  <2>2. Lost(p) /\ ~Doomed(p)'
    BY <2>1 DEF Lost, Doomed
  <2> QED BY <1>a, <2>1, <2>2, MoveIsFree DEF Publishing, ProducerPlaces
<1> QED BY <1>1, <1>2, <1>3, <1>4, <1>5, <1>6, <1>7, <1>8, <1>9 DEF ProducerStep

(* What the others do costs the holder of publishMu nothing but a failure.  *)
LEMMA OthersArePaidFor ==
    ASSUME TypeOK, TypeOK', PublishInv, RolesApart, ChannelIsOurs, IsFiniteSet(Refused),
           role = "manager", FailuresPaidFor, [Next]_vars,
           ~\E p \in Producers : Call(p) \/ ProducerStep(p)
    PROVE  FailuresPaidFor'
<1> USE AdapterAssumption
<1>1. /\ UNCHANGED <<attempts, publishMu>>
      /\ \A p \in Producers : pc'[p] = pc[p] /\ got'[p] = got[p]
  BY OthersDoNotPublish
<1>2. Refused' = Refused
  BY <1>1 DEF Refused
<1>3. failures \in Nat /\ consecutive \in Nat
  BY DEF TypeOK, CircuitOK
<1>4. Spent \in Nat /\ Pending \in Nat
  BY CostsType
<1>5. CASE UNCHANGED <<circuit, consecutive>> /\ failures' = failures /\
           (\A p \in Producers : pc[p] \in {"publisher", "send", "confirm"} =>
                                    (got[p] \in alive <=> got[p] \in alive'))
  <2>1. \A p \in Producers : (Doomed(p)' <=> Doomed(p)) /\ (Lost(p)' <=> Lost(p))
    BY <1>1, <1>5 DEF Doomed, Lost
  <2>2. Spent' = Spent /\ Pending' = Pending
    BY <1>1, <2>1 DEF Spent, Pending, TypeOK
  <2> QED BY <1>2, <1>3, <1>4, <1>5, <2>2, PaidByStep
<1>6. CASE UNCHANGED <<circuit, consecutive>> /\ failures' = failures + 1
  <2>1. CASE publishMu = None
    <3>1. Spent = 0 /\ Spent' = 0 /\ Pending = 0 /\ Pending' = 0
      BY <1>1, <2>1 DEF Spent, Pending
    <3> QED BY <1>2, <1>3, <1>6, <3>1, PaidByStep
  <2>2. CASE publishMu # None
    <3>1. PICK p \in Producers : publishMu = p /\ p # None
      BY <2>2 DEF TypeOK
    <3>2. /\ Spent = attempts[p] + IF Lost(p) THEN 1 ELSE 0
          /\ Pending = IF Doomed(p) THEN 1 ELSE 0
      BY <3>1 DEF Spent, Pending
    <3>3. /\ Spent' = attempts[p] + IF Lost(p)' THEN 1 ELSE 0
          /\ Pending' = IF Doomed(p)' THEN 1 ELSE 0
      BY <1>1, <3>1, HolderCostsNext
    <3>4. attempts[p] \in Nat
      BY DEF TypeOK
    <3> QED BY <1>2, <1>3, <1>6, <3>2, <3>3, <3>4, PaidByStep
  <2> QED BY <2>1, <2>2
<1>7. CASE CircuitCoolsDown
  BY <1>7 DEF CircuitCoolsDown, FailuresPaidFor
<1>8. CASE \E c \in Channels : Watcher(c)
  <2>1. PICK c \in Channels : Watcher(c)
    BY <1>8
  <2>2. UNCHANGED <<circuit, consecutive, failures>> /\ alive' \subseteq alive
    BY <2>1 DEF Watcher, CloseChannels, circuitVars
  <2>3. ASSUME NEW p \in Producers, pc[p] \in {"publisher", "send", "confirm"}, got[p] \in alive
        PROVE  got[p] \in alive'
    BY <2>1, <2>3 DEF Watcher, ChannelIsOurs
  <2> QED BY <1>5, <2>2, <2>3
<1>9. CASE ChannelDies \/ BrokerCancels
  BY <1>6, <1>9 DEF ChannelDies, BrokerCancels, Fails, circuitVars
<1>10. CASE (\E m \in Messages : Deliver(m)) \/ HandlerStep \/ Cancel \/ UNCHANGED vars
  BY <1>5, <1>10 DEF Deliver, HandlerStep, Settle, Return, Cancel, vars, circuitVars, connVars
<1>11. ~LoopStep /\ ~Shutdown
  BY DEF RolesApart, LoopStep, BeginCycle, EnsureChannel, ConnectChannel, Consume,
     StartHandler, StopDispatch, WaitHandlers, SessionEnds, InvalidateChannel, CloseDropped,
     Backoff, Shutdown
<1> QED BY <1>7, <1>8, <1>9, <1>10, <1>11 DEF Next, Finished

LEMMA FailureStep ==
    ASSUME TypeOK, PublishInv, FailureInv, [Next]_vars
    PROVE  FailureInv'
<1> USE DEF FailureInv
<1>1. TypeOK' /\ RolesApart' /\ ChannelIsOurs'
  BY TypeStep, RolesStep, ChannelStep
<1>2. IsFiniteSet(Refused')
  <2>1. CASE \E p \in Producers : Call(p) \/ ProducerStep(p)
    <3>1. PICK p \in Producers : \E n : Goto(p, n)
      BY <2>1 DEF Call, ProducerStep, Lock, Attempt, EnsureChannel, ConnectChannel,
         ConfirmablePublisher, Send, Confirm, AttemptFails, InvalidateChannel, NextAttempt
    <3>2. \A q \in Producers : q # p => pc'[q] = pc[q]
      BY <3>1 DEF Goto, TypeOK, PlacesOK, Callers
    <3>3. Refused' \subseteq Refused \cup {p}
      BY <3>2 DEF Refused
    <3> QED BY <3>3, FS_AddElement, FS_Subset
  <2>2. CASE ~\E p \in Producers : Call(p) \/ ProducerStep(p)
    <3>1. Refused' = Refused
      BY <2>2, OthersDoNotPublish DEF Refused
    <3> QED BY <3>1
  <2> QED BY <2>1, <2>2
<1>3. ASSUME role' = "manager"
      PROVE  FailuresPaidFor'
  <2>1. role = "manager"
    BY <1>3 DEF Next, Call, ProducerStep, Lock, Attempt, EnsureChannel, ConnectChannel,
       ConfirmablePublisher, Send, Confirm, InvalidateChannel, NextAttempt, ProducerFrame,
       Watcher, Deliver, LoopStep, BeginCycle, Consume, StartHandler, StopDispatch, WaitHandlers,
       CloseDropped, Backoff, LoopFrame, HandlerStep, Settle, Return, Cancel, Shutdown,
       ChannelDies, BrokerCancels, CircuitCoolsDown, Finished, vars
  <2>2. ASSUME NEW p \in Producers, Call(p) \/ ProducerStep(p)
        PROVE  FailuresPaidFor'
    <3>1. CASE NextAttempt(p)
      BY <1>1, <2>1, <3>1, ErrorIsPaid
    <3>2. CASE ~NextAttempt(p)
      BY <1>1, <2>1, <2>2, <3>2, PublishIsPaid
    <3> QED BY <3>1, <3>2
  <2>3. CASE ~\E p \in Producers : Call(p) \/ ProducerStep(p)
    BY <1>1, <2>1, <2>3, OthersArePaidFor
  <2> QED BY <2>2, <2>3
<1> QED BY <1>1, <1>2, <1>3

-----------------------------------------------------------------------------
LEMMA InitIInv == Init => IInv
<1> SUFFICES ASSUME Init PROVE IInv
  OBVIOUS
<1> USE AdapterAssumption DEF Init
<1>1. opened \in Nat /\ channel = opened /\ connChan = opened /\ alive = 1..opened
  OBVIOUS
<1>2. PlacesOK
  BY DEF PlacesOK, Callers, ProducerPlaces, LoopPlaces
<1>3. ChannelsOK
  BY <1>1 DEF ChannelsOK
<1>4. TypeOK
  BY <1>2, <1>3 DEF TypeOK, CircuitOK, QueueOK, BrokerOK
<1>5. pc["loop"] = "top" /\ \A p \in Producers : pc[p] = "idle"
  BY DEF Callers
<1>6. PublishInv
  BY <1>5 DEF PublishInv, MutexHeld, CopiesCounted, Publishing
<1>7. ConsumeInv
  BY <1>5 DEF ConsumeInv, SessionInv, OneHandlerPerMessage, OutOnOpenChannel,
              ReturnedIsSettled, Session
<1>8. Refused = {}
  BY <1>5 DEF Refused
<1>9. IsFiniteSet(Refused) /\ Cardinality(Refused) = 0
  BY <1>8, FS_EmptySet
<1>10. Charged = 0 /\ Spent = 0 /\ Pending = 0
  BY <1>9 DEF Charged, Spent, Pending
<1>11. FailureInv
  BY <1>5, <1>9, <1>10 DEF FailureInv, RolesApart, FailuresPaidFor, ChannelIsOurs
<1> QED BY <1>4, <1>6, <1>7, <1>11 DEF IInv

(* The inductive invariant: the types, who publishes and how often it has   *)
(* sent, what a session has out on its channel, and what the failures of    *)
(* the broker have cost so far.                                             *)
THEOREM AdapterInvariant == Spec => []IInv
<1>1. IInv /\ [Next]_vars => IInv'
  BY TypeStep, PublishStep, ConsumeStep, FailureStep DEF IInv
<1> QED BY InitIInv, <1>1, PTL DEF Spec

(* The consumer never has two handlers at work on one message, over every   *)
(* loss of the channel and redelivery (runConsumerCycle waits for its       *)
(* handlers before it gives the channel up).                                *)
THEOREM OneHandler == Spec => []OneHandlerPerMessage
<1>1. IInv => OneHandlerPerMessage
  BY DEF IInv, ConsumeInv
<1> QED BY AdapterInvariant, <1>1, PTL

(* When the shutdown has returned, no handler runs and no message is out:    *)
(* MultiQueueConsumer.Run returns from the loop before it shuts down.        *)
THEOREM ShutdownIsClean == Spec => []ReturnedMeansClean
<1>1. IInv => ReturnedMeansClean
  BY DEF IInv, ConsumeInv, SessionInv, Session, ReturnedIsSettled, ReturnedMeansClean
<1> QED BY AdapterInvariant, <1>1, PTL

(* As long as the broker has failed less often than opens the circuit, every *)
(* publish in error has had all its attempts fail, each on a failure of its *)
(* own (ProducerDefault's retry, ensureChannel and the channel's watchers). *)
THEOREM FailuresArePaidFor == Spec => []FailureCostsOneAttempt
<1>1. IInv => FailureCostsOneAttempt
  <2> SUFFICES ASSUME IInv, failures < Threshold
               PROVE  MaxPublishAttempts * Cardinality(Refused) <= failures
    BY DEF FailureCostsOneAttempt, Refused
  <2> USE DEF IInv, FailureInv
  <2>1. failures \in Nat
    BY DEF TypeOK
  <2>2. CASE role = "manager"
    <3>1. Charged \in Nat /\ Spent \in Nat
      BY CostsType
    <3> QED BY <2>1, <2>2, <3>1 DEF FailuresPaidFor, Charged
  <2>3. CASE role = "worker"
    <3>1. Refused = {}
      BY <2>3 DEF RolesApart, Refused
    <3> QED BY <2>1, <3>1, FS_EmptySet, AdapterAssumption
  <2> QED BY <2>2, <2>3 DEF TypeOK
<1> QED BY AdapterInvariant, <1>1, PTL

-----------------------------------------------------------------------------
(* The refinement of PublishContract. *)
calls == [p \in Producers |-> IF pc[p] \in Done \cup {"idle"} THEN pc[p] ELSE "calling"]

(* One producer moves: what the caller sees of it. *)
LEMMA CallsMove ==
    ASSUME TypeOK, NEW p \in Producers, NEW n, Goto(p, n)
    PROVE  calls' = [calls EXCEPT ![p] = IF n \in Done \cup {"idle"} THEN n ELSE "calling"]
<1>1. pc'[p] = n /\ \A q \in Producers : q # p => pc'[q] = pc[q]
  BY DEF Goto, TypeOK, PlacesOK, Callers
<1> QED BY <1>1 DEF calls

LEMMA PublishRefines ==
    ASSUME IInv, [Next]_vars
    PROVE  [Promise!Next]_<<calls, sent>>
<1> USE AdapterAssumption DEF IInv
<1>1. ASSUME NEW p \in Producers, Call(p) \/ ProducerStep(p)
      PROVE  [Promise!Next]_<<calls, sent>>
  <2>a. calls[p] = IF pc[p] \in Done \cup {"idle"} THEN pc[p] ELSE "calling"
    BY DEF calls
  <2>b. \A v : calls[p] = v => [calls EXCEPT ![p] = v] = calls
    BY DEF calls
  <2>c. attempts[p] \in Nat /\ sent[p] \in Nat /\ MaxPublishAttempts \in Nat
    BY DEF TypeOK
  <2>1. CASE Call(p)
    <3>1. PICK n \in {"error", "lock"} : Goto(p, n)
      BY <2>1 DEF Call
    <3>2. calls[p] = "idle" /\ sent' = sent
      BY <2>1, <2>a DEF Call
    <3>3. \E v \in {"calling", "error"} : calls' = [calls EXCEPT ![p] = v]
      BY <3>1, CallsMove DEF Done
    <3>4. Promise!Begin(p)
      BY <3>2, <3>3 DEF Promise!Begin, calls
    <3> QED BY <3>4 DEF Promise!Next, calls
  <2>2. CASE Send(p) /\ got[p] \in alive
    <3>1. /\ pc[p] = "send" /\ Goto(p, "confirm")
          /\ sent' = [sent EXCEPT ![p] = sent[p] + 1]
      BY <2>2 DEF Send
    <3>2. calls[p] = "calling" /\ calls' = calls
      BY <3>1, <2>a, <2>b, CallsMove DEF Done
    <3>3. sent[p] < MaxPublishAttempts
      BY <2>c, <3>1 DEF PublishInv, CopiesCounted, Publishing
    <3>4. Promise!Take(p)
      BY <3>1, <3>2, <3>3 DEF Promise!Take, calls
    <3> QED BY <3>4 DEF Promise!Next, calls
  <2>3. CASE Confirm(p) \/ NextAttempt(p)
    <3>1. /\ pc[p] \in {"confirm", "close"} /\ sent' = sent
          /\ \/ pc[p] = "confirm" /\ Goto(p, "ok")
             \/ Goto(p, "error")
             \/ Goto(p, "invalidate") \/ Goto(p, "attempt")
      BY <2>3 DEF Confirm, AttemptFails, NextAttempt
    <3>2. calls[p] = "calling"
      BY <3>1, <2>a DEF Done
    <3>3. CASE pc[p] = "confirm" /\ Goto(p, "ok")
      <4>1. sent[p] > 0 /\ calls' = [calls EXCEPT ![p] = "ok"]
        BY <3>3, CallsMove DEF PublishInv, CopiesCounted, Done
      <4>2. Promise!End(p)
        BY <3>1, <3>2, <4>1 DEF Promise!End, calls
      <4> QED BY <4>2 DEF Promise!Next, calls
    <3>4. CASE Goto(p, "error")
      <4>1. calls' = [calls EXCEPT ![p] = "error"]
        BY <3>4, CallsMove DEF Done
      <4>2. Promise!End(p)
        BY <3>1, <3>2, <4>1 DEF Promise!End, calls
      <4> QED BY <4>2 DEF Promise!Next, calls
    <3>5. CASE Goto(p, "invalidate") \/ Goto(p, "attempt")
      <4>1. calls' = calls
        BY <3>2, <3>5, <2>b, CallsMove DEF Done
      <4> QED BY <3>1, <4>1
    <3> QED BY <3>1, <3>3, <3>4, <3>5
  <2>4. CASE \/ Lock(p) \/ Attempt(p) \/ EnsureChannel(p, "publisher")
             \/ ConnectChannel(p, "publisher") \/ ConfirmablePublisher(p)
             \/ InvalidateChannel(p) \/ (Send(p) /\ got[p] \notin alive)
    <3>1. /\ pc[p] \notin Done \cup {"idle"} /\ sent' = sent
          /\ \E n : n \notin Done \cup {"idle"} /\ Goto(p, n)
      BY <2>4 DEF Lock, Attempt, EnsureChannel, ConnectChannel, ConfirmablePublisher,
         InvalidateChannel, Send, AttemptFails, Done
    <3>2. calls' = calls
      BY <3>1, <2>a, <2>b, CallsMove
    <3> QED BY <3>1, <3>2
  <2> QED BY <1>1, <2>1, <2>2, <2>3, <2>4 DEF ProducerStep
<1>2. CASE ~\E p \in Producers : Call(p) \/ ProducerStep(p)
  <2>1. UNCHANGED sent /\ \A p \in Producers : pc'[p] = pc[p]
    BY <1>2, OthersDoNotPublish
  <2>2. calls' = calls
    BY <2>1 DEF calls
  <2> QED BY <2>1, <2>2
<1> QED BY <1>1, <1>2

(* ProducerDefault, with its retries, channels and circuit, is the publish  *)
(* its callers assume: nil means that the broker took the message, and an   *)
(* error that it took at most one copy per attempt.                         *)
THEOREM PublishImplementsContract == Spec => ImplementsPublish
<1>1. Init => Promise!Init
  <2> SUFFICES ASSUME Init PROVE Promise!Init
    OBVIOUS
  <2>1. \A p \in Producers : pc[p] = "idle"
    BY AdapterAssumption DEF Init, Callers
  <2> QED BY <2>1 DEF Init, Promise!Init
<1>2. IInv /\ [Next]_vars => [Promise!Next]_<<calls, sent>>
  BY PublishRefines
<1> QED BY <1>1, <1>2, AdapterInvariant, PTL DEF Spec, ImplementsPublish, Promise!Spec, calls
=============================================================================
