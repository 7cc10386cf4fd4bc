--------------------------- MODULE TenantConsumers ---------------------------
(***************************************************************************)
(* The Worker's multi-tenant consumer: which tenants have a consumer loop,  *)
(* who starts and stops them, and under which context a loop runs.          *)
(* Tenants are started and stopped by the boot-time sync, by Redis Pub/Sub  *)
(* events, by the reconciler, by handlers being registered and by a loop    *)
(* that finds its tenant suspended.  Each tenant has a mutex in a sync.Map  *)
(* that StopConsumer deletes, so two callers may hold different mutexes of  *)
(* one tenant; `epoch' names the mutex in the map.                          *)
(*                                                                         *)
(* There is one queue per tenant.  Sections under c.mu are single steps.    *)
(***************************************************************************)
EXTENDS Naturals, Sequences, FiniteSets

CONSTANTS
    Tenants,
    GraceTicks,  \* misses before the reconciler stops a consumer
    MaxLoops,    \* bound: consumer loops at a time
    MaxChanges   \* bound: changes at the Tenant Manager and failures

ASSUME TenantAssumption ==
    /\ GraceTicks \in Nat \ {0}
    /\ MaxLoops \in Nat /\ MaxChanges \in Nat

VARIABLES
    tm,          \* external: each tenant at the Tenant Manager
    inbox,       \* external: Pub/Sub events not yet handled, in order
    changes,     \* external changes and failures so far
    booting,     \* what InitWorker is at: register, list, sync, done
    phase,       \* of the process: init, boot, running, cancelled, closed
    registered,  \* keys of c.tenants and c.tenantCtxs
    queued,      \* keys of c.tenantQueues
    known,       \* c.knownTenants
    cached,      \* tenants in the shared TenantCache
    epoch,       \* the mutex c.locks holds for each tenant
    held,        \* mutexes held across steps
    calls,       \* EnsureConsumerStarted or StopConsumer in progress
    loops,       \* consumeQueue goroutines, each in a slot
    started,     \* history: loops started since the tenant was registered
    listed, todo,        \* the reconciler's pass: tenants listed, still to ensure
    reaping, reap,       \* whether it has read KnownTenants, what is left of them
    absences,    \* the reconciler's counters
    missed       \* history: consecutive listings without the tenant

consumerVars == <<registered, queued, known, cached, epoch, held, loops, started>>
passVars     == <<listed, todo, reaping, reap, absences, missed>>
worldVars    == <<tm, inbox, changes, phase, booting>>
vars         == <<consumerVars, calls, passVars, worldVars>>

Actors   == {"sync", "events", "reconciler"}
LoopIds  == 1..MaxLoops
Idle     == [pc |-> "idle"]
Ended    == [state |-> "ended"]
Live(i)  == loops[i].state \in {"connect", "consume", "remove"}

Init ==
    /\ tm \in [Tenants -> {"active", "inactive"}]
    /\ inbox = <<>> /\ changes = 0 /\ phase = "init" /\ booting = "register"
    /\ registered = {} /\ queued = {} /\ known = {} /\ cached = {}
    /\ epoch = [t \in Tenants |-> 0] /\ held = {}
    /\ calls = [a \in Actors |-> Idle]
    /\ loops = [i \in LoopIds |-> Ended] /\ started = [t \in Tenants |-> 0]
    /\ listed = {} /\ todo = {} /\ reaping = TRUE /\ reap = {}
    /\ absences = [t \in Tenants |-> 0] /\ missed = [t \in Tenants |-> 0]

-----------------------------------------------------------------------------
(* startContext is the context of Run once Run was called and the caller's  *)
(* context before that: the reconciler's ends with the process, the others' *)
(* never.                                                                   *)
Root(a) == IF phase \in {"init", "boot"} /\ a # "reconciler" THEN "background" ELSE "run"

(* Mutants: the queue is started again; started although closed. *)
StartTenantUnchecked(t, root) ==
    IF phase \in {"init", "closed"}
    THEN UNCHANGED <<registered, queued, known, loops, started>>
    ELSE /\ registered' = registered \cup {t}
         /\ known' = known \cup {t}
         /\ queued' = queued \cup {t}
         /\ started' = [started EXCEPT ![t] = started[t] + 1]
         /\ \E i \in LoopIds :
               /\ loops[i] = Ended /\ \A j \in 1..(i - 1) : loops[j] # Ended
               /\ loops' = [loops EXCEPT ![i] =
                     [state |-> "connect", tenant |-> t, root |-> root, lock |-> 0]]

StartTenantAfterClose(t, root) ==
    /\ registered' = registered \cup {t}
    /\ known' = known \cup {t}
    /\ queued' = queued \cup {t}
    /\ IF t \in queued THEN UNCHANGED <<loops, started>>
       ELSE /\ started' = [started EXCEPT ![t] = started[t] + 1]
            /\ \E i \in LoopIds :
                  /\ loops[i] = Ended /\ \A j \in 1..(i - 1) : loops[j] # Ended
                  /\ loops' = [loops EXCEPT ![i] =
                        [state |-> "connect", tenant |-> t, root |-> root, lock |-> 0]]

(* startTenantConsumer, under c.mu, with one queue. *)
StartTenant(t, root) ==
    IF phase \in {"init", "closed"}
    THEN UNCHANGED <<registered, queued, known, loops, started>>
    ELSE /\ registered' = registered \cup {t}
         /\ known' = known \cup {t}
         /\ queued' = queued \cup {t}
         /\ IF t \in queued THEN UNCHANGED <<loops, started>>
            ELSE /\ started' = [started EXCEPT ![t] = started[t] + 1]
                 /\ \E i \in LoopIds :
                       /\ loops[i] = Ended /\ \A j \in 1..(i - 1) : loops[j] # Ended
                       /\ loops' = [loops EXCEPT ![i] =
                             [state |-> "connect", tenant |-> t, root |-> root, lock |-> 0]]

(* Mutant: the queues stay marked as started. *)
ForgetKeepsQueue(t) ==
    /\ registered' = registered \ {t}
    /\ known' = known \ {t}
    /\ started' = [started EXCEPT ![t] = 0]
    /\ epoch' = [epoch EXCEPT ![t] = epoch[t] + 1]
    /\ UNCHANGED queued

(* The body of StopConsumer, under the tenant's mutex and c.mu.  cancel()   *)
(* cancels a context that no loop uses.                                     *)
Forget(t) ==
    /\ registered' = registered \ {t}
    /\ queued' = queued \ {t}
    /\ known' = known \ {t}
    /\ started' = [started EXCEPT ![t] = 0]
    /\ epoch' = [epoch EXCEPT ![t] = epoch[t] + 1]

-----------------------------------------------------------------------------
(* EnsureConsumerStarted by an actor.  `nested' says that the loader's      *)
(* OnTenantLoaded callback is running, itself an EnsureConsumerStarted.     *)
Ensure(t) == [pc |-> "check", tenant |-> t, lock |-> epoch[t], nested |-> FALSE,
              outer |-> epoch[t], handlers |-> FALSE]
Stop(t)   == [pc |-> "stop", tenant |-> t, lock |-> epoch[t]]

Mutex(a) == <<calls[a].tenant, calls[a].lock>>

Call(a, next) == calls' = [calls EXCEPT ![a] = next]

Return(a) ==
    Call(a, IF calls[a].nested
            THEN [calls[a] EXCEPT !.pc = "mark", !.nested = FALSE, !.lock = calls[a].outer]
            ELSE Idle)

(* The first critical section. *)
Check(a) ==
    /\ calls[a].pc = "check"
    /\ Mutex(a) \notin held
    /\ LET t == calls[a].tenant
           handlers == phase # "init"
       IN  \/ /\ t \in registered \/ phase = "closed"
              /\ Return(a)
           \/ /\ t \notin registered /\ phase # "closed"
              /\ t \notin known \cup cached
              /\ Call(a, [calls[a] EXCEPT !.pc = "load", !.handlers = handlers])
           \/ /\ t \notin registered /\ phase # "closed"
              /\ t \in known \cup cached
              /\ IF handlers THEN Call(a, [calls[a] EXCEPT !.pc = "acquire"]) ELSE Return(a)
    /\ UNCHANGED <<consumerVars, passVars, worldVars>>

(* loader.LoadTenant, with no mutex held. *)
Load(a) ==
    /\ calls[a].pc = "load"
    /\ LET t == calls[a].tenant
       IN  \/ /\ tm[t] = "active"
              /\ cached' = cached \cup {t}
              /\ Call(a, [calls[a] EXCEPT !.pc = "check", !.nested = TRUE,
                                          !.lock = epoch[t]])
           \/ /\ tm[t] # "active"
              /\ Return(a)
              /\ UNCHANGED cached
    /\ UNCHANGED <<registered, queued, known, epoch, held, loops, started, passVars,
                   worldVars>>

(* markTenantKnown after the load; the start is deferred if there were no   *)
(* handlers when the call began.                                            *)
Mark(a) ==
    /\ calls[a].pc = "mark"
    /\ known' = known \cup {calls[a].tenant}
    /\ IF calls[a].handlers THEN Call(a, [calls[a] EXCEPT !.pc = "acquire"])
                            ELSE Call(a, Idle)
    /\ UNCHANGED <<registered, queued, cached, epoch, held, loops, started, passVars,
                   worldVars>>

(* The second critical section: test, then start. *)
Acquire(a) ==
    /\ calls[a].pc = "acquire"
    /\ Mutex(a) \notin held
    /\ IF calls[a].tenant \in registered \/ phase = "closed"
       THEN Return(a) /\ UNCHANGED held
       ELSE /\ Call(a, [calls[a] EXCEPT !.pc = "start"])
            /\ held' = held \cup {Mutex(a)}
    /\ UNCHANGED <<registered, queued, known, cached, epoch, loops, started, passVars,
                   worldVars>>

Start(a) ==
    /\ calls[a].pc = "start"
    /\ StartTenant(calls[a].tenant, Root(a))
    /\ held' = held \ {Mutex(a)}
    /\ Return(a)
    /\ UNCHANGED <<cached, epoch, passVars, worldVars>>

(* StopConsumer.  After a removal event the tenant's pools are closed. *)
StopConsumer(a) ==
    /\ calls[a].pc = "stop"
    /\ Mutex(a) \notin held
    /\ Forget(calls[a].tenant)
    /\ Call(a, IF a = "events" THEN [calls[a] EXCEPT !.pc = "closePools"] ELSE Idle)
    /\ UNCHANGED <<cached, held, loops, passVars, worldVars>>

ClosePools(a) ==
    /\ calls[a].pc = "closePools"
    /\ loops' = [i \in LoopIds |->
                    IF loops[i].state = "consume" /\ loops[i].tenant = calls[a].tenant
                    THEN [loops[i] EXCEPT !.state = "connect"] ELSE loops[i]]
    /\ Call(a, Idle)
    /\ UNCHANGED <<registered, queued, known, cached, epoch, held, started, passVars,
                   worldVars>>

CallStep(a) == Check(a) \/ Load(a) \/ Mark(a) \/ Acquire(a) \/ Start(a)
                 \/ StopConsumer(a) \/ ClosePools(a)

-----------------------------------------------------------------------------
(* InitWorker: NewMultiQueueConsumerMultiTenant registers the handler,      *)
(* which starts the tenants known so far without their mutex, then          *)
(* performInitialTenantSync.                                                *)
Register ==
    /\ booting = "register" /\ phase = "init"
    /\ phase' = "boot"
    /\ known' = known \cup cached
    /\ todo' = known \cup cached
    /\ UNCHANGED <<registered, queued, cached, epoch, held, loops, started, calls,
                   listed, reaping, reap, absences, missed, tm, inbox, changes, booting>>

RegisterStart ==
    /\ booting = "register" /\ phase = "boot"
    /\ \E t \in todo : StartTenant(t, "background") /\ todo' = todo \ {t}
    /\ UNCHANGED <<cached, epoch, held, calls, listed, reaping, reap, absences, missed, worldVars>>

InitialSyncList ==
    /\ booting = "register" /\ phase = "boot" /\ todo = {}
    /\ booting' = "sync"
    /\ \/ todo' = {t \in Tenants : tm[t] = "active"} /\ UNCHANGED changes
       \/ todo' = {} /\ changes < MaxChanges /\ changes' = changes + 1
    /\ UNCHANGED <<consumerVars, calls, listed, reaping, reap, absences, missed, tm, inbox, phase>>

InitialSync ==
    /\ booting = "sync" /\ calls["sync"] = Idle
    /\ \/ /\ \E t \in todo : Call("sync", Ensure(t)) /\ todo' = todo \ {t}
          /\ UNCHANGED booting
       \/ /\ todo = {} /\ booting' = "done"
          /\ UNCHANGED <<calls, todo>>
    /\ UNCHANGED <<consumerVars, listed, reaping, reap, absences, missed, tm, inbox, changes, phase>>

(* Service.Run: the consumer's Run sets the parent context; at SIGTERM the  *)
(* context is cancelled and the consumer closed.                            *)
Run ==
    /\ booting = "done" /\ phase = "boot"
    /\ phase' = "running"
    /\ UNCHANGED <<consumerVars, calls, passVars, tm, inbox, changes, booting>>

Shutdown ==
    /\ phase = "running"
    /\ changes < MaxChanges /\ changes' = changes + 1
    /\ phase' = "cancelled"
    /\ UNCHANGED <<consumerVars, calls, passVars, tm, inbox, booting>>

Close ==
    /\ phase = "cancelled"
    /\ phase' = "closed"
    /\ registered' = {} /\ queued' = {} /\ known' = {}
    /\ started' = [t \in Tenants |-> 0]
    /\ UNCHANGED <<cached, epoch, held, loops, calls, passVars, tm, inbox, changes, booting>>

-----------------------------------------------------------------------------
(* The event listener handles Pub/Sub events one by one. *)
HandleEvent ==
    /\ inbox # <<>> /\ calls["events"] = Idle
    /\ inbox' = Tail(inbox)
    /\ LET t == Head(inbox).tenant
       IN  \/ /\ Head(inbox).added
              /\ known' = known \cup {t}
              /\ Call("events", Ensure(t))
              /\ UNCHANGED cached
           \/ /\ ~Head(inbox).added
              /\ cached' = cached \ {t}
              /\ Call("events", Stop(t))
              /\ UNCHANGED known
    /\ UNCHANGED <<registered, queued, epoch, held, loops, started, passVars,
                   tm, changes, phase, booting>>

(* A tenant changes at the Tenant Manager; the event may be lost. *)
TenantChanges(t) ==
    /\ changes < MaxChanges /\ changes' = changes + 1
    /\ \E s \in {"active", "inactive", "suspended"} \ {tm[t]} :
          /\ tm' = [tm EXCEPT ![t] = s]
          /\ \/ inbox' = Append(inbox, [tenant |-> t, added |-> s = "active"])
             \/ UNCHANGED inbox
    /\ UNCHANGED <<consumerVars, calls, passVars, phase, booting>>

-----------------------------------------------------------------------------
(* consumeQueue.  A loop ends with its root context or when GetChannel      *)
(* reports its tenant suspended, and then removes the tenant.               *)
Canceled(i) == Live(i) /\ loops[i].root = "run" /\ phase \in {"cancelled", "closed"}

LoopTo(i, state) == loops' = [loops EXCEPT ![i].state = state]
LoopEnds(i)      == loops' = [loops EXCEPT ![i] = Ended]

Connect(i) ==
    /\ loops[i].state = "connect"
    /\ IF Canceled(i) THEN LoopEnds(i)
       ELSE IF tm[loops[i].tenant] # "suspended" THEN LoopTo(i, "consume")
       ELSE loops' = [loops EXCEPT ![i].state = "remove", ![i].lock = epoch[loops[i].tenant]]
    /\ UNCHANGED <<registered, queued, known, cached, epoch, held, started, calls,
                   passVars, worldVars>>

ConsumeEnds(i) ==
    /\ loops[i].state = "consume"
    /\ \/ Canceled(i) /\ LoopEnds(i) /\ UNCHANGED changes
       \/ /\ changes < MaxChanges /\ changes' = changes + 1  \* the channel dies
          /\ LoopTo(i, "connect")
    /\ UNCHANGED <<registered, queued, known, cached, epoch, held, started, calls,
                   passVars, tm, inbox, phase, booting>>

RemoveTenant(i) ==
    /\ loops[i].state = "remove"
    /\ <<loops[i].tenant, loops[i].lock>> \notin held
    /\ Forget(loops[i].tenant)
    /\ cached' = cached \ {loops[i].tenant}
    /\ LoopEnds(i)
    /\ UNCHANGED <<held, calls, passVars, worldVars>>

LoopStep(i) == Connect(i) \/ RemoveTenant(i) \/ (ConsumeEnds(i) /\ Canceled(i))

-----------------------------------------------------------------------------
(* The reconciler: reconcileOnce and reapAbsentTenants. *)
Resting == reaping /\ reap = {} /\ calls["reconciler"] = Idle

(* Mutant: a tenant that is back keeps its absences. *)
ReconcileListKeepsAbsences ==
    /\ booting = "done" /\ phase \in {"boot", "running"} /\ Resting
    /\ listed' = {t \in Tenants : tm[t] = "active"}
    /\ todo' = listed'
    /\ reaping' = FALSE
    /\ missed' = [t \in Tenants |->
                     IF t \in listed' THEN 0
                     ELSE IF missed[t] = GraceTicks THEN GraceTicks ELSE missed[t] + 1]
    /\ UNCHANGED <<absences, reap, consumerVars, calls, worldVars>>

ReconcileList ==
    /\ booting = "done" /\ phase \in {"boot", "running"} /\ Resting
    /\ listed' = {t \in Tenants : tm[t] = "active"}
    /\ todo' = listed'
    /\ reaping' = FALSE
    /\ absences' = [t \in Tenants |-> IF t \in listed' THEN 0 ELSE absences[t]]
    /\ missed' = [t \in Tenants |->
                     IF t \in listed' THEN 0
                     ELSE IF missed[t] = GraceTicks THEN GraceTicks ELSE missed[t] + 1]
    /\ UNCHANGED <<reap, consumerVars, calls, worldVars>>

ReconcileEnsure ==
    /\ booting = "done" /\ calls["reconciler"] = Idle
    /\ \E t \in todo : Call("reconciler", Ensure(t)) /\ todo' = todo \ {t}
    /\ UNCHANGED <<consumerVars, listed, reaping, reap, absences, missed, worldVars>>

ReapSnapshot ==
    /\ booting = "done" /\ ~reaping /\ todo = {} /\ calls["reconciler"] = Idle
    /\ reaping' = TRUE
    /\ reap' = known \ listed
    /\ UNCHANGED <<consumerVars, calls, listed, todo, absences, missed, worldVars>>

(* Mutant: absences are not counted. *)
ReapAbsentTenantUncounted ==
    /\ calls["reconciler"] = Idle
    /\ \E t \in reap : reap' = reap \ {t}
    /\ UNCHANGED <<absences, calls, consumerVars, listed, todo, reaping, missed, worldVars>>

(* One tenant of the loop over that snapshot of KnownTenants. *)
ReapAbsentTenant ==
    /\ calls["reconciler"] = Idle
    /\ \E t \in reap :
          /\ reap' = reap \ {t}
          /\ IF absences[t] + 1 < GraceTicks
             THEN absences' = [absences EXCEPT ![t] = absences[t] + 1] /\ UNCHANGED calls
             ELSE absences' = [absences EXCEPT ![t] = 0] /\ Call("reconciler", Stop(t))
    /\ UNCHANGED <<consumerVars, listed, todo, reaping, missed, worldVars>>

ReconcileStep == ReconcileList \/ ReconcileEnsure \/ ReapSnapshot \/ ReapAbsentTenant

-----------------------------------------------------------------------------
Next ==
    \/ \E a \in Actors : CallStep(a)
    \/ Register \/ RegisterStart \/ InitialSyncList \/ InitialSync
    \/ Run \/ Shutdown \/ Close
    \/ HandleEvent
    \/ \E t \in Tenants : TenantChanges(t)
    \/ \E i \in LoopIds : Connect(i) \/ ConsumeEnds(i) \/ RemoveTenant(i)
    \/ ReconcileStep

Spec == Init /\ [][Next]_vars

(* Goroutines are never paused for good, the ticker keeps ticking, and a    *)
(* mutex that is free is granted.                                           *)
Fairness ==
    /\ \A a \in Actors : WF_vars(CallStep(a))
    /\ WF_vars(Register) /\ WF_vars(RegisterStart) /\ WF_vars(InitialSyncList)
    /\ WF_vars(InitialSync) /\ WF_vars(Run) /\ WF_vars(Close)
    /\ WF_vars(HandleEvent)
    /\ \A i \in LoopIds : WF_vars(LoopStep(i))
    /\ WF_vars(ReconcileStep)

FairSpec == Spec /\ Fairness

-----------------------------------------------------------------------------
(* Starts that race through different mutexes of one tenant never give a    *)
(* registration two consumer loops.                                         *)
OneLoopPerRegistration == \A t \in Tenants : started[t] <= 1

(* A call that was under way when the consumer was closed registers no      *)
(* tenant afterwards.                                                       *)
NothingStartsAfterClose == phase = "closed" => registered = {} /\ queued = {}

(* The reconciler stops only tenants that it missed in GraceTicks listings  *)
(* in a row.                                                                *)
StopOnlyAfterGrace ==
    [][\A t \in Tenants :
          calls["reconciler"] = Idle /\ calls'["reconciler"] # Idle
            /\ calls'["reconciler"].pc = "stop" /\ calls'["reconciler"].tenant = t
            => missed[t] >= GraceTicks]_vars

(* A tenant that stays active has a consumer loop in the end, although      *)
(* events are lost and stale loops and calls remove it in between.          *)
ActiveTenantServed ==
    \A t \in Tenants :
        <>[](tm[t] = "active" /\ phase = "running")
            => <>[](\E i \in LoopIds : Live(i) /\ loops[i].tenant = t)

(* A tenant that stays away is no longer registered in the end, although    *)
(* its removal event is lost or an earlier start is still under way.        *)
AbsentTenantForgotten ==
    \A t \in Tenants :
        <>[](tm[t] # "active" /\ phase = "running") => <>[](t \notin registered)

(* StopConsumer tears a tenant down: what is not registered is not consumed *)
(* for good.                                                                *)
StopTearsDown ==
    \A t \in Tenants :
        [](t \notin registered /\ phase = "running"
            => <>(t \in registered \/ phase # "running"
                    \/ \A i \in LoopIds : Live(i) => loops[i].tenant # t))
=============================================================================
