----------------------- MODULE TenantConsumersProofs ------------------------
(***************************************************************************)
(* Proofs about TenantConsumers for any set of tenants, any grace period    *)
(* and any number of changes, callers and loops.  The tenant mutexes do not *)
(* appear in the argument: StopConsumer replaces them, so what protects a   *)
(* registration is c.mu alone.                                              *)
(***************************************************************************)
EXTENDS TenantConsumers, TLAPS

(* The loops started for a registration are those its queue map records. *)
StartsMatchQueues ==
    /\ started \in [Tenants -> {0, 1}]
    /\ \A t \in Tenants : started[t] = IF t \in queued THEN 1 ELSE 0

(* A tenant of the current pass whose absence is still to be counted. *)
Uncounted(t) == t \notin listed /\ (~reaping \/ t \in reap)

(* A counter never runs ahead of the listings that missed the tenant, and   *)
(* is behind them while the current pass has not counted it.                *)
AbsencesBehind ==
    /\ absences \in [Tenants -> 0..(GraceTicks - 1)]
    /\ missed \in [Tenants -> 0..GraceTicks]
    /\ reap \cap listed = {}
    /\ ~reaping => reap = {}
    /\ \A t \in Tenants :
          /\ absences[t] <= missed[t]
          /\ Uncounted(t) => absences[t] + 1 <= missed[t]

CallsTyped == calls = [a \in Actors |-> calls[a]]

IInv == StartsMatchQueues /\ NothingStartsAfterClose /\ AbsencesBehind /\ CallsTyped

(* startTenantConsumer keeps both facts about registrations. *)
LEMMA StartTenantKeeps ==
    ASSUME NEW t, NEW root, StartsMatchQueues, NothingStartsAfterClose,
           StartTenant(t, root), phase' = phase
    PROVE  StartsMatchQueues' /\ NothingStartsAfterClose'
<1>1. CASE phase \in {"init", "closed"}
  BY <1>1 DEF StartTenant, StartsMatchQueues, NothingStartsAfterClose
<1>2. CASE phase \notin {"init", "closed"} /\ t \in queued
  BY <1>2 DEF StartTenant, StartsMatchQueues, NothingStartsAfterClose
<1>3. CASE phase \notin {"init", "closed"} /\ t \notin queued
  <2>1. started' = [started EXCEPT ![t] = started[t] + 1] /\ queued' = queued \cup {t}
    BY <1>3 DEF StartTenant
  <2>2. StartsMatchQueues'
    <3>1. t \in Tenants => started[t] = 0
      BY <1>3 DEF StartsMatchQueues
    <3>2. started' \in [Tenants -> {0, 1}]
      <4>1. started' = [u \in Tenants |-> started'[u]]
        BY <2>1 DEF StartsMatchQueues
      <4>2. ASSUME NEW u \in Tenants PROVE started'[u] \in {0, 1}
        <5>1. CASE u = t
          BY <2>1, <3>1, <5>1 DEF StartsMatchQueues
        <5>2. CASE u # t
          BY <2>1, <5>2 DEF StartsMatchQueues
        <5>q. QED BY <5>1, <5>2
      <4>q. QED BY <4>1, <4>2
    <3>3. ASSUME NEW u \in Tenants
          PROVE  started'[u] = IF u \in queued' THEN 1 ELSE 0
      <4>1. CASE u = t
        BY <2>1, <3>1, <4>1 DEF StartsMatchQueues
      <4>2. CASE u # t
        BY <2>1, <4>2 DEF StartsMatchQueues
      <4>q. QED BY <4>1, <4>2
    <3>q. QED BY <3>2, <3>3 DEF StartsMatchQueues
  <2>3. NothingStartsAfterClose'
    BY <1>3 DEF NothingStartsAfterClose
  <2>q. QED BY <2>2, <2>3
<1>q. QED BY <1>1, <1>2, <1>3

(* StopConsumer and removeTenant keep both facts about registrations. *)
LEMMA ForgetKeeps ==
    ASSUME NEW t, StartsMatchQueues, NothingStartsAfterClose, Forget(t), phase' = phase
    PROVE  StartsMatchQueues' /\ NothingStartsAfterClose'
BY DEF Forget, StartsMatchQueues, NothingStartsAfterClose

(* Every step keeps both facts about registrations. *)
LEMMA RegistrationStep ==
    ASSUME StartsMatchQueues, NothingStartsAfterClose, [Next]_vars
    PROVE  StartsMatchQueues' /\ NothingStartsAfterClose'
<1>0. ASSUME UNCHANGED consumerVars, phase' \in {phase} \cup {"boot", "running", "cancelled"}
      PROVE  StartsMatchQueues' /\ NothingStartsAfterClose'
  BY <1>0 DEF consumerVars, StartsMatchQueues, NothingStartsAfterClose
<1>1. ASSUME NEW a \in Actors, CallStep(a)
      PROVE  StartsMatchQueues' /\ NothingStartsAfterClose'
  <2>1. CASE Check(a)
    BY <2>1, <1>0 DEF Check, worldVars
  <2>2. CASE Load(a) \/ Mark(a) \/ Acquire(a) \/ ClosePools(a)
    BY <2>2 DEF Load, Mark, Acquire, ClosePools, worldVars,
                StartsMatchQueues, NothingStartsAfterClose
  <2>3. CASE Start(a)
    BY <2>3, StartTenantKeeps DEF Start, worldVars
  <2>4. CASE StopConsumer(a)
    BY <2>4, ForgetKeeps DEF StopConsumer, worldVars
  <2>q. QED BY <1>1, <2>1, <2>2, <2>3, <2>4 DEF CallStep
<1>2. CASE Register
  BY <1>2 DEF Register, StartsMatchQueues, NothingStartsAfterClose
<1>3. CASE RegisterStart
  BY <1>3, StartTenantKeeps DEF RegisterStart, worldVars
<1>4. CASE InitialSyncList \/ InitialSync \/ Run \/ Shutdown
  BY <1>4, <1>0 DEF InitialSyncList, InitialSync, Run, Shutdown
<1>5. CASE Close
  BY <1>5 DEF Close, StartsMatchQueues, NothingStartsAfterClose
<1>6. CASE HandleEvent
  BY <1>6 DEF HandleEvent, StartsMatchQueues, NothingStartsAfterClose
<1>7. ASSUME NEW t \in Tenants, TenantChanges(t)
      PROVE  StartsMatchQueues' /\ NothingStartsAfterClose'
  BY <1>7, <1>0 DEF TenantChanges
<1>8. ASSUME NEW i \in LoopIds, Connect(i) \/ ConsumeEnds(i) \/ RemoveTenant(i)
      PROVE  StartsMatchQueues' /\ NothingStartsAfterClose'
  <2>1. CASE Connect(i) \/ ConsumeEnds(i)
    BY <2>1 DEF Connect, ConsumeEnds, worldVars, StartsMatchQueues, NothingStartsAfterClose
  <2>2. CASE RemoveTenant(i)
    BY <2>2, ForgetKeeps DEF RemoveTenant, worldVars
  <2>q. QED BY <1>8, <2>1, <2>2
<1>9. CASE ReconcileStep
  BY <1>9, <1>0 DEF ReconcileStep, ReconcileList, ReconcileEnsure, ReapSnapshot,
                    ReapAbsentTenant, worldVars
<1>10. CASE UNCHANGED vars
  BY <1>10, <1>0 DEF vars, worldVars
<1>q. QED
  BY <1>1, <1>2, <1>3, <1>4, <1>5, <1>6, <1>7, <1>8, <1>9, <1>10 DEF Next

(* Every step keeps calls a function on the actors. *)
LEMMA CallsStep == ASSUME CallsTyped, [Next]_vars PROVE CallsTyped'
<1>1. ASSUME NEW a \in Actors, NEW next, Call(a, next) PROVE CallsTyped'
  BY <1>1 DEF Call, CallsTyped
<1>2. ASSUME UNCHANGED calls PROVE CallsTyped'
  BY <1>2 DEF CallsTyped
<1>3. ASSUME NEW a \in Actors, CallStep(a) PROVE CallsTyped'
  BY <1>1, <1>2, <1>3 DEF CallStep, Check, Load, Mark, Acquire, Start, StopConsumer,
     ClosePools, Return
<1>4. CASE ReconcileStep
  BY <1>1, <1>2, <1>4 DEF ReconcileStep, ReconcileList, ReconcileEnsure, ReapSnapshot,
     ReapAbsentTenant, Actors
<1>5. CASE InitialSync \/ HandleEvent
  BY <1>1, <1>2, <1>5 DEF InitialSync, HandleEvent, Actors
<1>q. QED
  BY <1>2, <1>3, <1>4, <1>5 DEF Next, Register, RegisterStart, InitialSyncList, Run,
     Shutdown, Close, TenantChanges, Connect, ConsumeEnds, RemoveTenant, vars

(* Every step keeps the counters behind the listings. *)
LEMMA AbsencesStep ==
    ASSUME AbsencesBehind, [Next]_vars
    PROVE  AbsencesBehind'
<1>0. GraceTicks \in Nat \ {0}
  BY TenantAssumption
<1>1. ASSUME UNCHANGED <<listed, reaping, reap, absences, missed>>
      PROVE  AbsencesBehind'
  BY <1>1 DEF AbsencesBehind, Uncounted
<1>2. CASE ReconcileList
  <2>1. /\ listed' \cap reap' = {} /\ reap' = {}
        /\ absences' = [t \in Tenants |-> IF t \in listed' THEN 0 ELSE absences[t]]
        /\ missed' = [t \in Tenants |->
              IF t \in listed' THEN 0
              ELSE IF missed[t] = GraceTicks THEN GraceTicks ELSE missed[t] + 1]
    BY <1>2 DEF ReconcileList, Resting
  <2>q. QED BY <1>0, <2>1 DEF AbsencesBehind, Uncounted
<1>3. CASE ReapSnapshot
  <2>1. /\ ~reaping /\ reaping' /\ reap' \cap listed' = {}
        /\ UNCHANGED <<listed, absences, missed>>
    BY <1>3 DEF ReapSnapshot
  <2>q. QED BY <2>1 DEF AbsencesBehind, Uncounted
<1>4. CASE ReapAbsentTenant
  <2>1. PICK t \in reap :
          /\ reap' = reap \ {t}
          /\ IF absences[t] + 1 < GraceTicks
             THEN absences' = [absences EXCEPT ![t] = absences[t] + 1]
             ELSE absences' = [absences EXCEPT ![t] = 0]
    BY <1>4 DEF ReapAbsentTenant
  <2>2. UNCHANGED <<listed, reaping, missed>>
    BY <1>4 DEF ReapAbsentTenant
  <2>3. t \in Tenants => absences[t] + 1 <= missed[t]
    BY DEF AbsencesBehind, Uncounted
  <2>4. absences' \in [Tenants -> 0..(GraceTicks - 1)]
    BY <1>0, <2>1 DEF AbsencesBehind
  <2>5. ASSUME NEW u \in Tenants
        PROVE  (absences[u] <= missed[u] /\ (Uncounted(u) => absences[u] + 1 <= missed[u]))'
    <3>1. CASE u = t
      <4>1. ~Uncounted(u)'
        BY <2>1, <2>2, <3>1 DEF Uncounted, AbsencesBehind
      <4>2. absences[t] \in Nat /\ missed[t] \in Nat /\ absences[t] + 1 <= missed[t]
        BY <1>0, <2>3, <3>1 DEF AbsencesBehind
      <4>3. absences'[t] \in {0, absences[t] + 1}
        BY <2>1, <3>1 DEF AbsencesBehind
      <4>q. QED BY <2>2, <3>1, <4>1, <4>2, <4>3
    <3>2. CASE u # t
      BY <2>1, <2>2, <3>2 DEF AbsencesBehind, Uncounted
    <3>q. QED BY <3>1, <3>2
  <2>q. QED BY <2>1, <2>2, <2>4, <2>5 DEF AbsencesBehind
<1>q. QED
  BY <1>1, <1>2, <1>3, <1>4
  DEF Next, CallStep, Check, Load, Mark, Acquire, Start, StopConsumer, ClosePools,
      Register, RegisterStart, InitialSyncList, InitialSync, Run, Shutdown, Close,
      HandleEvent, TenantChanges, Connect, ConsumeEnds, RemoveTenant, ReconcileStep,
      ReconcileEnsure, passVars, vars

(* The inductive invariant: no order of starts, stops, events, passes and   *)
(* shutdown of the Worker's tenant consumer breaks it.                      *)
THEOREM TenantInductiveInvariant == Spec => []IInv
<1>1. Init => IInv
  <2> SUFFICES ASSUME Init PROVE IInv
    OBVIOUS
  <2>1. StartsMatchQueues /\ NothingStartsAfterClose /\ CallsTyped
    BY DEF Init, StartsMatchQueues, NothingStartsAfterClose, CallsTyped
  <2>2. AbsencesBehind
    BY TenantAssumption DEF Init, AbsencesBehind, Uncounted
  <2>q. QED BY <2>1, <2>2 DEF IInv
<1>2. IInv /\ [Next]_vars => IInv'
  BY RegistrationStep, CallsStep, AbsencesStep DEF IInv
<1>q. QED BY <1>1, <1>2, PTL DEF Spec

(* EnsureConsumerStarted is idempotent under every race: a registration     *)
(* never has two consumer loops.                                            *)
THEOREM OneLoop == Spec => []OneLoopPerRegistration
<1>1. IInv => OneLoopPerRegistration
  BY DEF IInv, StartsMatchQueues, OneLoopPerRegistration
<1>q. QED BY <1>1, TenantInductiveInvariant, PTL

(* Nothing is registered after Close, whatever call was under way. *)
THEOREM ClosedForGood == Spec => []NothingStartsAfterClose
<1>1. IInv => NothingStartsAfterClose
  BY DEF IInv
<1>q. QED BY <1>1, TenantInductiveInvariant, PTL

(* The reconciler's reaper respects the grace period for every GraceTicks.  *)
THEOREM GraceRespected == Spec => StopOnlyAfterGrace
<1> DEFINE Stops(t) ==
      calls["reconciler"] = Idle /\ calls'["reconciler"] # Idle
        /\ calls'["reconciler"].pc = "stop" /\ calls'["reconciler"].tenant = t
<1>1. ASSUME IInv, [Next]_vars, NEW t \in Tenants, Stops(t)
      PROVE  missed[t] >= GraceTicks
  <2>0. CallsTyped /\ "reconciler" \in Actors
    BY <1>1 DEF IInv, Actors
  <2>1. ASSUME NEW a \in Actors, NEW next, Call(a, next), a # "reconciler" PROVE FALSE
    BY <1>1, <2>0, <2>1 DEF Call, CallsTyped
  <2>2. ASSUME UNCHANGED calls PROVE FALSE
    BY <1>1, <2>2
  <2>3. ASSUME NEW a \in Actors, CallStep(a) PROVE FALSE
    <3>1. CASE a = "reconciler"
      BY <1>1, <2>3, <3>1 DEF CallStep, Check, Load, Mark, Acquire, Start, StopConsumer,
         ClosePools, Idle
    <3>2. CASE a # "reconciler"
      BY <2>1, <2>2, <2>3, <3>2 DEF CallStep, Check, Load, Mark, Acquire, Start,
         StopConsumer, ClosePools, Return
    <3>q. QED BY <3>1, <3>2
  <2>4. ASSUME InitialSync \/ HandleEvent PROVE FALSE
    BY <2>1, <2>2, <2>4 DEF InitialSync, HandleEvent, Actors
  <2>5. ASSUME ReconcileEnsure PROVE FALSE
    <3>1. PICK u : calls' = [calls EXCEPT !["reconciler"] = Ensure(u)]
      BY <2>5 DEF ReconcileEnsure, Call
    <3>q. QED BY <1>1, <2>0, <3>1 DEF CallsTyped, Ensure
  <2>6. CASE ReapAbsentTenant
    <3>1. PICK u \in reap :
            \/ UNCHANGED calls
            \/ ~(absences[u] + 1 < GraceTicks) /\ Call("reconciler", Stop(u))
      BY <2>6 DEF ReapAbsentTenant
    <3>2. ~(absences[u] + 1 < GraceTicks) /\ calls'["reconciler"] = Stop(u)
      BY <2>0, <2>2, <3>1 DEF Call, CallsTyped
    <3>3. u = t
      BY <1>1, <3>2 DEF Stop
    <3>4. absences[t] + 1 <= missed[t]
      BY <1>1, <3>3 DEF IInv, AbsencesBehind, Uncounted
    <3>q. QED BY <1>1, <3>2, <3>3, <3>4, TenantAssumption DEF IInv, AbsencesBehind
  <2>q. QED
    BY <1>1, <2>2, <2>3, <2>4, <2>5, <2>6 DEF Next, Register, RegisterStart,
       InitialSyncList, Run, Shutdown, Close, TenantChanges, Connect, ConsumeEnds,
       RemoveTenant, ReconcileStep, ReconcileList, ReapSnapshot, vars
<1>2. IInv /\ [Next]_vars =>
        [\A t \in Tenants : Stops(t) => missed[t] >= GraceTicks]_vars
  BY <1>1
<1>q. QED BY <1>2, TenantInductiveInvariant, PTL DEF Spec, StopOnlyAfterGrace
=============================================================================
