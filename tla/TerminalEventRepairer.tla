----------------------- MODULE TerminalEventRepairer ------------------------
(***************************************************************************)
(* The Worker's terminal-event repairer.  Every interval it lists the       *)
(* terminal jobs whose marker is still set and, from that listing, emits    *)
(* each event and clears the marker.  The listing is a snapshot: the        *)
(* document may have changed by the time its event is emitted or cleared.   *)
(* The batch limit and the order of the listing are left out: the listing   *)
(* is complete and taken in any order.                                      *)
(***************************************************************************)
EXTENDS ExtractExternalData

CONSTANT Repairers  \* one per Worker process

VARIABLES
    batch,    \* events listed and not yet tried
    clearing  \* the job whose event was just accepted, or None

repairerVars == <<batch, clearing>>

RepairerTypeOK ==
    /\ batch \in [Repairers -> SUBSET Events]
    /\ clearing \in [Repairers -> Jobs \cup {None}]

RepairerInit ==
    /\ batch = [p \in Repairers |-> {}]
    /\ clearing = [p \in Repairers |-> None]

(* An event that is not its job's status would be refused on the way out. *)
RepairList(p) ==
    /\ batch[p] = {} /\ clearing[p] = None
    /\ PendingTerminalEvents # {}
    /\ batch' = [batch EXCEPT ![p] =
                    {e \in PendingTerminalEvents : e[2] = db[e[1]].status}]
    /\ UNCHANGED <<clearing, storeVars, queueVars, outputVars, workerVars, faults>>

RepairPublish(p) ==
    /\ clearing[p] = None
    /\ \E e \in batch[p] :
          /\ batch' = [batch EXCEPT ![p] = batch[p] \ {e}]
          /\ \/ Accept(e) /\ clearing' = [clearing EXCEPT ![p] = e[1]] /\ NoFault
             \/ Fail("stream") /\ UNCHANGED <<events, clearing>>
             \/ Fail("ambiguous") /\ Accept(e) /\ UNCHANGED clearing
    /\ UNCHANGED <<storeVars, queueVars, stored, workerVars>>

RepairClear(p) ==
    /\ clearing[p] # None
    /\ ClearTerminalEventMetadata(clearing[p])
    /\ clearing' = [clearing EXCEPT ![p] = None]
    /\ UNCHANGED <<batch, queueVars, outputVars, workerVars>>

RepairerCrash(p) ==
    /\ batch[p] # {} \/ clearing[p] # None
    /\ Fail("crash")
    /\ batch' = [batch EXCEPT ![p] = {}]
    /\ clearing' = [clearing EXCEPT ![p] = None]
    /\ UNCHANGED <<storeVars, queueVars, outputVars, workerVars>>

RepairerStep(p) == RepairList(p) \/ RepairPublish(p) \/ RepairClear(p)
=============================================================================
