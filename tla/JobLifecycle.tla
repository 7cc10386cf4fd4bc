---------------------------- MODULE JobLifecycle ----------------------------
(***************************************************************************)
(* An extraction job from the client's request to the terminal event: the   *)
(* Manager's handlers, the job collection, the work queue, the Worker's     *)
(* handlers and the terminal-event repairers, running concurrently.         *)
(***************************************************************************)
EXTENDS CreateFetcherJob, TerminalEventRepairer

vars == <<storeVars, queueVars, managerVars, outputVars, workerVars,
          repairerVars, faults>>

TypeOK ==
    /\ faults \in 0..MaxFaults
    /\ StoreTypeOK
    /\ QueueTypeOK
    /\ ManagerTypeOK
    /\ WorkerTypeOK
    /\ RepairerTypeOK

Init ==
    /\ faults = 0
    /\ StoreInit
    /\ QueueInit
    /\ ManagerInit
    /\ WorkerInit
    /\ RepairerInit

ManagerNext ==
    /\ \E r \in Jobs : Submit(r) \/ HandlerStep(r) \/ ManagerCrash(r)
    /\ UNCHANGED <<outputVars, workerVars, repairerVars>>

WorkerNext ==
    /\ \E w \in Workers : WorkerStep(w) \/ WorkerFault(w)
    /\ UNCHANGED <<managerVars, repairerVars>>

RepairerNext ==
    /\ \E p \in Repairers : RepairerStep(p) \/ RepairerCrash(p)
    /\ UNCHANGED managerVars

TimePasses ==
    /\ WindowSlides
    /\ UNCHANGED <<queueVars, managerVars, outputVars, workerVars, repairerVars,
                   faults>>

(* No request is being served and no message is left. *)
Quiescent ==
    /\ \A r \in Jobs : mpc[r] \in {"idle", "done"} /\ ready[r] = 0
    /\ \A w \in Workers : wpc[w] = "idle"
    /\ UNCHANGED vars

Next == ManagerNext \/ WorkerNext \/ RepairerNext \/ TimePasses \/ Quiescent

(* Handlers and repairers are goroutines that are never paused for good,    *)
(* and RabbitMQ keeps delivering to an idle consumer.  Nothing is assumed   *)
(* of clients, of the passing of time or of failures.                       *)
Fairness ==
    /\ \A r \in Jobs :
          WF_vars(HandlerStep(r) /\ UNCHANGED <<outputVars, workerVars, repairerVars>>)
    /\ \A w \in Workers :
          WF_vars(WorkerStep(w) /\ UNCHANGED <<managerVars, repairerVars>>)
    /\ \A p \in Repairers :
          WF_vars(RepairerStep(p) /\ UNCHANGED managerVars)

Spec     == Init /\ [][Next]_vars
FairSpec == Spec /\ Fairness

-----------------------------------------------------------------------------
(* Safety, whatever fails. *)

Same(j, k) == RequestHash[j] = RequestHash[k]

(* uniq_job_hash_active: no two jobs with one request hash are pending or   *)
(* processing at once, although each status is written by several racing    *)
(* services and the index only sees the derived dedup_active flag.          *)
UniqueActiveHash ==
    \A j, k \in Jobs :
        /\ db[j].status \in ActiveStatuses
        /\ db[k].status \in ActiveStatuses
        /\ Same(j, k)
        => j = k

(* A completed job always refers to a result, and its object is in storage, *)
(* also when a redelivered message, a late compensation by the Manager or a *)
(* stale claim rewrote the document in between.                             *)
CompletedHasResult ==
    \A j \in Jobs : db[j].status = "completed" => db[j].result # None /\ stored[j] # None

(* The marker of a terminal job carries the event of that very status, so   *)
(* the repairer's "refusing to outbox contradictory terminal event" branch  *)
(* never leaves a marker that can not be repaired.                          *)
MarkerMatchesStatus ==
    \A j \in Jobs :
        db[j].status \in TerminalStatuses /\ db[j].marker # "none"
            => db[j].marker = db[j].status

(* No event is emitted before its terminal state was committed, by the      *)
(* handler, by a redelivery or by the repairer's snapshot.                  *)
EventAfterCommit == events \subseteq committed

-----------------------------------------------------------------------------
(* Safety without four kinds of failure, each of which lets the code write  *)
(* over the end of a job it does not know of: a lost confirm ("confirm"),   *)
(* after which the Manager gives up a job that the Worker has, or publishes *)
(* it twice; a channel that dies under a handler ("channel"), whose message *)
(* a second handler gets; a write that takes effect and reports an error    *)
(* ("ambiguous"); and a redelivery both of whose lookups fail ("blind"),    *)
(* which handleErrorWithUpdate turns into a failure whatever the job was.   *)
(* Crashes, panics, cancelled contexts, refused deliveries, single lookups  *)
(* and all other calls that fail are there.                                 *)

(* The services together implement the job contract: a job ends at most     *)
(* once, its end is not undone by the redelivery after a crash, and only    *)
(* the event of its end is announced.                                       *)
Contract == INSTANCE JobContract
              WITH state <- [j \in Jobs |-> db[j].status], announced <- events

ImplementsContract == Contract!Spec

(* A terminal state committed by the Worker has its event accepted, or      *)
(* keeps the marker from which the repairer will emit it.                   *)
EventNeverLost ==
    \A j \in Jobs, s \in TerminalStatuses :
        <<j, s>> \in committed => <<j, s>> \in events \/ db[j].marker = s

(* The HMAC stored with a completed job is the HMAC of the stored object. *)
IntegrityMatchesObject ==
    \A j \in Jobs : db[j].status = "completed" => db[j].result = stored[j]

-----------------------------------------------------------------------------
(* Liveness. *)

(* A job that was left in processing is taken further. *)
ProcessingResumes ==
    \A j \in Jobs : db[j].status = "processing" ~> db[j].status # "processing"
=============================================================================
