------------------------- MODULE JobLifecycleProofs -------------------------
(***************************************************************************)
(* Proofs about JobLifecycle for every set of jobs, workers and repairers,  *)
(* every assignment of request hashes, and every kind and number of         *)
(* failures.                                                                *)
(***************************************************************************)
EXTENDS JobLifecycle, TLAPS

-----------------------------------------------------------------------------
(* What the collection keeps on its own. *)

(* dedup_active is in step with the status. *)
DedupMatchesStatus ==
    \A j \in Jobs : db[j].dedupActive = isDedupActive(db[j].status)

(* A marker carries an event whose status was committed. *)
MarkerCommitted ==
    \A j \in Jobs : db[j].marker # "none" => <<j, db[j].marker>> \in committed

(* A completed document refers to a result. *)
CompletedRefersToResult ==
    \A j \in Jobs : db[j].status = "completed" => db[j].result # None

StoreInv ==
    /\ StoreTypeOK
    /\ DedupMatchesStatus
    /\ UniqueActiveHash
    /\ MarkerMatchesStatus
    /\ MarkerCommitted
    /\ CompletedRefersToResult

(* A handler that may still publish has an attempt left. *)
ManagerInv ==
    /\ ManagerTypeOK
    /\ \A r \in Jobs : mpc[r] \notin {"compensate", "done"}
                          => attempts[r] < MaxPublishAttempts

(* What handlers and repairers carry between two calls. *)
StoredBeforeCompleted ==
    /\ \A j \in Jobs : db[j].status = "completed" => stored[j] # None
    /\ \A w \in Workers : wpc[w] = "complete" => stored[wjob[w]] # None

CarriedEventsCommitted ==
    /\ \A w \in Workers :
          wpc[w] \in {"publish", "republish"} => <<wjob[w], wevent[w]>> \in committed
    /\ \A p \in Repairers : batch[p] \subseteq committed
    /\ events \subseteq committed

IInv ==
    /\ faults \in 0..MaxFaults
    /\ StoreInv
    /\ QueueTypeOK
    /\ ManagerInv
    /\ WorkerTypeOK
    /\ RepairerTypeOK
    /\ StoredBeforeCompleted
    /\ CarriedEventsCommitted

-----------------------------------------------------------------------------
(* The store's operations preserve StoreInv. *)

(* A document inserted when the index sees no conflict. *)
LEMMA InsertOneStoreInv ==
    ASSUME StoreInv, NEW r \in Jobs, ~DuplicateKey(r, "pending"), InsertOne(r)
    PROVE  StoreInv'
<1> USE JobStoreAssumption DEF StoreInv
<1>1. /\ db' = [db EXCEPT ![r] = [status |-> "pending", dedupActive |-> TRUE,
                                  marker |-> "none", result |-> None]]
      /\ UNCHANGED <<createdAt, clock, horizon, committed>>
  BY DEF InsertOne, isDedupActive, ActiveStatuses
<1>2. StoreTypeOK'
  BY <1>1 DEF StoreTypeOK, Document, Statuses, ActiveStatuses, TerminalStatuses
<1>3. \A k \in Jobs : k # r => db'[k] = db[k]
  BY <1>1 DEF StoreTypeOK
<1>4. /\ db'[r].status = "pending" /\ db'[r].dedupActive = TRUE
      /\ db'[r].marker = "none"
  BY <1>1 DEF StoreTypeOK
<1>5. DedupMatchesStatus'
  BY <1>3, <1>4 DEF DedupMatchesStatus, isDedupActive, ActiveStatuses
<1>6. UniqueActiveHash'
  <2>1. \A k \in Jobs \ {r} : db[k].status \in ActiveStatuses => RequestHash[k] # RequestHash[r]
    BY DEF DuplicateKey, DedupMatchesStatus, isDedupActive, ActiveStatuses
  <2>2. \A j, k \in Jobs \ {r} :
          /\ db'[j].status \in ActiveStatuses /\ db'[k].status \in ActiveStatuses
          /\ Same(j, k)
          => j = k
    BY <1>3 DEF UniqueActiveHash
  <2>3. \A k \in Jobs \ {r} : db'[k].status \in ActiveStatuses => ~Same(k, r) /\ ~Same(r, k)
    BY <1>3, <2>1 DEF Same
  <2> QED BY <2>2, <2>3 DEF UniqueActiveHash
<1>7. MarkerMatchesStatus' /\ MarkerCommitted' /\ CompletedRefersToResult'
  BY <1>1, <1>3, <1>4 DEF MarkerMatchesStatus, MarkerCommitted,
     CompletedRefersToResult, TerminalStatuses
<1> QED BY <1>2, <1>5, <1>6, <1>7

(* The status updates the Worker makes: a claim without an event, or an end *)
(* with the event of that status, a completed one with its result.          *)
LEMMA SetStatusStoreInv ==
    ASSUME StoreInv, NEW j \in Jobs, NEW status, NEW result \in Workers \cup {None},
           NEW event, ~DuplicateKey(j, status),
           SetStatus(j, status, result, event),
           \/ status = "processing" /\ event = "none"
           \/ status \in TerminalStatuses /\ event = status,
           status = "completed" => result # None
    PROVE  StoreInv'
<1> USE JobStoreAssumption DEF StoreInv
<1> DEFINE newMarker == IF event = "none" THEN db[j].marker ELSE event
           newResult == IF result = None THEN db[j].result ELSE result
<1>1. /\ db' = [db EXCEPT ![j] = [status |-> status,
                                  dedupActive |-> isDedupActive(status),
                                  marker |-> newMarker, result |-> newResult]]
      /\ committed' = IF event = "none" THEN committed
                                        ELSE committed \cup {<<j, event>>}
      /\ UNCHANGED <<createdAt, clock, horizon>>
  BY DEF SetStatus
<1>2. /\ newMarker \in {"none"} \cup TerminalStatuses
      /\ newResult \in Workers \cup {None}
      /\ isDedupActive(status) \in BOOLEAN
      /\ status \in Statuses
  BY DEF StoreTypeOK, Document, Statuses, ActiveStatuses, TerminalStatuses, isDedupActive
<1>3. StoreTypeOK'
  <2>1. db' \in [Jobs -> Document]
    BY <1>1, <1>2 DEF StoreTypeOK, Document
  <2>2. committed' \subseteq Events
    BY <1>1 DEF StoreTypeOK, Events, TerminalStatuses
  <2> QED BY <1>1, <2>1, <2>2 DEF StoreTypeOK
<1>4. \A k \in Jobs : k # j => db'[k] = db[k]
  BY <1>1 DEF StoreTypeOK
<1>5. /\ db'[j].status = status /\ db'[j].dedupActive = isDedupActive(status)
      /\ db'[j].marker = newMarker /\ db'[j].result = newResult
  BY <1>1 DEF StoreTypeOK
<1>6. DedupMatchesStatus'
  BY <1>4, <1>5 DEF DedupMatchesStatus
<1>7. UniqueActiveHash'
  BY <1>4, <1>5 DEF UniqueActiveHash, Same, DuplicateKey, DedupMatchesStatus,
     isDedupActive
<1>8. MarkerMatchesStatus'
  BY <1>4, <1>5 DEF MarkerMatchesStatus, TerminalStatuses
<1>9. MarkerCommitted'
  <2> SUFFICES ASSUME NEW k \in Jobs, db'[k].marker # "none"
               PROVE  <<k, db'[k].marker>> \in committed'
    BY DEF MarkerCommitted
  <2>1. committed \subseteq committed'
    BY <1>1
  <2>2. CASE k # j
    BY <2>1, <2>2, <1>4 DEF MarkerCommitted
  <2>3. CASE k = j /\ event = "none"
    BY <2>1, <2>3, <1>5 DEF MarkerCommitted
  <2>4. CASE k = j /\ event # "none"
    BY <2>4, <1>1, <1>5
  <2> QED BY <2>2, <2>3, <2>4
<1>10. CompletedRefersToResult'
  BY <1>4, <1>5 DEF CompletedRefersToResult
<1> HIDE DEF newMarker, newResult
<1> QED BY <1>3, <1>6, <1>7, <1>8, <1>9, <1>10

(* The Manager's overwrite of a job whose message it could not publish. *)
LEMMA OverwriteFailedStoreInv ==
    ASSUME StoreInv, NEW j \in Jobs, OverwriteFailed(j)
    PROVE  StoreInv'
<1> USE JobStoreAssumption DEF StoreInv
<1>1. /\ db' = [db EXCEPT ![j] = [status |-> "failed", dedupActive |-> FALSE,
                                  marker |-> "none", result |-> None]]
      /\ UNCHANGED <<createdAt, clock, horizon, committed>>
  <2>1. isDedupActive("failed") = FALSE
    BY DEF isDedupActive, ActiveStatuses
  <2> QED BY <2>1 DEF OverwriteFailed
<1>2. StoreTypeOK'
  BY <1>1 DEF StoreTypeOK, Document, Statuses, ActiveStatuses, TerminalStatuses
<1>3. \A k \in Jobs : k # j => db'[k] = db[k]
  BY <1>1 DEF StoreTypeOK
<1>4. /\ db'[j].status = "failed" /\ db'[j].dedupActive = FALSE
      /\ db'[j].marker = "none"
  BY <1>1 DEF StoreTypeOK
<1>5. DedupMatchesStatus'
  <2>1. isDedupActive(db'[j].status) = FALSE
    BY <1>4 DEF isDedupActive, ActiveStatuses
  <2> QED BY <1>3, <1>4, <2>1 DEF DedupMatchesStatus
<1>7. UniqueActiveHash'
  BY <1>3, <1>4 DEF UniqueActiveHash, Same, ActiveStatuses
<1>6. MarkerMatchesStatus' /\ MarkerCommitted' /\ CompletedRefersToResult'
  BY <1>1, <1>3, <1>4 DEF MarkerMatchesStatus, MarkerCommitted,
     CompletedRefersToResult, TerminalStatuses
<1> QED BY <1>2, <1>5, <1>6, <1>7

(* Clearing a marker touches no status and forgets no committed state. *)
LEMMA ClearStoreInv ==
    ASSUME StoreInv, NEW j \in Jobs, ClearTerminalEventMetadata(j)
    PROVE  /\ StoreInv'
           /\ committed' = committed
           /\ \A k \in Jobs : db'[k].status = db[k].status
<1> USE JobStoreAssumption DEF StoreInv
<1>1. CASE UNCHANGED storeVars
  BY <1>1 DEF storeVars, StoreTypeOK, DedupMatchesStatus, UniqueActiveHash, Same,
     MarkerMatchesStatus, MarkerCommitted, CompletedRefersToResult
<1>2. CASE /\ db' = [db EXCEPT ![j] = [db[j] EXCEPT !.marker = "none"]]
           /\ UNCHANGED <<createdAt, clock, horizon, committed>>
  <2>0. db[j] \in Document
    BY DEF StoreTypeOK
  <2>1. \A k \in Jobs : k # j => db'[k] = db[k]
    BY <1>2 DEF StoreTypeOK
  <2>2. /\ db'[j] = [db[j] EXCEPT !.marker = "none"]
        /\ db'[j] \in Document
        /\ db'[j].status = db[j].status /\ db'[j].dedupActive = db[j].dedupActive
        /\ db'[j].marker = "none" /\ db'[j].result = db[j].result
    BY <1>2, <2>0 DEF StoreTypeOK, Document
  <2>3. StoreTypeOK'
    BY <1>2, <2>1, <2>2 DEF StoreTypeOK
  <2>4. \A k \in Jobs : /\ db'[k].status = db[k].status
                        /\ db'[k].dedupActive = db[k].dedupActive
    BY <2>1, <2>2
  <2>5. DedupMatchesStatus'
    BY <2>4 DEF DedupMatchesStatus
  <2>6. UniqueActiveHash'
    BY <2>4 DEF UniqueActiveHash, Same
  <2>7. MarkerMatchesStatus' /\ MarkerCommitted' /\ CompletedRefersToResult'
    BY <1>2, <2>1, <2>2 DEF MarkerMatchesStatus, MarkerCommitted,
       CompletedRefersToResult
  <2> QED BY <1>2, <2>3, <2>4, <2>5, <2>6, <2>7
<1> QED BY <1>1, <1>2 DEF ClearTerminalEventMetadata

(* StoreInv speaks of the collection only. *)
LEMMA StoreUnchangedInv ==
    ASSUME StoreInv, UNCHANGED <<db, committed>>,
           createdAt' \in [Jobs -> Nat], clock' \in Nat, horizon' \in Nat
    PROVE  StoreInv'
BY DEF StoreInv, StoreTypeOK, DedupMatchesStatus, UniqueActiveHash, Same,
   MarkerMatchesStatus, MarkerCommitted, CompletedRefersToResult

(* A step that leaves the collection alone keeps its invariant. *)
LEMMA StoreStutterInv ==
    ASSUME StoreInv, UNCHANGED storeVars
    PROVE  /\ StoreInv' /\ committed' = committed /\ db' = db
BY StoreUnchangedInv DEF storeVars, StoreInv, StoreTypeOK

(* The budget of failures is never overdrawn. *)
LEMMA FailBound ==
    ASSUME faults \in 0..MaxFaults, NEW kind, Fail(kind) \/ NoFault
    PROVE  faults' \in 0..MaxFaults
BY FaultsAssumption DEF Fail, NoFault

(* The write that ends a job, whether it succeeds, fails, or fails after    *)
(* taking effect.                                                           *)
LEMMA StatusWriteInv ==
    ASSUME StoreInv, faults \in 0..MaxFaults,
           NEW j \in Jobs, NEW status, NEW result \in Workers \cup {None}, NEW event,
           status \in TerminalStatuses, event = status,
           status = "completed" => result # None,
           \/ UpdateStatus(j, status, result, event)
           \/ UpdateStatusError(j, status, result, event)
    PROVE  /\ StoreInv'
           /\ faults' \in 0..MaxFaults
           /\ committed \subseteq committed'
           /\ UpdateStatus(j, status, result, event) /\ event # "none"
                => <<j, event>> \in committed'
           /\ \A k \in Jobs : db'[k].status = "completed"
                => db[k].status = "completed" \/ (k = j /\ status = "completed")
<1>1. faults' \in 0..MaxFaults
  BY FailBound DEF UpdateStatus, UpdateStatusError
<1>2. CASE UNCHANGED storeVars /\ ~UpdateStatus(j, status, result, event)
  BY <1>1, <1>2, StoreStutterInv
<1>3. CASE ~DuplicateKey(j, status) /\ SetStatus(j, status, result, event)
  <2>1. StoreInv'
    BY <1>3, SetStatusStoreInv
  <2>2. committed' = IF event = "none" THEN committed
                                       ELSE committed \cup {<<j, event>>}
    BY <1>3 DEF SetStatus
  <2>3. \A k \in Jobs : db'[k].status = "completed"
                => db[k].status = "completed" \/ (k = j /\ status = "completed")
    BY <1>3 DEF SetStatus, StoreInv, StoreTypeOK
  <2> QED BY <1>1, <2>1, <2>2, <2>3
<1> QED BY <1>2, <1>3 DEF UpdateStatus, UpdateStatusError

(* The write that claims a job carries neither result nor event. *)
LEMMA ClaimWriteInv ==
    ASSUME StoreInv, faults \in 0..MaxFaults, NEW j \in Jobs,
           \/ UpdateStatus(j, "processing", None, "none")
           \/ UpdateStatusError(j, "processing", None, "none")
    PROVE  /\ StoreInv'
           /\ faults' \in 0..MaxFaults
           /\ committed \subseteq committed'
           /\ \A k \in Jobs : db'[k].status = "completed" => db[k].status = "completed"
<1>1. faults' \in 0..MaxFaults
  BY FailBound DEF UpdateStatus, UpdateStatusError
<1>2. CASE UNCHANGED storeVars
  BY <1>1, <1>2, StoreStutterInv
<1>3. CASE ~DuplicateKey(j, "processing") /\ SetStatus(j, "processing", None, "none")
  <2>0. "processing" = "completed" => None # None
    OBVIOUS
  <2>1. StoreInv'
    BY <1>3, <2>0, SetStatusStoreInv
  <2>2. /\ committed' = committed
        /\ \A k \in Jobs : db'[k].status = "completed" => db[k].status = "completed"
    BY <1>3 DEF SetStatus, StoreInv, StoreTypeOK
  <2> QED BY <1>1, <2>1, <2>2
<1> QED BY <1>2, <1>3 DEF UpdateStatus, UpdateStatusError

-----------------------------------------------------------------------------
(* The Manager. *)

(* A Manager handler that goes on to another point of Execute. *)
LEMMA ContinueType ==
    ASSUME ManagerInv, NEW r \in Jobs, NEW next \in ManagerPCs, Continue(r, next),
           mpc[r] \in {"compensate", "done"} => next = "done"
    PROVE  ManagerInv'
BY DEF ManagerInv, ManagerTypeOK, Continue

(* A Manager handler that answers its client. *)
LEMMA AnswerType ==
    ASSUME ManagerInv, NEW r \in Jobs,
           \/ AnswerError(r)
           \/ Answer(r, "created", None)
           \/ \E k \in Jobs : AnswerDuplicate(r, k)
    PROVE  ManagerInv'
<1>1. "done" \in ManagerPCs
  BY DEF ManagerPCs
<1>2. CASE AnswerError(r) \/ Answer(r, "created", None)
  <2>1. [kind |-> "error", job |-> None] \in Replies /\ [kind |-> "created", job |-> None] \in Replies
    BY DEF Replies
  <2> QED BY <1>1, <1>2, <2>1 DEF ManagerInv, ManagerTypeOK, AnswerError, Answer
<1>3. CASE \E k \in Jobs : AnswerDuplicate(r, k)
  <2>1. PICK k \in Jobs : AnswerDuplicate(r, k)
    BY <1>3
  <2>2. [kind |-> "duplicate", job |-> k] \in Replies
    BY DEF Replies
  <2> QED BY <1>1, <2>1, <2>2 DEF ManagerInv, ManagerTypeOK, AnswerDuplicate, Answer
<1> QED BY <1>2, <1>3

(* A published or redelivered message. *)
LEMMA EnqueueType ==
    ASSUME QueueTypeOK, NEW j \in Jobs, Enqueue(j)
    PROVE  QueueTypeOK'
BY DEF QueueTypeOK, Enqueue

(* A step that leaves the queues alone. *)
LEMMA QueueStutterType ==
    ASSUME QueueTypeOK, UNCHANGED queueVars
    PROVE  QueueTypeOK'
BY DEF QueueTypeOK, queueVars

(* What a step of the Manager owes the rest of the invariant. *)
ManagerDuty ==
    /\ faults' \in 0..MaxFaults
    /\ StoreInv'
    /\ QueueTypeOK'
    /\ ManagerInv'
    /\ committed' = committed
    /\ \A j \in Jobs : db'[j].status = "completed" => db[j].status = "completed"

(* A Manager step that meets its duty preserves the invariant. *)
LEMMA ManagerFrame ==
    ASSUME IInv, ManagerDuty, UNCHANGED <<outputVars, workerVars, repairerVars>>
    PROVE  IInv'
BY DEF IInv, ManagerDuty, outputVars, workerVars, repairerVars, WorkerTypeOK,
   RepairerTypeOK, StoredBeforeCompleted, CarriedEventsCommitted

(* Every step of CreateFetcherJob.Execute meets its duty. *)
LEMMA ManagerStepDuty ==
    ASSUME IInv, NEW r \in Jobs, Submit(r) \/ HandlerStep(r) \/ ManagerCrash(r)
    PROVE  ManagerDuty
<1> USE DEF IInv
<1>pcs. {"check", "validate", "create", "recover", "retry", "recoverAgain",
         "publish", "compensate", "done"} \subseteq ManagerPCs
  BY DEF ManagerPCs
<1>quiet. ASSUME UNCHANGED storeVars
          PROVE  /\ StoreInv' /\ committed' = committed
                 /\ \A j \in Jobs : db'[j].status = "completed"
                                       => db[j].status = "completed"
  BY <1>quiet, StoreStutterInv
<1>insert. ASSUME ~DuplicateKey(r, "pending"), InsertOne(r)
           PROVE  /\ StoreInv' /\ committed' = committed
                  /\ \A j \in Jobs : db'[j].status = "completed"
                                        => db[j].status = "completed"
  BY <1>insert, InsertOneStoreInv DEF InsertOne, StoreInv, StoreTypeOK
<1>1. CASE Submit(r)
  <2>1. /\ createdAt' \in [Jobs -> Nat] /\ clock' \in Nat /\ horizon' \in Nat
        /\ UNCHANGED <<db, committed>>
    BY <1>1 DEF Submit, StoreInv, StoreTypeOK
  <2>2. StoreInv'
    BY <2>1, StoreUnchangedInv
  <2> QED BY <1>1, <1>pcs, <2>1, <2>2, ContinueType, QueueStutterType
          DEF Submit, ManagerDuty
<1>2. CASE CheckDuplicateJob(r)
  <2>1. ManagerInv'
    BY <1>2, <1>pcs, ContinueType, AnswerType
       DEF CheckDuplicateJob, FindByRequestHashWithinWindow, Newest, WithinWindow
  <2>2. faults' \in 0..MaxFaults
    BY <1>2, FailBound DEF CheckDuplicateJob
  <2> QED BY <1>2, <1>quiet, <2>1, <2>2, QueueStutterType
          DEF CheckDuplicateJob, ManagerDuty
<1>3. CASE ValidateConnections(r)
  BY <1>3, <1>pcs, <1>quiet, ContinueType, AnswerType, QueueStutterType
     DEF ValidateConnections, ManagerDuty
<1>4. ASSUME NEW at \in {"create", "retry"}, NEW onConflict \in {"recover", "recoverAgain"},
             Create(r, at, onConflict)
      PROVE  ManagerDuty
  <2>1. ManagerInv'
    BY <1>4, <1>pcs, ContinueType, AnswerType DEF Create
  <2>2. faults' \in 0..MaxFaults
    BY <1>4, FailBound DEF Create, NoFault
  <2>3. UNCHANGED storeVars \/ (~DuplicateKey(r, "pending") /\ InsertOne(r))
    BY <1>4 DEF Create
  <2> QED BY <1>4, <1>quiet, <1>insert, <2>1, <2>2, <2>3, QueueStutterType
          DEF Create, ManagerDuty
<1>5. CASE RecoverFromDuplicateKey(r) \/ RecoverAfterRetry(r)
  <2>1. ManagerInv'
    BY <1>5, <1>pcs, ContinueType, AnswerType
       DEF RecoverFromDuplicateKey, RecoverAfterRetry, Recover,
           FindActiveByRequestHash, Newest
  <2>2. faults' \in 0..MaxFaults
    BY <1>5, FailBound DEF RecoverFromDuplicateKey, RecoverAfterRetry, Recover
  <2> QED BY <1>5, <1>quiet, <2>1, <2>2, QueueStutterType
          DEF RecoverFromDuplicateKey, RecoverAfterRetry, Recover, ManagerDuty
<1>6. CASE PublishToQueue(r)
  <2>1. ASSUME AttemptFailed(r)
        PROVE  ManagerInv'
    BY <1>6, <2>1, <1>pcs, PublishAssumption
       DEF PublishToQueue, AttemptFailed, ManagerInv, ManagerTypeOK
  <2>2. ManagerInv'
    BY <1>6, <1>pcs, <2>1, ContinueType, AnswerType DEF PublishToQueue
  <2>3. faults' \in 0..MaxFaults
    BY <1>6, FailBound DEF PublishToQueue
  <2>4. QueueTypeOK'
    BY <1>6, EnqueueType, QueueStutterType DEF PublishToQueue
  <2> QED BY <1>6, <1>quiet, <2>2, <2>3, <2>4 DEF PublishToQueue, ManagerDuty
<1>7. CASE CompensatePublish(r)
  <2>1. ManagerInv'
    BY <1>7, AnswerType DEF CompensatePublish
  <2>2. faults' \in 0..MaxFaults
    BY <1>7, FailBound DEF CompensatePublish
  <2>3. CASE OverwriteFailed(r)
    <3>1. StoreInv'
      BY <2>3, OverwriteFailedStoreInv
    <3> QED BY <1>7, <2>1, <2>2, <2>3, <3>1, QueueStutterType
            DEF CompensatePublish, OverwriteFailed, ManagerDuty, StoreInv, StoreTypeOK
  <2>4. CASE UNCHANGED storeVars
    BY <1>7, <1>quiet, <2>1, <2>2, <2>4, QueueStutterType
       DEF CompensatePublish, ManagerDuty
  <2> QED BY <1>7, <2>3, <2>4 DEF CompensatePublish
<1>8. CASE ManagerCrash(r)
  BY <1>8, <1>pcs, <1>quiet, ContinueType, FailBound, QueueStutterType
     DEF ManagerCrash, ManagerDuty
<1> QED BY <1>1, <1>2, <1>3, <1>4, <1>5, <1>6, <1>7, <1>8
        DEF HandlerStep, CreateJob, RetryCreate

-----------------------------------------------------------------------------
(* The Worker. *)

(* The moves of one handler, and what they leave alone. *)
OthersKeep(w) ==
    \A v \in Workers \ {w} :
        wpc'[v] = wpc[v] /\ wjob'[v] = wjob[v] /\ wevent'[v] = wevent[v]

LocalTypeOK ==
    /\ wpc \in [Workers -> WorkerPCs]
    /\ wjob \in [Workers -> Jobs \cup {None}]
    /\ wevent \in [Workers -> {"none"} \cup TerminalStatuses]
    /\ wlive \in [Workers -> BOOLEAN]
    /\ \A w \in Workers : wpc[w] # "idle" => wjob[w] \in Jobs

(* A handler goes on to its next call. *)
LEMMA GotoMove ==
    ASSUME LocalTypeOK, NEW w \in Workers, wpc[w] # "idle",
           NEW next \in WorkerPCs, Goto(w, next)
    PROVE  /\ LocalTypeOK' /\ OthersKeep(w)
           /\ wpc'[w] = next /\ wjob'[w] = wjob[w] /\ wevent'[w] = wevent[w]
BY DEF LocalTypeOK, Goto, OthersKeep

(* A handler goes on to publish the event of a terminal status. *)
LEMMA GotoWithMove ==
    ASSUME LocalTypeOK, NEW w \in Workers, wpc[w] # "idle",
           NEW next \in WorkerPCs, NEW event \in TerminalStatuses,
           GotoWith(w, next, event)
    PROVE  /\ LocalTypeOK' /\ OthersKeep(w)
           /\ wpc'[w] = next /\ wjob'[w] = wjob[w] /\ wevent'[w] = event
BY DEF LocalTypeOK, GotoWith, OthersKeep

(* A handler ends. *)
LEMMA ReleaseMove ==
    ASSUME LocalTypeOK, NEW w \in Workers, Release(w)
    PROVE  /\ LocalTypeOK' /\ OthersKeep(w) /\ wpc'[w] = "idle"
<1>1. "idle" \in WorkerPCs
  BY DEF WorkerPCs
<1> QED BY <1>1 DEF LocalTypeOK, Release, OthersKeep

(* A handler ends and settles its delivery. *)
LEMMA FinishMove ==
    ASSUME LocalTypeOK, QueueTypeOK, NEW w \in Workers, wpc[w] # "idle",
           FinishAck(w) \/ FinishNack(w)
    PROVE  /\ LocalTypeOK' /\ OthersKeep(w) /\ wpc'[w] = "idle"
           /\ QueueTypeOK'
<1>1. wjob[w] \in Jobs
  BY DEF LocalTypeOK
<1>2. QueueTypeOK'
  BY <1>1, QueueStutterType DEF FinishAck, FinishNack, Ack, Nack, QueueTypeOK
<1> QED BY <1>2, ReleaseMove DEF FinishAck, FinishNack

(* What a step of handler w owes the rest of the invariant. *)
WorkerDuty(w) ==
    /\ faults' \in 0..MaxFaults
    /\ StoreInv'
    /\ QueueTypeOK'
    /\ LocalTypeOK'
    /\ stored' \in [Jobs -> Workers \cup {None}]
    /\ committed \subseteq committed'
    /\ events' \subseteq committed'
    /\ \A j \in Jobs : stored[j] # None => stored'[j] # None
    /\ \A j \in Jobs : db'[j].status = "completed"
          => db[j].status = "completed" \/ stored'[j] # None
    /\ OthersKeep(w)
    /\ wpc'[w] = "complete" => stored'[wjob'[w]] # None
    /\ wpc'[w] \in {"publish", "republish"}
          => <<wjob'[w], wevent'[w]>> \in committed'

(* A handler that meets its duty preserves the invariant. *)
LEMMA WorkerFrame ==
    ASSUME IInv, NEW w \in Workers, WorkerDuty(w),
           UNCHANGED <<managerVars, repairerVars>>
    PROVE  IInv'
<1> USE DEF IInv
<1>1. ManagerInv' /\ RepairerTypeOK'
  BY DEF managerVars, repairerVars, ManagerInv, ManagerTypeOK, RepairerTypeOK
<1>2. WorkerTypeOK'
  BY DEF WorkerDuty, LocalTypeOK, WorkerTypeOK, StoreInv, StoreTypeOK
<1>3. StoredBeforeCompleted'
  <2>1. \A j \in Jobs : db'[j].status = "completed" => stored'[j] # None
    BY DEF WorkerDuty, StoredBeforeCompleted
  <2>2. ASSUME NEW v \in Workers, wpc'[v] = "complete"
        PROVE  stored'[wjob'[v]] # None
    <3>1. CASE v = w
      BY <2>2, <3>1 DEF WorkerDuty
    <3>2. CASE v # w
      <4>1. /\ wpc[v] = "complete" /\ wjob'[v] = wjob[v]
            /\ wjob[v] \in Jobs
        BY <2>2, <3>2 DEF WorkerDuty, OthersKeep, WorkerTypeOK
      <4> QED BY <4>1 DEF WorkerDuty, StoredBeforeCompleted
    <3> QED BY <3>1, <3>2
  <2> QED BY <2>1, <2>2 DEF StoredBeforeCompleted
<1>4. CarriedEventsCommitted'
  <2>1. ASSUME NEW v \in Workers, wpc'[v] \in {"publish", "republish"}
        PROVE  <<wjob'[v], wevent'[v]>> \in committed'
    BY <2>1 DEF WorkerDuty, OthersKeep, CarriedEventsCommitted
  <2>2. \A p \in Repairers : batch'[p] \subseteq committed'
    BY DEF WorkerDuty, CarriedEventsCommitted, repairerVars
  <2> QED BY <2>1, <2>2 DEF CarriedEventsCommitted, WorkerDuty
<1> QED BY <1>1, <1>2, <1>3, <1>4 DEF WorkerDuty

(* A step that writes neither the collection nor the outputs. *)
LEMMA QuietDuty ==
    ASSUME IInv, NEW w \in Workers, UNCHANGED <<storeVars, outputVars>>,
           faults' \in 0..MaxFaults, QueueTypeOK', LocalTypeOK', OthersKeep(w),
           wpc'[w] = "complete" => stored[wjob'[w]] # None,
           wpc'[w] \in {"publish", "republish"}
              => <<wjob'[w], wevent'[w]>> \in committed
    PROVE  WorkerDuty(w)
<1>1. StoreInv' /\ committed' = committed /\ db' = db
  BY StoreStutterInv DEF IInv
<1> QED BY <1>1 DEF WorkerDuty, IInv, WorkerTypeOK, outputVars, CarriedEventsCommitted

(* A step that writes the collection and leaves the outputs alone. *)
LEMMA WriteDuty ==
    ASSUME IInv, NEW w \in Workers, UNCHANGED outputVars,
           faults' \in 0..MaxFaults, StoreInv', committed \subseteq committed',
           \A j \in Jobs : db'[j].status = "completed"
              => db[j].status = "completed" \/ stored[j] # None,
           QueueTypeOK', LocalTypeOK', OthersKeep(w), wpc'[w] # "complete",
           wpc'[w] \in {"publish", "republish"}
              => <<wjob'[w], wevent'[w]>> \in committed'
    PROVE  WorkerDuty(w)
BY DEF WorkerDuty, IInv, WorkerTypeOK, outputVars, CarriedEventsCommitted

(* Every step of a handler meets its duty. *)
LEMMA WorkerStepDuty ==
    ASSUME IInv, NEW w \in Workers, WorkerStep(w)
    PROVE  WorkerDuty(w)
<1> USE DEF IInv
<1>local. LocalTypeOK
  BY DEF WorkerTypeOK, LocalTypeOK
<1>pcs. {"idle", "preflight", "republish", "reclear", "load", "loadBlind", "claim",
         "extract", "save", "complete", "fail", "publish", "clear", "ack", "return"}
           \subseteq WorkerPCs
  BY DEF WorkerPCs
<1>job. wpc[w] # "idle" => wjob[w] \in Jobs
  BY <1>local DEF LocalTypeOK
<1>1. ASSUME NEW j \in Jobs, Deliver(w, j)
      PROVE  WorkerDuty(w)
  <2>1. LocalTypeOK' /\ OthersKeep(w) /\ wpc'[w] = "preflight"
    BY <1>1, <1>local, <1>pcs DEF Deliver, LocalTypeOK, OthersKeep
  <2>2. QueueTypeOK'
    BY <1>1 DEF Deliver, Dequeue, QueueTypeOK
  <2> QED BY <1>1, <2>1, <2>2, QuietDuty DEF Deliver
<1>2. CASE ShouldSkipProcessing(w)
  <2>1. faults' \in 0..MaxFaults
    BY <1>2, FailBound DEF ShouldSkipProcessing
  <2>2. CASE /\ db[wjob[w]].marker # "none" /\ db[wjob[w]].marker = db[wjob[w]].status
             /\ GotoWith(w, "republish", db[wjob[w]].marker)
             /\ UNCHANGED queueVars
    <3>1. /\ db[wjob[w]].marker \in TerminalStatuses
          /\ <<wjob[w], db[wjob[w]].marker>> \in committed
      BY <1>2, <1>job, <2>2
         DEF ShouldSkipProcessing, StoreInv, StoreTypeOK, Document, MarkerCommitted
    <3>2. /\ LocalTypeOK' /\ OthersKeep(w) /\ wpc'[w] = "republish"
          /\ wjob'[w] = wjob[w] /\ wevent'[w] = db[wjob[w]].marker
      BY <1>2, <1>local, <1>pcs, <2>2, <3>1, GotoWithMove DEF ShouldSkipProcessing
    <3> QED BY <1>2, <2>1, <2>2, <3>1, <3>2, QuietDuty, QueueStutterType
            DEF ShouldSkipProcessing
  <2>3. CASE FinishAck(w) \/ FinishNack(w)
    <3>1. LocalTypeOK' /\ OthersKeep(w) /\ wpc'[w] = "idle" /\ QueueTypeOK'
      BY <1>2, <1>local, <2>3, FinishMove DEF ShouldSkipProcessing
    <3> QED BY <1>2, <2>1, <3>1, QuietDuty DEF ShouldSkipProcessing
  <2>4. CASE (Goto(w, "load") \/ Goto(w, "loadBlind")) /\ UNCHANGED queueVars
    <3>1. LocalTypeOK' /\ OthersKeep(w) /\ wpc'[w] \in {"load", "loadBlind"}
      BY <1>2, <1>local, <1>pcs, <2>4, GotoMove DEF ShouldSkipProcessing
    <3> QED BY <1>2, <2>1, <2>4, <3>1, QuietDuty, QueueStutterType
            DEF ShouldSkipProcessing
  <2> QED BY <1>2, <2>2, <2>3, <2>4 DEF ShouldSkipProcessing
<1>3. CASE LoadJob(w)
  <2>1. faults' \in 0..MaxFaults
    BY <1>3, FailBound DEF LoadJob
  <2>2. CASE FinishAck(w)
    <3>1. LocalTypeOK' /\ OthersKeep(w) /\ wpc'[w] = "idle" /\ QueueTypeOK'
      BY <1>3, <1>local, <2>2, FinishMove DEF LoadJob
    <3> QED BY <1>3, <2>1, <3>1, QuietDuty DEF LoadJob
  <2>3. CASE (Goto(w, "claim") \/ Goto(w, "fail")) /\ UNCHANGED queueVars
    <3>1. LocalTypeOK' /\ OthersKeep(w) /\ wpc'[w] \in {"claim", "fail"}
      BY <1>3, <1>local, <1>pcs, <2>3, GotoMove DEF LoadJob
    <3> QED BY <1>3, <2>1, <2>3, <3>1, QuietDuty, QueueStutterType DEF LoadJob
  <2> QED BY <1>3, <2>2, <2>3 DEF LoadJob
<1>4. CASE ClaimJob(w)
  <2>1. /\ StoreInv' /\ faults' \in 0..MaxFaults /\ committed \subseteq committed'
        /\ \A j \in Jobs : db'[j].status = "completed" => db[j].status = "completed"
    <3>1. /\ wjob[w] \in Jobs
          /\ \/ UpdateStatus(wjob[w], "processing", None, "none")
             \/ UpdateStatusError(wjob[w], "processing", None, "none")
      BY <1>4, <1>job DEF ClaimJob
    <3>2. CASE UpdateStatus(wjob[w], "processing", None, "none")
      BY <3>1, <3>2, ClaimWriteInv
    <3>3. CASE UpdateStatusError(wjob[w], "processing", None, "none")
      BY <3>1, <3>3, ClaimWriteInv
    <3> QED BY <3>1, <3>2, <3>3
  <2>2. LocalTypeOK' /\ OthersKeep(w) /\ wpc'[w] \in {"extract", "fail"}
    BY <1>4, <1>local, <1>pcs, GotoMove DEF ClaimJob
  <2> QED BY <1>4, <2>1, <2>2, WriteDuty, QueueStutterType DEF ClaimJob
<1>5. CASE ExtractInto(w)
  <2>1. LocalTypeOK' /\ OthersKeep(w) /\ wpc'[w] \in {"save", "fail"}
    BY <1>5, <1>local, <1>pcs, GotoMove DEF ExtractInto
  <2> QED BY <1>5, <2>1, QuietDuty, QueueStutterType DEF ExtractInto
<1>6. CASE SaveExternalData(w)
  <2>1. /\ StoreInv' /\ committed' = committed /\ db' = db /\ QueueTypeOK'
        /\ faults' \in 0..MaxFaults
    BY <1>6, StoreStutterInv, QueueStutterType, FailBound DEF SaveExternalData
  <2>2. /\ LocalTypeOK' /\ OthersKeep(w) /\ wpc'[w] \in {"complete", "fail"}
        /\ wjob'[w] = wjob[w]
    BY <1>6, <1>local, <1>pcs, GotoMove DEF SaveExternalData
  <2>3. /\ stored' \in [Jobs -> Workers \cup {None}]
        /\ \A j \in Jobs : stored[j] # None => stored'[j] # None
    BY <1>6, <1>job, JobStoreAssumption DEF SaveExternalData, WorkerTypeOK
  <2>4. wpc'[w] = "complete" => stored'[wjob'[w]] # None
    <3>1. CASE /\ stored' = [stored EXCEPT ![wjob[w]] = w]
               /\ Goto(w, "complete")
      BY <1>6, <1>job, <2>2, <3>1, JobStoreAssumption DEF SaveExternalData, WorkerTypeOK
    <3>2. CASE Goto(w, "fail")
      BY <1>6, <1>local, <1>pcs, <3>2, GotoMove DEF SaveExternalData
    <3> QED BY <1>6, <3>1, <3>2 DEF SaveExternalData
  <2> QED BY <1>6, <2>1, <2>2, <2>3, <2>4
          DEF SaveExternalData, WorkerDuty, CarriedEventsCommitted
<1>7. CASE CompleteJob(w)
  <2>1. wjob[w] \in Jobs /\ stored[wjob[w]] # None
    BY <1>7, <1>job DEF CompleteJob, StoredBeforeCompleted
  <2>2. /\ StoreInv' /\ faults' \in 0..MaxFaults /\ committed \subseteq committed'
        /\ UpdateStatus(wjob[w], "completed", w, "completed")
             => <<wjob[w], "completed">> \in committed'
        /\ \A j \in Jobs : db'[j].status = "completed"
             => db[j].status = "completed" \/ stored[j] # None
    BY <1>7, <2>1, StatusWriteInv, JobStoreAssumption DEF CompleteJob, TerminalStatuses
  <2>3. CASE /\ UpdateStatus(wjob[w], "completed", w, "completed")
             /\ GotoWith(w, "publish", "completed")
    <3>1. /\ LocalTypeOK' /\ OthersKeep(w) /\ wpc'[w] = "publish"
          /\ wjob'[w] = wjob[w] /\ wevent'[w] = "completed"
      BY <1>7, <1>local, <1>pcs, <2>3, GotoWithMove DEF CompleteJob, TerminalStatuses
    <3> QED BY <1>7, <2>2, <2>3, <3>1, WriteDuty, QueueStutterType DEF CompleteJob
  <2>4. CASE Goto(w, "fail")
    <3>1. LocalTypeOK' /\ OthersKeep(w) /\ wpc'[w] = "fail"
      BY <1>7, <1>local, <1>pcs, <2>4, GotoMove DEF CompleteJob
    <3> QED BY <1>7, <2>2, <3>1, WriteDuty, QueueStutterType DEF CompleteJob
  <2> QED BY <1>7, <2>3, <2>4 DEF CompleteJob
<1>8. CASE HandleErrorWithUpdate(w)
  <2>2. /\ StoreInv' /\ faults' \in 0..MaxFaults /\ committed \subseteq committed'
        /\ UpdateStatus(wjob[w], "failed", None, "failed")
             => <<wjob[w], "failed">> \in committed'
        /\ \A j \in Jobs : db'[j].status = "completed" => db[j].status = "completed"
    BY <1>8, <1>job, StatusWriteInv DEF HandleErrorWithUpdate, TerminalStatuses
  <2>3. CASE /\ UpdateStatus(wjob[w], "failed", None, "failed")
             /\ GotoWith(w, "publish", "failed")
             /\ UNCHANGED queueVars
    <3>1. /\ LocalTypeOK' /\ OthersKeep(w) /\ wpc'[w] = "publish"
          /\ wjob'[w] = wjob[w] /\ wevent'[w] = "failed"
      BY <1>8, <1>local, <1>pcs, <2>3, GotoWithMove
         DEF HandleErrorWithUpdate, TerminalStatuses
    <3> QED BY <1>8, <2>2, <2>3, <3>1, WriteDuty, QueueStutterType
            DEF HandleErrorWithUpdate
  <2>4. CASE FinishNack(w)
    <3>1. LocalTypeOK' /\ OthersKeep(w) /\ wpc'[w] = "idle" /\ QueueTypeOK'
      BY <1>8, <1>local, <2>4, FinishMove DEF HandleErrorWithUpdate
    <3> QED BY <1>8, <2>2, <3>1, WriteDuty DEF HandleErrorWithUpdate
  <2> QED BY <1>8, <2>3, <2>4 DEF HandleErrorWithUpdate
<1>9. CASE PublishJobNotification(w)
  <2>1. <<wjob[w], wevent[w]>> \in committed
    BY <1>9 DEF PublishJobNotification, CarriedEventsCommitted
  <2>2. /\ StoreInv' /\ committed' = committed /\ db' = db
        /\ stored' = stored /\ events' \subseteq committed'
        /\ faults' \in 0..MaxFaults
    BY <1>9, <2>1, StoreStutterInv, FailBound
       DEF PublishJobNotification, Accept, CarriedEventsCommitted
  <2>3. /\ LocalTypeOK' /\ OthersKeep(w) /\ QueueTypeOK'
        /\ wpc'[w] \in {"clear", "reclear", "idle"}
    <3>1. CASE FinishNack(w)
      BY <1>9, <1>local, <3>1, FinishMove DEF PublishJobNotification
    <3>2. CASE /\ Goto(w, IF wpc[w] = "publish" THEN "clear" ELSE "reclear")
               /\ UNCHANGED queueVars
      BY <1>9, <1>local, <1>pcs, <3>2, GotoMove, QueueStutterType
         DEF PublishJobNotification
    <3> QED BY <1>9, <3>1, <3>2 DEF PublishJobNotification
  <2> QED BY <2>2, <2>3 DEF WorkerDuty, WorkerTypeOK
<1>10. CASE ClearPendingTerminalEvent(w)
  <2>1. /\ StoreInv' /\ committed' = committed
        /\ \A j \in Jobs : db'[j].status = db[j].status
    BY <1>10, <1>job, ClearStoreInv DEF ClearPendingTerminalEvent
  <2>2. faults' \in 0..MaxFaults
    BY <1>10, FailBound DEF ClearPendingTerminalEvent, ClearTerminalEventMetadata
  <2>3. LocalTypeOK' /\ OthersKeep(w) /\ wpc'[w] \in {"return", "ack"}
    BY <1>10, <1>local, <1>pcs, GotoMove DEF ClearPendingTerminalEvent
  <2> QED BY <1>10, <2>1, <2>2, <2>3, WriteDuty, QueueStutterType
          DEF ClearPendingTerminalEvent
<1>11. CASE Settle(w)
  <2>1. LocalTypeOK' /\ OthersKeep(w) /\ wpc'[w] = "idle" /\ QueueTypeOK'
    BY <1>11, <1>local, FinishMove DEF Settle
  <2> QED BY <1>11, <2>1, QuietDuty DEF Settle
<1> QED BY <1>1, <1>2, <1>3, <1>4, <1>5, <1>6, <1>7, <1>8, <1>9, <1>10, <1>11
        DEF WorkerStep

(* So does every failure of a handler. *)
LEMMA WorkerFaultDuty ==
    ASSUME IInv, NEW w \in Workers, WorkerFault(w)
    PROVE  WorkerDuty(w)
<1> USE DEF IInv
<1>local. LocalTypeOK
  BY DEF WorkerTypeOK, LocalTypeOK
<1>job. wpc[w] # "idle" => wjob[w] \in Jobs
  BY <1>local DEF LocalTypeOK
<1>1. ASSUME FinishAck(w) \/ FinishNack(w) \/ Abandon(w), wpc[w] # "idle",
             UNCHANGED <<storeVars, outputVars>>, faults' \in 0..MaxFaults
      PROVE  WorkerDuty(w)
  <2>1. LocalTypeOK' /\ OthersKeep(w) /\ wpc'[w] = "idle" /\ QueueTypeOK'
    <3>1. CASE Abandon(w)
      BY <1>1, <1>local, <1>job, <3>1, ReleaseMove, EnqueueType, QueueStutterType
         DEF Abandon
    <3> QED BY <1>1, <1>local, <3>1, FinishMove
  <2> QED BY <1>1, <2>1, QuietDuty
<1>2. CASE RejectDelivery(w) \/ HandlerPanic(w) \/ ContextCanceled(w) \/ WorkerCrash(w)
  <2>1. faults' \in 0..MaxFaults
    BY <1>2, FailBound DEF RejectDelivery, HandlerPanic, ContextCanceled, WorkerCrash
  <2> QED BY <1>1, <1>2, <2>1
          DEF RejectDelivery, HandlerPanic, ContextCanceled, WorkerCrash
<1>3. CASE LoseChannel(w)
  <2>1. LocalTypeOK' /\ OthersKeep(w) /\ UNCHANGED <<wpc, wjob, wevent>>
    BY <1>3, <1>local DEF LoseChannel, LocalTypeOK, OthersKeep
  <2>2. QueueTypeOK' /\ faults' \in 0..MaxFaults
    BY <1>3, <1>job, EnqueueType, FailBound DEF LoseChannel
  <2>3. /\ wpc'[w] = "complete" => stored[wjob'[w]] # None
        /\ wpc'[w] \in {"publish", "republish"}
             => <<wjob'[w], wevent'[w]>> \in committed
    BY <2>1 DEF StoredBeforeCompleted, CarriedEventsCommitted
  <2> QED BY <1>3, <2>1, <2>2, <2>3, QuietDuty DEF LoseChannel
<1> QED BY <1>2, <1>3 DEF WorkerFault

-----------------------------------------------------------------------------
(* The repairers. *)

(* What a step of repairer p owes the rest of the invariant. *)
RepairerDuty(p) ==
    /\ faults' \in 0..MaxFaults
    /\ StoreInv'
    /\ RepairerTypeOK'
    /\ committed' = committed
    /\ \A j \in Jobs : db'[j].status = db[j].status
    /\ events' \subseteq committed
    /\ batch'[p] \subseteq committed
    /\ \A q \in Repairers \ {p} : batch'[q] = batch[q]

(* A repairer that meets its duty preserves the invariant. *)
LEMMA RepairerFrame ==
    ASSUME IInv, NEW p \in Repairers, RepairerDuty(p),
           UNCHANGED <<queueVars, managerVars, stored, workerVars>>
    PROVE  IInv'
<1> USE DEF IInv
<1>1. QueueTypeOK' /\ ManagerInv'
  BY DEF queueVars, managerVars, QueueTypeOK, ManagerInv, ManagerTypeOK
<1>2. WorkerTypeOK'
  BY DEF workerVars, WorkerTypeOK, RepairerDuty, StoreInv, StoreTypeOK
<1>3. StoredBeforeCompleted'
  BY DEF StoredBeforeCompleted, RepairerDuty, workerVars
<1>4. CarriedEventsCommitted'
  BY DEF CarriedEventsCommitted, RepairerDuty, workerVars
<1> QED BY <1>1, <1>2, <1>3, <1>4 DEF RepairerDuty

(* Every step of a repairer meets its duty, its snapshot being of committed *)
(* terminal states.                                                         *)
LEMMA RepairerStepDuty ==
    ASSUME IInv, NEW p \in Repairers, RepairerStep(p) \/ RepairerCrash(p)
    PROVE  /\ RepairerDuty(p)
           /\ UNCHANGED <<queueVars, stored, workerVars>>
<1> USE DEF IInv
<1>1. CASE RepairList(p)
  <2>1. PendingTerminalEvents \subseteq committed /\ PendingTerminalEvents \subseteq Events
    BY DEF PendingTerminalEvents, StoreInv, StoreTypeOK, Document, MarkerCommitted, Events
  <2>2. StoreInv' /\ committed' = committed /\ db' = db
    BY <1>1, StoreStutterInv DEF RepairList
  <2>3. /\ RepairerTypeOK' /\ batch'[p] \subseteq committed
        /\ \A q \in Repairers \ {p} : batch'[q] = batch[q]
    BY <1>1, <2>1 DEF RepairList, RepairerTypeOK
  <2> QED BY <1>1, <2>2, <2>3
          DEF RepairList, RepairerDuty, CarriedEventsCommitted, outputVars
<1>2. CASE RepairPublish(p)
  <2>1. PICK e \in batch[p] :
          /\ batch' = [batch EXCEPT ![p] = batch[p] \ {e}]
          /\ \/ Accept(e) /\ clearing' = [clearing EXCEPT ![p] = e[1]] /\ NoFault
             \/ Fail("stream") /\ UNCHANGED <<events, clearing>>
             \/ Fail("ambiguous") /\ Accept(e) /\ UNCHANGED clearing
    BY <1>2 DEF RepairPublish
  <2>2. e \in committed /\ e \in Events /\ e[1] \in Jobs
    BY DEF CarriedEventsCommitted, StoreInv, StoreTypeOK, Events
  <2>3. StoreInv' /\ committed' = committed /\ db' = db /\ faults' \in 0..MaxFaults
    BY <1>2, <2>1, StoreStutterInv, FailBound DEF RepairPublish
  <2>4. /\ RepairerTypeOK' /\ batch'[p] \subseteq committed
        /\ \A q \in Repairers \ {p} : batch'[q] = batch[q]
    BY <2>1, <2>2 DEF RepairerTypeOK, CarriedEventsCommitted
  <2>5. events' \subseteq committed
    BY <2>1, <2>2 DEF Accept, CarriedEventsCommitted
  <2> QED BY <1>2, <2>3, <2>4, <2>5 DEF RepairPublish, RepairerDuty
<1>3. CASE RepairClear(p)
  <2>1. clearing[p] \in Jobs
    BY <1>3 DEF RepairClear, RepairerTypeOK
  <2>2. /\ StoreInv' /\ committed' = committed
        /\ \A j \in Jobs : db'[j].status = db[j].status
    BY <1>3, <2>1, ClearStoreInv DEF RepairClear
  <2>3. faults' \in 0..MaxFaults
    BY <1>3, FailBound DEF RepairClear, ClearTerminalEventMetadata
  <2>4. RepairerTypeOK'
    BY <1>3 DEF RepairClear, RepairerTypeOK
  <2> QED BY <1>3, <2>2, <2>3, <2>4
          DEF RepairClear, RepairerDuty, CarriedEventsCommitted, outputVars
<1>4. CASE RepairerCrash(p)
  <2>1. StoreInv' /\ committed' = committed /\ db' = db /\ faults' \in 0..MaxFaults
    BY <1>4, StoreStutterInv, FailBound DEF RepairerCrash
  <2>2. /\ RepairerTypeOK' /\ batch'[p] \subseteq committed
        /\ \A q \in Repairers \ {p} : batch'[q] = batch[q]
    BY <1>4 DEF RepairerCrash, RepairerTypeOK
  <2> QED BY <1>4, <2>1, <2>2
          DEF RepairerCrash, RepairerDuty, CarriedEventsCommitted, outputVars
<1> QED BY <1>1, <1>2, <1>3, <1>4 DEF RepairerStep

-----------------------------------------------------------------------------
(* The inductive invariant and what it implies. *)

(* The initial states satisfy the inductive invariant. *)
LEMMA InitIInv ==
    ASSUME Init
    PROVE  IInv
<1> USE JobStoreAssumption, FaultsAssumption, PublishAssumption DEF Init
<1>1. StoreInv
  <2>1. StoreTypeOK
    BY DEF StoreInit, StoreTypeOK, Document, Statuses, Events
  <2>2. DedupMatchesStatus
    <3>1. isDedupActive("absent") = FALSE
      BY DEF isDedupActive, ActiveStatuses
    <3> QED BY <3>1 DEF StoreInit, DedupMatchesStatus
  <2>3. UniqueActiveHash /\ MarkerMatchesStatus /\ MarkerCommitted
        /\ CompletedRefersToResult
    BY DEF StoreInit, UniqueActiveHash, MarkerMatchesStatus, MarkerCommitted,
       CompletedRefersToResult, ActiveStatuses, TerminalStatuses
  <2> QED BY <2>1, <2>2, <2>3 DEF StoreInv
<1>2. QueueTypeOK
  BY DEF QueueInit, QueueTypeOK
<1>3. ManagerInv
  BY DEF ManagerInit, ManagerInv, ManagerTypeOK, ManagerPCs, Replies
<1>4. WorkerTypeOK
  BY DEF WorkerInit, WorkerTypeOK, WorkerPCs
<1>5. RepairerTypeOK
  BY DEF RepairerInit, RepairerTypeOK
<1>6. StoredBeforeCompleted /\ CarriedEventsCommitted
  BY DEF StoreInit, WorkerInit, RepairerInit, StoredBeforeCompleted,
     CarriedEventsCommitted
<1> QED BY <1>1, <1>2, <1>3, <1>4, <1>5, <1>6 DEF IInv

(* Every step preserves it. *)
LEMMA NextIInv ==
    ASSUME IInv, [Next]_vars
    PROVE  IInv'
<1>stutter. ASSUME UNCHANGED vars
            PROVE  IInv'
  <2>1. StoreInv'
    BY <1>stutter, StoreStutterInv DEF vars, IInv
  <2> QED BY <1>stutter, <2>1 DEF vars, IInv, storeVars, queueVars, managerVars,
          outputVars, workerVars, repairerVars, QueueTypeOK, ManagerInv,
          ManagerTypeOK, WorkerTypeOK, RepairerTypeOK, StoredBeforeCompleted,
          CarriedEventsCommitted
<1>1. CASE ManagerNext
  BY <1>1, ManagerStepDuty, ManagerFrame DEF ManagerNext
<1>2. CASE WorkerNext
  BY <1>2, WorkerStepDuty, WorkerFaultDuty, WorkerFrame DEF WorkerNext
<1>3. CASE RepairerNext
  <2>1. PICK p \in Repairers : RepairerStep(p) \/ RepairerCrash(p)
    BY <1>3 DEF RepairerNext
  <2>2. RepairerDuty(p) /\ UNCHANGED <<queueVars, stored, workerVars>>
    BY <2>1, RepairerStepDuty
  <2> QED BY <1>3, <2>2, RepairerFrame DEF RepairerNext
<1>4. CASE TimePasses
  <2>1. StoreInv' /\ UNCHANGED <<db, committed>>
    BY <1>4, StoreUnchangedInv DEF TimePasses, WindowSlides, IInv, StoreInv, StoreTypeOK
  <2> QED BY <1>4, <2>1 DEF TimePasses, IInv, queueVars, managerVars,
          outputVars, workerVars, repairerVars, QueueTypeOK, ManagerInv,
          ManagerTypeOK, WorkerTypeOK, RepairerTypeOK, StoredBeforeCompleted,
          CarriedEventsCommitted
<1>5. CASE Quiescent
  BY <1>5, <1>stutter DEF Quiescent
<1> QED BY <1>stutter, <1>1, <1>2, <1>3, <1>4, <1>5 DEF Next

(* It is an invariant of the system. *)
THEOREM InductiveInvariant == Spec => []IInv
<1>1. Init => IInv
  BY InitIInv
<1>2. IInv /\ [Next]_vars => IInv'
  BY NextIInv
<1> QED BY <1>1, <1>2, PTL DEF Spec

(* Every variable of the Manager's and Worker's handlers, of the            *)
(* collection, of the queue and of the repairers keeps its type.            *)
THEOREM TypeCorrect == Spec => []TypeOK
<1>1. IInv => TypeOK
  BY DEF IInv, TypeOK, StoreInv, ManagerInv
<1> QED BY <1>1, InductiveInvariant, PTL

(* Whatever fails and however handlers of the two services interleave, no   *)
(* two jobs with the same request hash are pending or processing at once.   *)
THEOREM ActiveHashUnique == Spec => []UniqueActiveHash
<1>1. IInv => UniqueActiveHash
  BY DEF IInv, StoreInv
<1> QED BY <1>1, InductiveInvariant, PTL

(* A completed job refers to a result and its object is in storage, also    *)
(* after redeliveries, late claims and the Manager's compensation.          *)
THEOREM CompletedJobsHaveResults == Spec => []CompletedHasResult
<1>1. IInv => CompletedHasResult
  BY DEF IInv, StoreInv, CompletedRefersToResult, StoredBeforeCompleted,
     CompletedHasResult
<1> QED BY <1>1, InductiveInvariant, PTL

(* The terminal-event marker of a terminal job is its status, so that the   *)
(* repairer never meets a marker it refuses.                                *)
THEOREM MarkersMatch == Spec => []MarkerMatchesStatus
<1>1. IInv => MarkerMatchesStatus
  BY DEF IInv, StoreInv
<1> QED BY <1>1, InductiveInvariant, PTL

(* completeJob, handleErrorWithUpdate, the preflight retry and the repairer *)
(* emit no event before the terminal state it announces was stored.         *)
THEOREM EventsFollowCommits == Spec => []EventAfterCommit
<1>1. IInv => EventAfterCommit
  BY DEF IInv, CarriedEventsCommitted, EventAfterCommit
<1> QED BY <1>1, InductiveInvariant, PTL
-----------------------------------------------------------------------------
(* One delivery: what holds when each message is delivered to one handler    *)
(* at a time and every call either fails without effect or is seen to       *)
(* succeed.  The job ends once, its event is not lost, its HMAC is that of  *)
(* its object, and the services implement JobContract, for any number of    *)
(* the other failures: brokers, streams and stores that refuse, panics,     *)
(* cancelled contexts, crashes.                                             *)

(* The failures excluded: an ambiguous one is told to nobody, a lost        *)
(* confirm or channel leaves two copies of a message about, and a delivery  *)
(* both of whose lookups fail is failed without knowing its job's status.   *)
OneDelivery == FaultKinds \cap {"blind", "ambiguous", "confirm", "channel"} = {}

(* There is one copy of a job's message, waiting or with one handler, and   *)
(* none before the Manager's handler has answered.                          *)
CopiesOf(j) ==
    /\ ready[j] <= 1
    /\ \A w \in Workers : wjob[w] = j => /\ ready[j] = 0
                                         /\ \A v \in Workers : wjob[v] = j => v = w
    /\ mpc[j] # "done" => ready[j] = 0 /\ \A w \in Workers : wjob[w] # j

OneCopy ==
    /\ \A j \in Jobs : CopiesOf(j)
    /\ \A w \in Workers : wlive[w] = TRUE /\ (wpc[w] = "idle" => wjob[w] = None)

BeforeInsert == {"idle", "check", "validate", "create", "recover", "retry", "recoverAgain"}

(* What the Manager's handler knows of its document. *)
ManagerKnows ==
    \A r \in Jobs :
        /\ mpc[r] \in BeforeInsert => db[r].status = "absent"
        /\ mpc[r] \in {"publish", "compensate"} => db[r].status = "pending"

(* A job that the Manager gave up has no message. *)
GivenUpUnqueued ==
    \A j \in Jobs : db[j].status = "failed" /\ <<j, "failed">> \notin committed
                      => ready[j] = 0 /\ \A w \in Workers : wjob[w] # j

(* What was committed for a job is its status. *)
EndsOnce == \A j \in Jobs, s \in TerminalStatuses : <<j, s>> \in committed => db[j].status = s

(* What the Worker's handler knows of its document. *)
HandlerKnows(w) ==
    /\ wpc[w] = "load" => db[wjob[w]].status \in {"pending", "failed"}
    /\ wpc[w] = "claim" => db[wjob[w]].status = "pending"
    /\ wpc[w] \in {"extract", "save", "complete"} => db[wjob[w]].status = "processing"
    /\ wpc[w] = "fail" => db[wjob[w]].status \in ActiveStatuses \cup {"failed"}
    /\ wpc[w] = "complete" => stored[wjob[w]] = w

(* A marker that is about to be cleared has done its work. *)
Announced(j) ==
    /\ db[j].status \in TerminalStatuses
    /\ \A s \in TerminalStatuses : <<j, s>> \in committed => <<j, s>> \in events

Clearing ==
    /\ \A w \in Workers : wpc[w] \in {"clear", "reclear"} => Announced(wjob[w])
    /\ \A p \in Repairers : clearing[p] # None => Announced(clearing[p])

SInv ==
    /\ OneCopy /\ GivenUpUnqueued /\ ManagerKnows /\ EndsOnce /\ \A w \in Workers : HandlerKnows(w)
    /\ Clearing /\ EventNeverLost /\ IntegrityMatchesObject

-----------------------------------------------------------------------------
(* Where the copies of a message are. *)

(* A handler keeps its delivery, settles it, or gives it back. *)
Stays(w) ==
    /\ wpc[w] # "idle" /\ wpc'[w] # "idle"
    /\ UNCHANGED <<wjob, wlive, ready>>
    /\ OthersKeep(w)

Settles(w) == wpc[w] # "idle" /\ Release(w) /\ UNCHANGED ready

GivesBack(w) == wpc[w] # "idle" /\ Release(w) /\ Enqueue(wjob[w])

(* One of these three, or a delivery, is what every step of a handler does  *)
(* to the queue: a channel that dies under a handler is excluded.           *)
LEMMA WorkerMoves ==
    ASSUME OneDelivery, IInv, OneCopy, NEW w \in Workers, WorkerStep(w) \/ WorkerFault(w)
    PROVE  \/ Stays(w) \/ Settles(w) \/ GivesBack(w)
           \/ \E j \in Jobs : Deliver(w, j)
<1> USE DEF IInv
<1>local. LocalTypeOK
  BY DEF WorkerTypeOK, LocalTypeOK
<1>goto. ASSUME NEW next \in WorkerPCs \ {"idle"}, NEW event, wpc[w] # "idle",
                Goto(w, next) \/ GotoWith(w, next, event), UNCHANGED queueVars
         PROVE  Stays(w)
  BY <1>goto, <1>local DEF Goto, GotoWith, Stays, OthersKeep, LocalTypeOK, queueVars
<1>end. ASSUME wpc[w] # "idle", FinishAck(w) \/ FinishNack(w)
        PROVE  Settles(w)
  BY <1>end DEF Settles, FinishAck, FinishNack, Ack, Nack, queueVars
<1>back. ASSUME wpc[w] # "idle", Abandon(w)
         PROVE  GivesBack(w)
  BY <1>back DEF GivesBack, Abandon, OneCopy
<1>pcs. {"republish", "reclear", "load", "loadBlind", "claim", "extract", "save", "complete",
         "fail", "publish", "clear", "ack", "return"} \subseteq WorkerPCs \ {"idle"}
  BY DEF WorkerPCs
<1>1. CASE ShouldSkipProcessing(w) \/ LoadJob(w)
  BY <1>1, <1>goto, <1>end, <1>pcs DEF ShouldSkipProcessing, LoadJob
<1>2. CASE ClaimJob(w) \/ ExtractInto(w) \/ SaveExternalData(w)
  BY <1>2, <1>goto, <1>pcs DEF ClaimJob, ExtractInto, SaveExternalData
<1>3. CASE CompleteJob(w) \/ HandleErrorWithUpdate(w)
  BY <1>3, <1>goto, <1>end, <1>pcs DEF CompleteJob, HandleErrorWithUpdate
<1>4. CASE PublishJobNotification(w) \/ ClearPendingTerminalEvent(w) \/ Settle(w)
  BY <1>4, <1>goto, <1>end, <1>pcs
     DEF PublishJobNotification, ClearPendingTerminalEvent, Settle
<1>5. CASE WorkerFault(w)
  <2>1. ~LoseChannel(w)
    BY DEF LoseChannel, Fail, OneDelivery
  <2> QED BY <1>5, <1>end, <1>back, <2>1
          DEF WorkerFault, RejectDelivery, WorkerCrash, HandlerPanic, ContextCanceled
<1> QED BY <1>1, <1>2, <1>3, <1>4, <1>5 DEF WorkerStep

(* A handler's moves leave one copy of every message. *)
LEMMA WorkerOneCopy ==
    ASSUME IInv, OneCopy, NEW w \in Workers, UNCHANGED mpc,
           \/ Stays(w) \/ Settles(w) \/ GivesBack(w)
           \/ \E j \in Jobs : Deliver(w, j)
    PROVE  OneCopy'
<1> USE JobStoreAssumption
<1>types. /\ ready \in [Jobs -> Nat] /\ wjob \in [Workers -> Jobs \cup {None}]
          /\ wlive \in [Workers -> BOOLEAN] /\ wpc \in [Workers -> WorkerPCs]
          /\ \A v \in Workers : wpc[v] # "idle" => wjob[v] \in Jobs
  BY DEF IInv, QueueTypeOK, WorkerTypeOK
<1>1. CASE Stays(w)
  BY <1>1, <1>types DEF Stays, OthersKeep, OneCopy, CopiesOf
<1>2. CASE Settles(w)
  <2>1. /\ ready' = ready /\ wjob'[w] = None
        /\ wpc'[w] = "idle" /\ wlive'[w] = TRUE
        /\ \A v \in Workers \ {w} :
              wjob'[v] = wjob[v] /\ wlive'[v] = wlive[v] /\ wpc'[v] = wpc[v]
    BY <1>2, <1>types DEF Settles, Release
  <2>2. ASSUME NEW j \in Jobs PROVE CopiesOf(j)'
    BY <2>1 DEF OneCopy, CopiesOf
  <2> QED BY <2>1, <2>2 DEF OneCopy
<1>3. CASE GivesBack(w)
  <2>1. /\ wjob[w] \in Jobs /\ wjob'[w] = None
        /\ ready'[wjob[w]] = ready[wjob[w]] + 1
        /\ \A k \in Jobs \ {wjob[w]} : ready'[k] = ready[k]
        /\ wpc'[w] = "idle" /\ wlive'[w] = TRUE
        /\ \A v \in Workers \ {w} :
              wjob'[v] = wjob[v] /\ wlive'[v] = wlive[v] /\ wpc'[v] = wpc[v]
    BY <1>3, <1>types DEF GivesBack, Release, Enqueue
  <2>2. ASSUME NEW j \in Jobs PROVE CopiesOf(j)'
    BY <2>1, <1>types DEF OneCopy, CopiesOf
  <2> QED BY <2>1, <2>2 DEF OneCopy
<1>4. ASSUME NEW j \in Jobs, Deliver(w, j) PROVE OneCopy'
  <2>1. /\ wjob'[w] = j /\ wjob[w] = None
        /\ ready[j] > 0 /\ ready'[j] = ready[j] - 1
        /\ \A k \in Jobs \ {j} : ready'[k] = ready[k]
        /\ wpc'[w] = "preflight" /\ wlive' = wlive
        /\ \A v \in Workers \ {w} : wjob'[v] = wjob[v] /\ wpc'[v] = wpc[v]
    BY <1>4, <1>types DEF Deliver, Dequeue, OneCopy
  <2>2. ASSUME NEW k \in Jobs PROVE CopiesOf(k)'
    BY <2>1, <1>types DEF OneCopy, CopiesOf
  <2> QED BY <2>1, <2>2 DEF OneCopy
<1> QED BY <1>1, <1>2, <1>3, <1>4

-----------------------------------------------------------------------------
(* What a step does to the jobs. *)

Committed(j) == {s \in TerminalStatuses : <<j, s>> \in committed}

(* A step that leaves a job, its object and its history alone. *)
Untouched(k) ==
    /\ db'[k] = db[k]
    /\ stored'[k] = stored[k]
    /\ Committed(k)' = Committed(k)

(* The job stays as it is, but for a marker that has done its work, an      *)
(* object written while it is processing, and the event of its end.         *)
Rests(j) ==
    /\ db'[j].status = db[j].status /\ db'[j].result = db[j].result
    /\ db'[j].marker = db[j].marker \/ Announced(j)
    /\ Committed(j)' = Committed(j)
    /\ stored'[j] = stored[j] \/ db[j].status = "processing"
    /\ \/ events' = events
       \/ db[j].status \in TerminalStatuses /\ events' = events \cup {<<j, db[j].status>>}

Accepted(j) ==
    /\ db[j].status = "absent" /\ db'[j].status = "pending"
    /\ \A k \in Jobs : Same(k, j) => db[k].status \notin ActiveStatuses
    /\ Committed(j)' = Committed(j)
    /\ events' = events

Started(j) ==
    /\ db[j].status = "pending" /\ db'[j].status = "processing"
    /\ Committed(j)' = Committed(j)
    /\ events' = events

(* The Worker ends the job and sets its marker. *)
Ended(j) ==
    /\ db[j].status \in ActiveStatuses /\ db'[j].status \in TerminalStatuses
    /\ db'[j].marker = db'[j].status
    /\ Committed(j)' = Committed(j) \cup {db'[j].status}
    /\ db'[j].status = "completed" => db'[j].result = stored'[j]
    /\ events' = events

(* A handler fails a job again that has failed and been announced. *)
FailedAgain(j) ==
    /\ db[j].status = "failed" /\ db'[j].status = "failed"
    /\ db'[j].marker = "failed"
    /\ <<j, "failed">> \in committed /\ Committed(j)' = Committed(j)
    /\ events' = events

(* The Manager gives it up: nobody is told. *)
GivenUp(j) ==
    /\ db[j].status = "pending" /\ db'[j].status = "failed"
    /\ Committed(j)' = Committed(j)
    /\ events' = events

StepOn(j) ==
    /\ Rests(j) \/ Accepted(j) \/ Started(j) \/ Ended(j) \/ FailedAgain(j) \/ GivenUp(j)
    /\ \A k \in Jobs \ {j} : Untouched(k)

NoJob == UNCHANGED <<db, stored, committed, events>>

(* What such a step keeps. *)
LEMMA StepKeepsEnds ==
    ASSUME EndsOnce, EventNeverLost, IntegrityMatchesObject,
           NoJob \/ \E j \in Jobs : StepOn(j)
    PROVE  /\ EndsOnce' /\ EventNeverLost' /\ IntegrityMatchesObject'
           /\ events \subseteq events'
           /\ \A k \in Jobs : Announced(k) => Announced(k)'
<1>1. CASE NoJob
  BY <1>1 DEF NoJob, EndsOnce, EventNeverLost, IntegrityMatchesObject, Announced
<1>2. ASSUME NEW j \in Jobs, StepOn(j)
      PROVE  /\ EndsOnce' /\ EventNeverLost' /\ IntegrityMatchesObject'
             /\ events \subseteq events'
             /\ \A k \in Jobs : Announced(k) => Announced(k)'
  <2>0. events \subseteq events'
    BY <1>2 DEF StepOn, Rests, Accepted, Started, Ended, FailedAgain, GivenUp
  <2>1. \A k \in Jobs, s \in TerminalStatuses :
           /\ <<k, s>> \in committed <=> s \in Committed(k)
           /\ <<k, s>> \in committed' <=> s \in Committed(k)'
    BY DEF Committed
  <2>2. ASSUME NEW k \in Jobs, k # j
        PROVE  Untouched(k)
    BY <1>2, <2>2 DEF StepOn
  <2>3. ASSUME NEW k \in Jobs, NEW s \in TerminalStatuses, <<k, s>> \in committed'
        PROVE  db'[k].status = s /\ (<<k, s>> \in events' \/ db'[k].marker = s)
    <3>1. CASE k # j
      BY <2>0, <2>1, <2>2, <2>3, <3>1 DEF Untouched, EndsOnce, EventNeverLost
    <3>2. CASE k = j /\ Rests(j)
      BY <2>0, <2>1, <2>3, <3>2 DEF Rests, Announced, EndsOnce, EventNeverLost
    <3>3. CASE k = j /\ (Accepted(j) \/ Started(j) \/ GivenUp(j))
      BY <2>1, <2>3, <3>3
         DEF Accepted, Started, GivenUp, EndsOnce, TerminalStatuses
    <3>4. CASE k = j /\ Ended(j)
      BY <2>1, <2>3, <3>4 DEF Ended, EndsOnce, TerminalStatuses, ActiveStatuses
    <3>5. CASE k = j /\ FailedAgain(j)
      BY <2>1, <2>3, <3>5 DEF FailedAgain, EndsOnce
    <3> QED BY <1>2, <3>1, <3>2, <3>3, <3>4, <3>5 DEF StepOn
  <2>4. EndsOnce' /\ EventNeverLost'
    BY <2>3 DEF EndsOnce, EventNeverLost
  <2>5. ASSUME NEW k \in Jobs, db'[k].status = "completed"
        PROVE  db'[k].result = stored'[k]
    <3>1. CASE k # j
      BY <2>2, <2>5, <3>1 DEF Untouched, IntegrityMatchesObject
    <3>2. CASE k = j
      BY <1>2, <2>5, <3>2 DEF StepOn, Rests, Accepted, Started, Ended, FailedAgain, GivenUp,
         IntegrityMatchesObject
    <3> QED BY <3>1, <3>2
  <2>6. IntegrityMatchesObject'
    BY <2>5 DEF IntegrityMatchesObject
  <2>7. ASSUME NEW k \in Jobs, Announced(k)
        PROVE  Announced(k)'
    <3>1. CASE k # j
      BY <2>0, <2>1, <2>2, <2>7, <3>1 DEF Untouched, Announced
    <3>2. CASE k = j
      <4>1. Rests(j) \/ FailedAgain(j)
        BY <1>2, <2>7, <3>2 DEF StepOn, Accepted, Started, Ended, GivenUp, Announced,
           ActiveStatuses, TerminalStatuses
      <4> QED BY <2>0, <2>1, <2>7, <3>2, <4>1 DEF Rests, FailedAgain, Announced
    <3> QED BY <3>1, <3>2
  <2> QED BY <2>0, <2>4, <2>6, <2>7
<1> QED BY <1>1, <1>2

-----------------------------------------------------------------------------
(* The Manager. *)

(* Where a handler of the Manager may go: it inserts its document once,     *)
(* publishes or gives up a pending one, and does not run on once done.      *)
ManagerGoes(r) ==
    /\ mpc[r] # "done"
    /\ \A k \in Jobs \ {r} : mpc'[k] = mpc[k]
    /\ \/ /\ NoJob
          /\ mpc'[r] \in BeforeInsert \cup {"done"} /\ mpc[r] \in BeforeInsert
       \/ Accepted(r) /\ StepOn(r) /\ mpc'[r] = "publish" /\ mpc[r] \in BeforeInsert
       \/ /\ NoJob
          /\ mpc[r] \in {"publish", "compensate"}
          /\ mpc'[r] \in {"publish", "compensate", "done"}
       \/ GivenUp(r) /\ StepOn(r) /\ mpc'[r] = "done"
    /\ \/ UNCHANGED ready
       \/ Enqueue(r) /\ mpc[r] = "publish" /\ mpc'[r] = "done" /\ NoJob

LEMMA ManagerMoves ==
    ASSUME OneDelivery, IInv, SInv, NEW r \in Jobs,
           Submit(r) \/ HandlerStep(r) \/ ManagerCrash(r), UNCHANGED outputVars
    PROVE  ManagerGoes(r)
<1> USE DEF IInv, SInv
<1>types. mpc \in [Jobs -> ManagerPCs] /\ db \in [Jobs -> Document]
  BY DEF ManagerInv, ManagerTypeOK, StoreInv, StoreTypeOK
<1>quiet. ASSUME UNCHANGED storeVars PROVE NoJob
  BY <1>quiet DEF NoJob, storeVars, outputVars
<1>goto. ASSUME NEW next, \/ Continue(r, next)
                          \/ next = "done" /\ \E kind, job : Answer(r, kind, job)
         PROVE  mpc'[r] = next /\ \A k \in Jobs \ {r} : mpc'[k] = mpc[k]
  BY <1>goto, <1>types DEF Continue, Answer
<1>done. ASSUME \/ AnswerError(r) \/ \E k : AnswerDuplicate(r, k)
                \/ Answer(r, "created", None)
         PROVE  mpc'[r] = "done" /\ \A k \in Jobs \ {r} : mpc'[k] = mpc[k]
  BY <1>done, <1>types DEF AnswerError, AnswerDuplicate, Answer
<1>faults. ~Fail("ambiguous") /\ ~Fail("confirm")
  BY DEF Fail, OneDelivery
<1>1. CASE Submit(r)
  BY <1>1, <1>goto DEF Submit, ManagerGoes, NoJob, outputVars, queueVars, BeforeInsert
<1>2. CASE CheckDuplicateJob(r) \/ ValidateConnections(r)
  <2>1. /\ NoJob /\ UNCHANGED ready /\ mpc[r] \in BeforeInsert
        /\ mpc'[r] \in {"validate", "create", "done"}
        /\ \A k \in Jobs \ {r} : mpc'[k] = mpc[k]
    BY <1>2, <1>quiet, <1>goto, <1>done
       DEF CheckDuplicateJob, ValidateConnections, queueVars, BeforeInsert
  <2> QED BY <1>2, <2>1 DEF ManagerGoes, BeforeInsert
<1>3. ASSUME NEW at \in {"create", "retry"}, NEW onConflict \in {"recover", "recoverAgain"},
             Create(r, at, onConflict)
      PROVE  ManagerGoes(r)
  <2>1. CASE ~DuplicateKey(r, "pending") /\ InsertOne(r) /\ Continue(r, "publish")
    <3>1. db[r].status = "absent"
      BY <1>3 DEF Create, ManagerKnows, BeforeInsert
    <3>2. /\ db'[r].status = "pending" /\ committed' = committed
          /\ \A k \in Jobs \ {r} : db'[k] = db[k]
      BY <2>1, <1>types DEF InsertOne
    <3>3. ASSUME NEW k \in Jobs, Same(k, r)
          PROVE  db[k].status \notin ActiveStatuses
      BY <2>1, <3>1, <3>3
         DEF DuplicateKey, isDedupActive, Same, StoreInv, DedupMatchesStatus, ActiveStatuses
    <3>4. Accepted(r) /\ StepOn(r)
      BY <3>1, <3>2, <3>3 DEF Accepted, StepOn, Untouched, Committed, outputVars
    <3>5. mpc'[r] = "publish" /\ \A k \in Jobs \ {r} : mpc'[k] = mpc[k]
      BY <2>1, <1>goto
    <3> QED BY <1>3, <3>4, <3>5 DEF Create, ManagerGoes, queueVars, BeforeInsert
  <2>2. CASE UNCHANGED storeVars
    <3>1. mpc'[r] \in {"recover", "recoverAgain", "done"} /\ \A k \in Jobs \ {r} : mpc'[k] = mpc[k]
      <4>1. Continue(r, onConflict) \/ AnswerError(r) \/ (InsertOne(r) /\ Continue(r, "publish"))
        BY <1>3, <1>faults DEF Create
      <4>2. ~(InsertOne(r) /\ Continue(r, "publish"))
        <5>1. SUFFICES ASSUME InsertOne(r) PROVE FALSE
          OBVIOUS
        <5>2. db'[r].status = "pending" /\ db[r].status = "absent" /\ db' = db
          BY <1>3, <2>2, <5>1, <1>types
             DEF InsertOne, Create, ManagerKnows, BeforeInsert, storeVars
        <5> QED BY <5>2
      <4> QED BY <4>1, <4>2, <1>goto, <1>done
    <3> QED BY <1>3, <2>2, <1>quiet, <3>1 DEF Create, ManagerGoes, queueVars, BeforeInsert
  <2> QED BY <1>3, <1>faults, <2>1, <2>2 DEF Create, storeVars
<1>4. CASE RecoverFromDuplicateKey(r) \/ RecoverAfterRetry(r)
  <2>1. /\ NoJob /\ UNCHANGED ready /\ mpc[r] \in BeforeInsert
        /\ mpc'[r] \in {"retry", "done"}
        /\ \A k \in Jobs \ {r} : mpc'[k] = mpc[k]
    BY <1>4, <1>quiet, <1>goto, <1>done
       DEF RecoverFromDuplicateKey, RecoverAfterRetry, Recover, queueVars, BeforeInsert
  <2> QED BY <1>4, <2>1 DEF ManagerGoes, BeforeInsert
<1>5. CASE PublishToQueue(r)
  <2>1. ASSUME AttemptFailed(r)
        PROVE  /\ mpc'[r] \in {"publish", "compensate"}
               /\ \A k \in Jobs \ {r} : mpc'[k] = mpc[k]
    BY <1>5, <2>1, <1>types DEF AttemptFailed, PublishToQueue
  <2>2. /\ NoJob /\ mpc[r] = "publish" /\ mpc'[r] \in {"publish", "compensate", "done"}
        /\ \A k \in Jobs \ {r} : mpc'[k] = mpc[k]
        /\ UNCHANGED ready \/ (Enqueue(r) /\ mpc'[r] = "done")
    BY <1>5, <1>faults, <1>quiet, <1>goto, <1>done, <2>1 DEF PublishToQueue, queueVars
  <2> QED BY <2>2 DEF ManagerGoes
<1>6. CASE CompensatePublish(r)
  <2>1. /\ mpc[r] = "compensate" /\ mpc'[r] = "done" /\ UNCHANGED ready
        /\ \A k \in Jobs \ {r} : mpc'[k] = mpc[k]
    BY <1>6, <1>done DEF CompensatePublish, queueVars
  <2>2. CASE OverwriteFailed(r)
    <3>1. /\ db[r].status = "pending" /\ db'[r].status = "failed" /\ committed' = committed
          /\ \A k \in Jobs \ {r} : db'[k] = db[k]
      BY <2>1, <2>2, <1>types DEF OverwriteFailed, ManagerKnows
    <3>2. GivenUp(r) /\ StepOn(r)
      BY <3>1 DEF GivenUp, StepOn, Untouched, Committed, outputVars
    <3> QED BY <2>1, <3>2 DEF ManagerGoes
  <2>3. CASE UNCHANGED storeVars
    BY <2>1, <2>3, <1>quiet DEF ManagerGoes
  <2> QED BY <1>6, <2>2, <2>3 DEF CompensatePublish
<1>7. CASE ManagerCrash(r)
  <2>1. /\ mpc[r] \notin {"idle", "done"} /\ mpc'[r] = "done" /\ UNCHANGED ready /\ NoJob
        /\ \A k \in Jobs \ {r} : mpc'[k] = mpc[k]
    BY <1>7, <1>goto, <1>quiet DEF ManagerCrash, queueVars
  <2>2. mpc[r] \in BeforeInsert \cup {"publish", "compensate"}
    BY <2>1, <1>types DEF ManagerPCs, BeforeInsert
  <2> QED BY <2>1, <2>2 DEF ManagerGoes
<1> QED BY <1>1, <1>2, <1>3, <1>4, <1>5, <1>6, <1>7
        DEF HandlerStep, CreateJob, RetryCreate

(* A step of the Manager preserves the invariant: no handler of the Worker  *)
(* is at work on a job whose request is still being served.                 *)
LEMMA ManagerKeeps ==
    ASSUME IInv, SInv, NEW r \in Jobs, ManagerGoes(r), UNCHANGED <<workerVars, repairerVars>>
    PROVE  SInv'
<1> USE DEF SInv
<1>types. mpc \in [Jobs -> ManagerPCs] /\ ready \in [Jobs -> Nat]
  BY DEF IInv, ManagerInv, ManagerTypeOK, QueueTypeOK
<1>1. NoJob \/ StepOn(r)
  BY DEF ManagerGoes
<1>2. \A k \in Jobs \ {r} : db'[k] = db[k] /\ stored'[k] = stored[k]
  BY <1>1 DEF NoJob, StepOn, Untouched
<1>3. /\ EndsOnce' /\ EventNeverLost' /\ IntegrityMatchesObject'
      /\ \A k \in Jobs : Announced(k) => Announced(k)'
  BY <1>1, StepKeepsEnds
<1>4. OneCopy'
  <2>1. ASSUME NEW j \in Jobs
        PROVE  CopiesOf(j)'
    <3>1. CASE j # r
      BY <3>1, <1>types DEF ManagerGoes, OneCopy, CopiesOf, Enqueue, workerVars
    <3>2. CASE j = r
      BY <3>2, <1>types DEF ManagerGoes, OneCopy, CopiesOf, Enqueue, workerVars
    <3> QED BY <3>1, <3>2
  <2> QED BY <2>1 DEF OneCopy, workerVars
<1>5. ManagerKnows'
  <2>1. ASSUME NEW k \in Jobs
        PROVE  /\ mpc'[k] \in BeforeInsert => db'[k].status = "absent"
               /\ mpc'[k] \in {"publish", "compensate"} => db'[k].status = "pending"
    <3>1. CASE k # r
      BY <3>1, <1>2 DEF ManagerGoes, ManagerKnows
    <3>2. CASE k = r
      BY <3>2 DEF ManagerGoes, ManagerKnows, NoJob, Accepted, BeforeInsert
    <3> QED BY <3>1, <3>2
  <2> QED BY <2>1 DEF ManagerKnows
<1>queue. GivenUpUnqueued'
  <2>1. ASSUME NEW k \in Jobs, db'[k].status = "failed", <<k, "failed">> \notin committed'
        PROVE  ready'[k] = 0 /\ \A w \in Workers : wjob'[w] # k
    <3>1. CASE k # r
      <4>1. Committed(k)' = Committed(k)
        BY <1>1, <3>1 DEF NoJob, StepOn, Untouched, Committed
      <4>2. <<k, "failed">> \notin committed
        BY <2>1, <4>1 DEF Committed, TerminalStatuses
      <4> QED BY <1>2, <2>1, <3>1, <4>2, <1>types
              DEF GivenUpUnqueued, ManagerGoes, Enqueue, workerVars
    <3>2. CASE k = r
      <4>1. UNCHANGED ready
        BY <2>1, <3>2 DEF ManagerGoes, ManagerKnows, NoJob
      <4> QED BY <3>2, <4>1 DEF ManagerGoes, OneCopy, CopiesOf, workerVars
    <3> QED BY <3>1, <3>2
  <2> QED BY <2>1 DEF GivenUpUnqueued
<1>6. ASSUME NEW w \in Workers
      PROVE  HandlerKnows(w)'
  <2>1. wpc[w] # "idle" => wjob[w] \in Jobs \ {r}
    BY DEF IInv, WorkerTypeOK, OneCopy, CopiesOf, ManagerGoes
  <2> QED BY <1>2, <2>1 DEF HandlerKnows, workerVars
<1>7. Clearing'
  <2>1. \A w \in Workers : wpc[w] # "idle" => wjob[w] \in Jobs
    BY DEF IInv, WorkerTypeOK
  <2>2. \A p \in Repairers : clearing[p] # None => clearing[p] \in Jobs
    BY DEF IInv, RepairerTypeOK
  <2>3. ASSUME NEW w \in Workers, wpc'[w] \in {"clear", "reclear"}
        PROVE  Announced(wjob[w])'
    BY <1>3, <2>1, <2>3 DEF Clearing, workerVars
  <2>4. ASSUME NEW p \in Repairers, clearing'[p] # None
        PROVE  Announced(clearing[p])'
    BY <1>3, <2>2, <2>4 DEF Clearing, repairerVars
  <2> QED BY <2>3, <2>4 DEF Clearing, Announced, workerVars, repairerVars
<1> QED BY <1>3, <1>4, <1>queue, <1>5, <1>6, <1>7

-----------------------------------------------------------------------------
(* The Worker. *)

(* Who fails a job commits it. *)
FailsOpenly(j) ==
    db'[j].status = "failed" => db[j].status = "failed" \/ <<j, "failed">> \in committed'

(* What a handler's step does to its job, and what it knows of it after.    *)
WorkerGoes(w) ==
    /\ NoJob \/ \E j \in Jobs : j = wjob[w] /\ StepOn(j) /\ FailsOpenly(j)
    /\ HandlerKnows(w)'
    /\ (wpc[w] \in {"clear", "reclear"} => Announced(wjob[w]))'

(* A write of a status that does not fail after taking effect. *)
LEMMA StatusWritten ==
    ASSUME IInv, NEW j \in Jobs, NEW status, NEW result, NEW event,
           UpdateStatus(j, status, result, event)
    PROVE  /\ db'[j].status = status
           /\ event # "none" => db'[j].marker = event
           /\ result # None => db'[j].result = result
           /\ event = "none" => Committed(j)' = Committed(j)
           /\ event \in TerminalStatuses => Committed(j)' = Committed(j) \cup {event}
           /\ \A k \in Jobs \ {j} : db'[k] = db[k] /\ Committed(k)' = Committed(k)
<1>1. db \in [Jobs -> Document]
  BY DEF IInv, StoreInv, StoreTypeOK
<1>2. committed' = IF event = "none" THEN committed ELSE committed \cup {<<j, event>>}
  BY DEF UpdateStatus, SetStatus
<1>3. /\ db'[j].status = status
      /\ event # "none" => db'[j].marker = event
      /\ result # None => db'[j].result = result
      /\ \A k \in Jobs \ {j} : db'[k] = db[k]
  BY <1>1 DEF UpdateStatus, SetStatus
<1>4. \A k \in Jobs \ {j} : Committed(k)' = Committed(k)
  BY <1>2 DEF Committed
<1>5. event = "none" => Committed(j)' = Committed(j)
  BY <1>2 DEF Committed
<1>6. event \in TerminalStatuses => Committed(j)' = Committed(j) \cup {event}
  BY <1>2 DEF Committed, TerminalStatuses
<1> QED BY <1>3, <1>4, <1>5, <1>6

(* Without ambiguous failures a write that fails has changed nothing. *)
LEMMA StatusNotWritten ==
    ASSUME OneDelivery, NEW j, NEW status, NEW result, NEW event,
           UpdateStatusError(j, status, result, event)
    PROVE  UNCHANGED storeVars
BY DEF UpdateStatusError, OneDelivery, Fail

LEMMA MarkerCleared ==
    ASSUME IInv, NEW j \in Jobs, Announced(j), ClearTerminalEventMetadata(j),
           UNCHANGED outputVars
    PROVE  StepOn(j) /\ Rests(j) /\ Announced(j)'
<1>1. db \in [Jobs -> Document]
  BY DEF IInv, StoreInv, StoreTypeOK
<1>2. /\ db'[j].status = db[j].status /\ db'[j].result = db[j].result
      /\ committed' = committed
      /\ \A k \in Jobs \ {j} : db'[k] = db[k]
  <2>1. CASE db' = [db EXCEPT ![j] = [db[j] EXCEPT !.marker = "none"]] /\ UNCHANGED committed
    BY <1>1, <2>1 DEF Document
  <2> QED BY <2>1 DEF ClearTerminalEventMetadata, storeVars
<1> QED BY <1>2 DEF StepOn, Rests, Untouched, Committed, Announced, outputVars

(* The event a handler publishes or a repairer has listed is the end of its *)
(* job, and once it is accepted the marker may go.                          *)
LEMMA EventAccepted ==
    ASSUME IInv, SInv, NEW j \in Jobs, NEW s, <<j, s>> \in committed,
           Accept(<<j, s>>), UNCHANGED <<storeVars, stored>>
    PROVE  StepOn(j) /\ Rests(j) /\ Announced(j)'
<1>1. s \in TerminalStatuses
  BY DEF IInv, StoreInv, StoreTypeOK, Events
<1>2. db[j].status = s
  BY <1>1 DEF SInv, EndsOnce
<1>3. \A t \in TerminalStatuses : <<j, t>> \in committed => t = s
  BY <1>2 DEF SInv, EndsOnce
<1> QED BY <1>1, <1>2, <1>3 DEF StepOn, Rests, Untouched, Committed, Announced, Accept, storeVars

LEMMA WorkerSteps ==
    ASSUME OneDelivery, IInv, SInv, NEW w \in Workers, WorkerStep(w) \/ WorkerFault(w)
    PROVE  WorkerGoes(w)
<1> USE DEF IInv, SInv
<1>types. /\ db \in [Jobs -> Document] /\ stored \in [Jobs -> Workers \cup {None}]
          /\ wpc \in [Workers -> WorkerPCs] /\ wjob \in [Workers -> Jobs \cup {None}]
          /\ wevent \in [Workers -> {"none"} \cup TerminalStatuses]
          /\ wpc[w] # "idle" => wjob[w] \in Jobs
  BY DEF StoreInv, StoreTypeOK, WorkerTypeOK
<1>knows. HandlerKnows(w)
  OBVIOUS
<1>quiet. ASSUME UNCHANGED storeVars, UNCHANGED outputVars PROVE NoJob
  BY <1>quiet DEF NoJob, storeVars, outputVars
<1>goto. ASSUME NEW next, NEW event, Goto(w, next) \/ GotoWith(w, next, event)
         PROVE  wpc'[w] = next /\ wjob'[w] = wjob[w]
  BY <1>goto, <1>types DEF Goto, GotoWith
<1>idle. ASSUME FinishAck(w) \/ FinishNack(w) \/ Abandon(w)
         PROVE  wpc'[w] = "idle" /\ HandlerKnows(w)'
  BY <1>idle, <1>types DEF FinishAck, FinishNack, Abandon, Release, HandlerKnows
<1>faults. ~Fail("blind") /\ ~Fail("ambiguous") /\ ~Fail("channel")
  BY DEF Fail, OneDelivery
<1>1. ASSUME NEW j \in Jobs, Deliver(w, j)
      PROVE  WorkerGoes(w)
  BY <1>1, <1>types, <1>quiet DEF Deliver, WorkerGoes, HandlerKnows
<1>2. CASE ShouldSkipProcessing(w) \/ LoadJob(w)
  <2>1. NoJob
    BY <1>2, <1>quiet DEF ShouldSkipProcessing, LoadJob
  <2>2. CASE wpc'[w] = "idle" /\ HandlerKnows(w)'
    BY <2>1, <2>2 DEF WorkerGoes
  <2>3. CASE wpc'[w] \in {"republish", "loadBlind"}
    BY <2>1, <2>3 DEF WorkerGoes, HandlerKnows
  <2>5. CASE Goto(w, "load") /\ db[wjob[w]].status \in {"pending", "failed"}
    <3>1. wpc'[w] = "load" /\ wjob'[w] = wjob[w] /\ db' = db
      BY <2>1, <2>5, <1>goto DEF NoJob
    <3>2. HandlerKnows(w)'
      BY <2>5, <3>1 DEF HandlerKnows
    <3> QED BY <2>1, <3>1, <3>2 DEF WorkerGoes
  <2>6. CASE Goto(w, "fail") /\ db[wjob[w]].status \in {"pending", "failed"}
    <3>1. wpc'[w] = "fail" /\ wjob'[w] = wjob[w] /\ db' = db
      BY <2>1, <2>6, <1>goto DEF NoJob
    <3>2. HandlerKnows(w)'
      BY <2>6, <3>1 DEF HandlerKnows, ActiveStatuses
    <3> QED BY <2>1, <3>1, <3>2 DEF WorkerGoes
  <2>4. CASE Goto(w, "claim") /\ db[wjob[w]].status = "pending"
    <3>1. wpc'[w] = "claim" /\ wjob'[w] = wjob[w] /\ db' = db
      BY <2>1, <2>4, <1>goto DEF NoJob
    <3>2. HandlerKnows(w)'
      BY <2>4, <3>1 DEF HandlerKnows
    <3> QED BY <2>1, <3>1, <3>2 DEF WorkerGoes
  <2>7. CASE ShouldSkipProcessing(w)
    BY <1>goto, <1>idle, <2>2, <2>3, <2>5, <2>7 DEF ShouldSkipProcessing
  <2>8. CASE LoadJob(w)
    <3>1. wpc[w] = "load" => db[wjob[w]].status \in {"pending", "failed"}
      BY <1>knows DEF HandlerKnows
    <3> QED BY <1>faults, <1>idle, <2>2, <2>4, <2>6, <2>8, <3>1 DEF LoadJob
  <2> QED BY <1>2, <2>7, <2>8
<1>3. CASE ClaimJob(w)
  <2>1. wjob[w] \in Jobs /\ db[wjob[w]].status = "pending" /\ UNCHANGED outputVars
    BY <1>3, <1>types, <1>knows DEF ClaimJob, HandlerKnows
  <2>2. CASE UpdateStatus(wjob[w], "processing", None, "none") /\ Goto(w, "extract")
    <3>1. PICK j \in Jobs : j = wjob[w]
      BY <2>1
    <3>2. /\ db'[j].status = "processing" /\ Committed(j)' = Committed(j)
          /\ \A k \in Jobs \ {j} : db'[k] = db[k] /\ Committed(k)' = Committed(k)
      BY <2>2, <3>1, StatusWritten
    <3>3. StepOn(j) /\ FailsOpenly(j)
      BY <2>1, <3>1, <3>2 DEF StepOn, Started, Untouched, FailsOpenly, outputVars
    <3>4. wjob'[w] = j /\ wpc'[w] = "extract"
      BY <2>2, <3>1, <1>goto
    <3> QED BY <3>1, <3>2, <3>3, <3>4 DEF WorkerGoes, HandlerKnows
  <2>3. CASE UpdateStatusError(wjob[w], "processing", None, "none") /\ Goto(w, "fail")
    <3>1. NoJob
      BY <2>1, <2>3, StatusNotWritten, <1>quiet
    <3>2. wpc'[w] = "fail" /\ wjob'[w] = wjob[w]
      BY <2>3, <1>goto
    <3> QED BY <2>1, <3>1, <3>2 DEF WorkerGoes, HandlerKnows, NoJob, ActiveStatuses
  <2> QED BY <1>3, <2>2, <2>3 DEF ClaimJob
<1>4. CASE ExtractInto(w)
  <2>1. NoJob /\ wpc'[w] \in {"save", "fail"} /\ wjob'[w] = wjob[w]
    BY <1>4, <1>quiet, <1>goto DEF ExtractInto
  <2>2. db[wjob[w]].status = "processing"
    BY <1>4, <1>knows DEF ExtractInto, HandlerKnows
  <2> QED BY <2>1, <2>2 DEF WorkerGoes, HandlerKnows, NoJob, ActiveStatuses
<1>5. CASE SaveExternalData(w)
  <2>1. wjob[w] \in Jobs /\ db[wjob[w]].status = "processing" /\ UNCHANGED storeVars
        /\ UNCHANGED events
    BY <1>5, <1>types, <1>knows DEF SaveExternalData, HandlerKnows
  <2>2. PICK j \in Jobs : j = wjob[w]
    BY <2>1
  <2>3. StepOn(j) /\ FailsOpenly(j)
    <3>1. \A k \in Jobs \ {j} : stored'[k] = stored[k]
      BY <1>5, <2>2, <1>types DEF SaveExternalData
    <3> QED BY <2>1, <2>2, <3>1 DEF StepOn, Rests, Untouched, Committed, FailsOpenly, storeVars
  <2>4. CASE Goto(w, "fail")
    BY <2>1, <2>2, <2>3, <2>4, <1>goto DEF WorkerGoes, HandlerKnows, storeVars, ActiveStatuses
  <2>5. CASE stored' = [stored EXCEPT ![wjob[w]] = w] /\ Goto(w, "complete")
    <3>1. wpc'[w] = "complete" /\ wjob'[w] = j /\ db' = db /\ stored'[j] = w
      BY <2>1, <2>2, <2>5, <1>types, <1>goto DEF storeVars
    <3>2. HandlerKnows(w)'
      BY <2>1, <2>2, <3>1 DEF HandlerKnows
    <3> QED BY <2>2, <2>3, <3>1, <3>2 DEF WorkerGoes
  <2> QED BY <1>5, <2>4, <2>5 DEF SaveExternalData
<1>6. ASSUME NEW status \in TerminalStatuses, NEW result,
             wpc[w] # "idle",
             db[wjob[w]].status \in ActiveStatuses \/ (status = "failed" /\ db[wjob[w]].status = "failed"),
             UpdateStatus(wjob[w], status, result, status),
             status = "completed" => result = stored[wjob[w]] /\ result # None,
             GotoWith(w, "publish", status), UNCHANGED outputVars
      PROVE  WorkerGoes(w)
  <2>1. PICK j \in Jobs : j = wjob[w]
    BY <1>6, <1>types
  <2>2. /\ db'[j].status = status /\ db'[j].marker = status
        /\ result # None => db'[j].result = result
        /\ Committed(j)' = Committed(j) \cup {status}
        /\ \A k \in Jobs \ {j} : db'[k] = db[k] /\ Committed(k)' = Committed(k)
    BY <1>6, <2>1, StatusWritten DEF TerminalStatuses
  <2>5. ASSUME db[j].status \in ActiveStatuses PROVE StepOn(j)
    BY <1>6, <2>1, <2>2, <2>5 DEF StepOn, Ended, Untouched, outputVars
  <2>6. ASSUME status = "failed", db[j].status = "failed" PROVE StepOn(j)
    <3>1. <<j, "failed">> \in committed
      BY <2>1, <2>6 DEF GivenUpUnqueued
    <3>2. Committed(j)' = Committed(j)
      BY <2>2, <2>6, <3>1 DEF Committed, TerminalStatuses
    <3> QED BY <1>6, <2>1, <2>2, <2>6, <3>1, <3>2 DEF StepOn, FailedAgain, Untouched, outputVars
  <2>7. FailsOpenly(j)
    BY <2>2 DEF FailsOpenly, Committed
  <2>3. StepOn(j) /\ FailsOpenly(j)
    BY <1>6, <2>1, <2>5, <2>6, <2>7
  <2>4. wpc'[w] = "publish" /\ wjob' = wjob
    BY <1>6, <1>types DEF GotoWith
  <2> QED BY <2>1, <2>3, <2>4 DEF WorkerGoes, HandlerKnows
<1>7. CASE CompleteJob(w)
  <2>1. /\ wjob[w] \in Jobs /\ db[wjob[w]].status \in ActiveStatuses
        /\ stored[wjob[w]] = w /\ w # None /\ UNCHANGED outputVars
    BY <1>7, <1>types, <1>knows, JobStoreAssumption
       DEF CompleteJob, HandlerKnows, ActiveStatuses
  <2>2. CASE /\ UpdateStatus(wjob[w], "completed", w, "completed")
             /\ GotoWith(w, "publish", "completed")
    BY <1>6, <1>7, <2>1, <2>2 DEF CompleteJob, TerminalStatuses
  <2>3. CASE UpdateStatusError(wjob[w], "completed", w, "completed") /\ Goto(w, "fail")
    <3>1. NoJob
      BY <2>1, <2>3, StatusNotWritten, <1>quiet
    <3> QED BY <2>1, <2>3, <3>1, <1>goto DEF WorkerGoes, HandlerKnows, NoJob
  <2> QED BY <1>7, <2>2, <2>3 DEF CompleteJob
<1>8. CASE HandleErrorWithUpdate(w)
  <2>1. /\ wjob[w] \in Jobs /\ UNCHANGED outputVars
        /\ db[wjob[w]].status \in ActiveStatuses \/ db[wjob[w]].status = "failed"
    BY <1>8, <1>types, <1>knows DEF HandleErrorWithUpdate, HandlerKnows
  <2>2. CASE /\ UpdateStatus(wjob[w], "failed", None, "failed")
             /\ GotoWith(w, "publish", "failed")
    BY <1>6, <1>8, <2>1, <2>2 DEF HandleErrorWithUpdate, TerminalStatuses
  <2>3. CASE UpdateStatusError(wjob[w], "failed", None, "failed") /\ FinishNack(w)
    <3>1. NoJob
      BY <2>1, <2>3, StatusNotWritten, <1>quiet
    <3> QED BY <2>3, <3>1, <1>idle DEF WorkerGoes
  <2> QED BY <1>8, <2>2, <2>3 DEF HandleErrorWithUpdate
<1>9. CASE PublishJobNotification(w)
  <2>1. /\ wjob[w] \in Jobs /\ <<wjob[w], wevent[w]>> \in committed
        /\ UNCHANGED <<storeVars, stored>>
    BY <1>9, <1>types DEF PublishJobNotification, CarriedEventsCommitted
  <2>2. CASE /\ Accept(<<wjob[w], wevent[w]>>)
             /\ Goto(w, IF wpc[w] = "publish" THEN "clear" ELSE "reclear")
    <3>1. PICK j \in Jobs : j = wjob[w]
      BY <2>1
    <3>2. PICK s \in {"none"} \cup TerminalStatuses : s = wevent[w]
      BY <1>types
    <3>3. StepOn(j) /\ FailsOpenly(j) /\ Announced(j)'
      BY <2>1, <2>2, <3>1, <3>2, EventAccepted DEF Rests, FailsOpenly
    <3>4. wjob' = wjob /\ wpc'[w] \in {"clear", "reclear"}
      BY <2>2, <1>types DEF Goto
    <3> QED BY <3>1, <3>3, <3>4 DEF WorkerGoes, HandlerKnows, Announced
  <2>3. CASE FinishNack(w) /\ UNCHANGED events
    BY <2>1, <2>3, <1>idle, <1>quiet DEF WorkerGoes, outputVars
  <2> QED BY <1>9, <1>faults, <2>2, <2>3 DEF PublishJobNotification
<1>10. CASE ClearPendingTerminalEvent(w)
  <2>1. wjob[w] \in Jobs /\ Announced(wjob[w]) /\ UNCHANGED outputVars
    BY <1>10, <1>types DEF ClearPendingTerminalEvent, Clearing
  <2>2. PICK j \in Jobs : j = wjob[w]
    BY <2>1
  <2>3. StepOn(j) /\ FailsOpenly(j)
    BY <1>10, <2>1, <2>2, MarkerCleared DEF ClearPendingTerminalEvent, Rests, FailsOpenly
  <2>4. wjob' = wjob /\ wpc'[w] \in {"return", "ack"}
    BY <1>10, <1>types DEF ClearPendingTerminalEvent, Goto
  <2> QED BY <2>2, <2>3, <2>4 DEF WorkerGoes, HandlerKnows
<1>11. CASE Settle(w)
  BY <1>11, <1>idle, <1>quiet DEF Settle, WorkerGoes
<1>12. CASE WorkerFault(w)
  <2>1. ~LoseChannel(w)
    BY <1>faults DEF LoseChannel
  <2> QED BY <1>12, <2>1, <1>idle, <1>quiet
          DEF WorkerFault, RejectDelivery, WorkerCrash, HandlerPanic, ContextCanceled, WorkerGoes
<1> QED BY <1>1, <1>2, <1>3, <1>4, <1>5, <1>7, <1>8, <1>9, <1>10, <1>11, <1>12 DEF WorkerStep

(* A handler's step preserves the invariant: no other handler and no        *)
(* request is at work on its job.                                           *)
LEMMA WorkerKeeps ==
    ASSUME OneDelivery, IInv, SInv, NEW w \in Workers, WorkerStep(w) \/ WorkerFault(w),
           UNCHANGED <<managerVars, repairerVars>>
    PROVE  SInv'
<1> USE DEF SInv
<1>types. /\ wpc \in [Workers -> WorkerPCs] /\ wjob \in [Workers -> Jobs \cup {None}]
          /\ wevent \in [Workers -> {"none"} \cup TerminalStatuses]
          /\ \A v \in Workers : wpc[v] # "idle" => wjob[v] \in Jobs
          /\ \A p \in Repairers : clearing[p] # None => clearing[p] \in Jobs
  BY DEF IInv, WorkerTypeOK, RepairerTypeOK
<1>1. WorkerGoes(w)
  BY WorkerSteps
<1>2. \/ Stays(w) \/ Settles(w) \/ GivesBack(w)
      \/ \E j \in Jobs : Deliver(w, j)
  BY WorkerMoves
<1>3. OneCopy'
  BY <1>2, WorkerOneCopy DEF managerVars
<1>4. OthersKeep(w)
  BY <1>2, <1>types DEF Stays, Settles, GivesBack, Deliver, Release, OthersKeep
<1>5. /\ EndsOnce' /\ EventNeverLost' /\ IntegrityMatchesObject'
      /\ \A k \in Jobs : Announced(k) => Announced(k)'
  BY <1>1, StepKeepsEnds DEF WorkerGoes
<1>6. \A k \in Jobs : k # wjob[w] => db'[k] = db[k] /\ stored'[k] = stored[k]
  BY <1>1 DEF WorkerGoes, NoJob, StepOn, Untouched
<1>queue. GivenUpUnqueued'
  <2>1. ASSUME NEW k \in Jobs, db'[k].status = "failed", <<k, "failed">> \notin committed'
        PROVE  ready'[k] = 0 /\ \A v \in Workers : wjob'[v] # k
    <3>1. db[k].status = "failed" /\ <<k, "failed">> \notin committed
      <4>1. Committed(k) \subseteq Committed(k)'
        BY <1>1 DEF WorkerGoes, NoJob, StepOn, Untouched, Rests, Accepted, Started, Ended,
           FailedAgain, GivenUp, Committed
      <4>2. <<k, "failed">> \notin committed
        BY <2>1, <4>1 DEF Committed, TerminalStatuses
      <4>3. db[k].status = "failed"
        BY <1>1, <2>1 DEF WorkerGoes, NoJob, StepOn, Untouched, FailsOpenly
      <4> QED BY <4>2, <4>3
    <3>2. ready[k] = 0 /\ \A v \in Workers : wjob[v] # k
      BY <3>1 DEF GivenUpUnqueued
    <3>3. ASSUME NEW j \in Jobs, Deliver(w, j) PROVE j # k
      BY <3>2, <3>3 DEF Deliver, Dequeue
    <3> QED BY <1>2, <1>types, <3>2, <3>3, JobStoreAssumption
            DEF Stays, Settles, GivesBack, Release, Enqueue, Deliver, Dequeue, IInv, QueueTypeOK
  <2> QED BY <2>1 DEF GivenUpUnqueued
<1>7. ManagerKnows'
  <2>1. ASSUME NEW r \in Jobs
        PROVE  /\ mpc'[r] \in BeforeInsert => db'[r].status = "absent"
               /\ mpc'[r] \in {"publish", "compensate"} => db'[r].status = "pending"
    <3>1. CASE wjob[w] # r
      BY <1>6, <3>1 DEF ManagerKnows, managerVars
    <3>2. CASE wjob[w] = r
      BY <3>2 DEF OneCopy, CopiesOf, managerVars, BeforeInsert
    <3> QED BY <3>1, <3>2
  <2> QED BY <2>1 DEF ManagerKnows
<1>8. ASSUME NEW v \in Workers
      PROVE  HandlerKnows(v)'
  <2>1. CASE v = w
    BY <1>1, <2>1 DEF WorkerGoes
  <2>2. CASE v # w
    <3>1. wpc'[v] = wpc[v] /\ wjob'[v] = wjob[v]
      BY <1>4, <2>2 DEF OthersKeep
    <3>2. wpc[v] # "idle" => wjob[v] \in Jobs /\ wjob[v] # wjob[w]
      BY <1>types, <2>2 DEF OneCopy, CopiesOf
    <3> QED BY <1>6, <3>1, <3>2 DEF HandlerKnows
  <2> QED BY <2>1, <2>2
<1>9. Clearing'
  <2>1. ASSUME NEW v \in Workers, (wpc[v] \in {"clear", "reclear"})'
        PROVE  Announced(wjob[v])'
    <3>1. CASE v = w
      BY <1>1, <2>1, <3>1 DEF WorkerGoes
    <3>2. CASE v # w
      <4>1. wpc'[v] = wpc[v] /\ wjob'[v] = wjob[v]
        BY <1>4, <3>2 DEF OthersKeep
      <4>2. PICK j \in Jobs : j = wjob[v]
        BY <2>1, <4>1, <1>types
      <4>3. Announced(j)'
        BY <1>5, <2>1, <4>1, <4>2 DEF Clearing
      <4> QED BY <4>1, <4>2, <4>3 DEF Announced
    <3> QED BY <3>1, <3>2
  <2>2. ASSUME NEW p \in Repairers, (clearing[p] # None)'
        PROVE  Announced(clearing[p])'
    <3>1. clearing' = clearing
      BY DEF repairerVars
    <3>2. PICK j \in Jobs : j = clearing[p]
      BY <2>2, <3>1, <1>types
    <3>3. Announced(j)'
      BY <1>5, <2>2, <3>1, <3>2 DEF Clearing
    <3> QED BY <3>1, <3>2, <3>3 DEF Announced
  <2> QED BY <2>1, <2>2 DEF Clearing
<1> QED BY <1>3, <1>queue, <1>5, <1>7, <1>8, <1>9

-----------------------------------------------------------------------------
(* The repairers. *)

(* A repairer emits the end of a job and clears a marker that has done its  *)
(* work; it takes part in no status.                                        *)
RepairerGoes(p) ==
    /\ NoJob \/ \E j \in Jobs : StepOn(j) /\ Rests(j) /\ stored' = stored
    /\ \A q \in Repairers \ {p} : clearing'[q] = clearing[q]
    /\ (clearing[p] # None => Announced(clearing[p]))'

LEMMA RepairerMoves ==
    ASSUME OneDelivery, IInv, SInv, NEW p \in Repairers, RepairerStep(p) \/ RepairerCrash(p)
    PROVE  RepairerGoes(p) /\ UNCHANGED <<queueVars, workerVars>>
<1> USE DEF IInv, SInv
<1>types. clearing \in [Repairers -> Jobs \cup {None}]
  BY DEF RepairerTypeOK
<1>0. UNCHANGED <<queueVars, workerVars>>
  BY DEF RepairerStep, RepairList, RepairPublish, RepairClear, RepairerCrash
<1>1. CASE RepairList(p)
  BY <1>1, <1>0 DEF RepairList, RepairerGoes, NoJob, storeVars, outputVars
<1>2. CASE RepairPublish(p)
  <2>0. ~Fail("ambiguous") /\ UNCHANGED <<storeVars, stored>> /\ clearing[p] = None
    BY <1>2 DEF Fail, OneDelivery, RepairPublish
  <2>1. PICK e \in batch[p] :
          \/ Accept(e) /\ clearing' = [clearing EXCEPT ![p] = e[1]]
          \/ UNCHANGED <<events, clearing>>
    BY <1>2, <2>0 DEF RepairPublish
  <2>2. CASE UNCHANGED <<events, clearing>>
    BY <1>0, <2>0, <2>2 DEF RepairerGoes, NoJob, storeVars
  <2>3. CASE Accept(e) /\ clearing' = [clearing EXCEPT ![p] = e[1]]
    <3>1. e \in committed /\ e \in Jobs \X TerminalStatuses
      BY DEF CarriedEventsCommitted, StoreInv, StoreTypeOK, Events
    <3>2. PICK j \in Jobs, s \in TerminalStatuses : e = <<j, s>>
      BY <3>1
    <3>3. StepOn(j) /\ Rests(j) /\ Announced(j)'
      BY <2>0, <2>3, <3>1, <3>2, EventAccepted
    <3>4. stored' = stored
      BY <2>0
    <3>5. clearing'[p] = j /\ \A q \in Repairers \ {p} : clearing'[q] = clearing[q]
      BY <2>3, <3>2, <1>types
    <3> QED BY <1>0, <3>3, <3>4, <3>5 DEF RepairerGoes, Announced
  <2> QED BY <2>1, <2>2, <2>3
<1>3. CASE RepairClear(p)
  <2>1. PICK j \in Jobs : j = clearing[p]
    BY <1>3, <1>types DEF RepairClear
  <2>2. Announced(j) /\ UNCHANGED outputVars
    BY <1>3, <2>1 DEF Clearing, RepairClear
  <2>3. StepOn(j) /\ Rests(j)
    BY <1>3, <2>1, <2>2, MarkerCleared DEF RepairClear
  <2>4. stored' = stored
    BY <2>2 DEF outputVars
  <2>5. clearing'[p] = None /\ \A q \in Repairers \ {p} : clearing'[q] = clearing[q]
    BY <1>3, <1>types DEF RepairClear
  <2> QED BY <1>0, <2>3, <2>4, <2>5 DEF RepairerGoes
<1>4. CASE RepairerCrash(p)
  BY <1>4, <1>0, <1>types DEF RepairerCrash, RepairerGoes, NoJob, storeVars, outputVars
<1> QED BY <1>1, <1>2, <1>3, <1>4 DEF RepairerStep

LEMMA RepairerKeeps ==
    ASSUME IInv, SInv, NEW p \in Repairers, RepairerGoes(p),
           UNCHANGED <<queueVars, managerVars, workerVars>>
    PROVE  SInv'
<1> USE DEF SInv
<1>types. /\ \A v \in Workers : wpc[v] # "idle" => wjob[v] \in Jobs
          /\ \A q \in Repairers : clearing[q] # None => clearing[q] \in Jobs
  BY DEF IInv, WorkerTypeOK, RepairerTypeOK
<1>1. /\ EndsOnce' /\ EventNeverLost' /\ IntegrityMatchesObject'
      /\ \A k \in Jobs : Announced(k) => Announced(k)'
  BY StepKeepsEnds DEF RepairerGoes
<1>2. /\ \A k \in Jobs : db'[k].status = db[k].status
      /\ stored' = stored
  BY DEF RepairerGoes, NoJob, StepOn, Rests, Untouched
<1>3. OneCopy' /\ ManagerKnows'
  BY <1>2 DEF OneCopy, CopiesOf, ManagerKnows, queueVars, managerVars, workerVars
<1>queue. GivenUpUnqueued'
  <2>1. \A k \in Jobs : Committed(k)' = Committed(k)
    BY DEF RepairerGoes, NoJob, StepOn, Rests, Untouched, Committed
  <2>2. \A k \in Jobs : <<k, "failed">> \in committed' <=> <<k, "failed">> \in committed
    BY <2>1 DEF Committed, TerminalStatuses
  <2> QED BY <1>2, <2>2 DEF GivenUpUnqueued, queueVars, workerVars
<1>4. \A w \in Workers : HandlerKnows(w)'
  BY <1>2, <1>types DEF HandlerKnows, workerVars
<1>5. ASSUME NEW w \in Workers, (wpc[w] \in {"clear", "reclear"})'
      PROVE  Announced(wjob[w])'
  <2>1. wpc' = wpc /\ wjob' = wjob
    BY DEF workerVars
  <2>2. PICK j \in Jobs : j = wjob[w]
    BY <1>5, <2>1, <1>types
  <2>3. Announced(j)'
    BY <1>1, <1>5, <2>1, <2>2 DEF Clearing
  <2> QED BY <2>1, <2>2, <2>3 DEF Announced
<1>6. ASSUME NEW q \in Repairers, (clearing[q] # None)'
      PROVE  Announced(clearing[q])'
  <2>1. CASE q = p
    BY <1>6, <2>1 DEF RepairerGoes
  <2>2. CASE q # p
    <3>1. clearing'[q] = clearing[q]
      BY <2>2 DEF RepairerGoes
    <3>2. PICK j \in Jobs : j = clearing[q]
      BY <1>6, <3>1, <1>types
    <3>3. Announced(j)'
      BY <1>1, <1>6, <3>1, <3>2 DEF Clearing
    <3> QED BY <3>1, <3>2, <3>3 DEF Announced
  <2> QED BY <2>1, <2>2
<1>7. Clearing'
  BY <1>5, <1>6 DEF Clearing
<1> QED BY <1>1, <1>3, <1>queue, <1>4, <1>7

-----------------------------------------------------------------------------
(* The system. *)

(* Initially nothing is stored, queued, handled or announced. *)
LEMMA InitSInv ==
    ASSUME Init
    PROVE  SInv
<1> USE DEF Init, StoreInit, QueueInit, ManagerInit, WorkerInit, RepairerInit
<1>1. OneCopy
  BY JobStoreAssumption DEF OneCopy, CopiesOf
<1>2. ManagerKnows /\ GivenUpUnqueued
  BY DEF ManagerKnows, BeforeInsert, GivenUpUnqueued
<1>3. EndsOnce /\ EventNeverLost /\ IntegrityMatchesObject
  BY DEF EndsOnce, EventNeverLost, IntegrityMatchesObject
<1>4. Clearing /\ \A w \in Workers : HandlerKnows(w)
  BY DEF Clearing, HandlerKnows
<1> QED BY <1>1, <1>2, <1>3, <1>4 DEF SInv

(* SInv speaks of none of the clocks. *)
LEMMA QuietSInv ==
    ASSUME SInv, NoJob, UNCHANGED <<queueVars, managerVars, workerVars, repairerVars>>
    PROVE  SInv'
BY DEF SInv, NoJob, queueVars, managerVars, workerVars, repairerVars, OneCopy, CopiesOf,
   GivenUpUnqueued, ManagerKnows, EndsOnce, HandlerKnows, Clearing, Announced,
   EventNeverLost, IntegrityMatchesObject

(* Every step preserves the invariant, and moves one job or none. *)
LEMMA NextSInv ==
    ASSUME OneDelivery, IInv, SInv, [Next]_vars
    PROVE  SInv' /\ (NoJob \/ \E j \in Jobs : StepOn(j))
<1>1. CASE ManagerNext
  <2>1. PICK r \in Jobs : Submit(r) \/ HandlerStep(r) \/ ManagerCrash(r)
    BY <1>1 DEF ManagerNext
  <2>2. UNCHANGED <<outputVars, workerVars, repairerVars>>
    BY <1>1 DEF ManagerNext
  <2>3. ManagerGoes(r)
    BY <2>1, <2>2, ManagerMoves
  <2> QED BY <2>2, <2>3, ManagerKeeps DEF ManagerGoes
<1>2. CASE WorkerNext
  <2>1. PICK w \in Workers : WorkerStep(w) \/ WorkerFault(w)
    BY <1>2 DEF WorkerNext
  <2>2. SInv'
    BY <1>2, <2>1, WorkerKeeps DEF WorkerNext
  <2>3. WorkerGoes(w)
    BY <2>1, WorkerSteps
  <2> QED BY <2>2, <2>3 DEF WorkerGoes
<1>3. CASE RepairerNext
  <2>1. PICK p \in Repairers : RepairerStep(p) \/ RepairerCrash(p)
    BY <1>3 DEF RepairerNext
  <2>2. RepairerGoes(p) /\ UNCHANGED <<queueVars, workerVars>>
    BY <2>1, RepairerMoves
  <2>3. SInv'
    BY <1>3, <2>2, RepairerKeeps DEF RepairerNext
  <2> QED BY <2>2, <2>3 DEF RepairerGoes
<1>4. CASE TimePasses \/ Quiescent \/ UNCHANGED vars
  <2>1. NoJob /\ UNCHANGED <<queueVars, managerVars, workerVars, repairerVars>>
    BY <1>4 DEF TimePasses, WindowSlides, Quiescent, vars, NoJob, storeVars, outputVars
  <2> QED BY <2>1, QuietSInv
<1> QED BY <1>1, <1>2, <1>3, <1>4 DEF Next

(* A step that moves one job is a step of the contract, or none. *)
LEMMA StepIsContractStep ==
    ASSUME NoJob \/ \E j \in Jobs : StepOn(j)
    PROVE  [Contract!Next]_<<[j \in Jobs |-> db[j].status], events>>
<1> DEFINE state == [j \in Jobs |-> db[j].status]
<1>1. CASE NoJob
  BY <1>1 DEF NoJob
<1>2. ASSUME NEW j \in Jobs, StepOn(j)
      PROVE  [Contract!Next]_<<state, events>>
  <2>1. state' = [state EXCEPT ![j] = db'[j].status]
    BY <1>2 DEF StepOn, Untouched
  <2>2. CASE Rests(j)
    <3>1. state' = state
      BY <2>1, <2>2 DEF Rests
    <3>2. CASE events' = events
      BY <3>1, <3>2
    <3>3. CASE db[j].status \in TerminalStatuses /\ events' = events \cup {<<j, db[j].status>>}
      <4>1. Contract!Announce(j)
        BY <3>1, <3>3 DEF Contract!Announce, Contract!Terminal, TerminalStatuses
      <4> QED BY <4>1 DEF Contract!Next
    <3> QED BY <2>2, <3>2, <3>3 DEF Rests
  <2>3. CASE Accepted(j)
    <3>1. Contract!Accept(j)
      BY <2>1, <2>3 DEF Accepted, Same, Contract!Accept, Contract!Active, ActiveStatuses
    <3> QED BY <3>1 DEF Contract!Next
  <2>4. CASE Started(j)
    <3>1. Contract!Start(j)
      BY <2>1, <2>4 DEF Started, Contract!Start
    <3> QED BY <3>1 DEF Contract!Next
  <2>5. CASE Ended(j) \/ GivenUp(j)
    <3>1. Contract!Finish(j)
      BY <2>1, <2>5 DEF Ended, GivenUp, Contract!Finish, Contract!Active,
         Contract!Terminal, ActiveStatuses, TerminalStatuses
    <3> QED BY <3>1 DEF Contract!Next
  <2>6. CASE FailedAgain(j)
    BY <2>1, <2>6 DEF FailedAgain
  <2> QED BY <1>2, <2>2, <2>3, <2>4, <2>5, <2>6 DEF StepOn
<1> QED BY <1>1, <1>2

(* The invariant holds throughout. *)
THEOREM SingleDeliveryInvariant ==
    ASSUME OneDelivery
    PROVE  Spec => [](IInv /\ SInv)
<1>1. Init => IInv /\ SInv
  BY InitIInv, InitSInv
<1>2. IInv /\ SInv /\ [Next]_vars => (IInv /\ SInv)'
  BY NextIInv, NextSInv
<1> QED BY <1>1, <1>2, PTL DEF Spec

(* Once the Worker has committed the end of a job (completeJob,             *)
(* handleErrorWithUpdate), its event was accepted by the stream or its      *)
(* marker is left for the repairer: no crash, panic, refused publish or     *)
(* single failed lookup removes it.  The four failures of OneDelivery do:   *)
(* each of them lets a second write of the status overwrite the marker.     *)
THEOREM EventsAreNotLost ==
    ASSUME OneDelivery
    PROVE  Spec => []EventNeverLost
<1>1. IInv /\ SInv => EventNeverLost
  BY DEF SInv
<1> QED BY <1>1, SingleDeliveryInvariant, PTL

(* The HMAC in a completed job's document is that of the object in storage, *)
(* although a redelivered job is written under the same key.                *)
THEOREM IntegrityHolds ==
    ASSUME OneDelivery
    PROVE  Spec => []IntegrityMatchesObject
<1>1. IInv /\ SInv => IntegrityMatchesObject
  BY DEF SInv
<1> QED BY <1>1, SingleDeliveryInvariant, PTL

(* Manager, Worker and repairers together implement JobContract: a job is   *)
(* accepted while no job for its request is active, it ends at most once,   *)
(* its end is not undone, and only the event of its end is announced.  With *)
(* any of the four failures of OneDelivery a second status write undoes it. *)
THEOREM ServicesImplementContract ==
    ASSUME OneDelivery
    PROVE  Spec => ImplementsContract
<1>1. Init => Contract!Init
  BY DEF Init, StoreInit, WorkerInit, Contract!Init
<1>2. IInv /\ SInv /\ [Next]_vars
         => [Contract!Next]_<<[j \in Jobs |-> db[j].status], events>>
  BY NextSInv, StepIsContractStep
<1> QED BY <1>1, <1>2, SingleDeliveryInvariant, PTL
        DEF Spec, ImplementsContract, Contract!Spec

=============================================================================
