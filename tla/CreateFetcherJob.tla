-------------------------- MODULE CreateFetcherJob --------------------------
(***************************************************************************)
(* The Manager's POST /v1/fetcher handler, CreateFetcherJob.Execute: the    *)
(* deduplication lookup, the connection checks, the insert with its         *)
(* conflict resolution, and the publish with its compensation.  Handlers    *)
(* run concurrently and each call out of the process is a step of its own.  *)
(***************************************************************************)
EXTENDS JobQueue

CONSTANT MaxPublishAttempts  \* ProducerDefault's bound on publish attempts

ASSUME PublishAssumption == MaxPublishAttempts \in Nat \ {0}

VARIABLES
    mpc,       \* where the handler of each request is
    attempts,  \* publish attempts that have failed
    reply      \* the handler's answer; `job' is the job a duplicate refers to

managerVars == <<mpc, attempts, reply>>

ManagerPCs == {"idle", "check", "validate", "create", "recover", "retry",
               "recoverAgain", "publish", "compensate", "done"}

Replies == [kind: {"none", "created", "error"}, job: {None}]
             \cup [kind: {"duplicate"}, job: Jobs]

ManagerTypeOK ==
    /\ mpc \in [Jobs -> ManagerPCs]
    /\ attempts \in [Jobs -> 0..MaxPublishAttempts]
    /\ reply \in [Jobs -> Replies]

ManagerInit ==
    /\ mpc = [r \in Jobs |-> "idle"]
    /\ attempts = [r \in Jobs |-> 0]
    /\ reply = [r \in Jobs |-> [kind |-> "none", job |-> None]]

Continue(r, next) ==
    /\ mpc' = [mpc EXCEPT ![r] = next]
    /\ UNCHANGED <<attempts, reply>>

Answer(r, kind, job) ==
    /\ mpc' = [mpc EXCEPT ![r] = "done"]
    /\ reply' = [reply EXCEPT ![r] = [kind |-> kind, job |-> job]]
    /\ UNCHANGED attempts

AnswerError(r)        == Answer(r, "error", None)
AnswerDuplicate(r, k) == Answer(r, "duplicate", k)

-----------------------------------------------------------------------------
(* A valid request arrives; validateAndBuildJob stamps created_at. *)
Submit(r) ==
    /\ mpc[r] = "idle"
    /\ Continue(r, "check")
    /\ createdAt' = [createdAt EXCEPT ![r] = clock + 1]
    /\ clock' = clock + 1
    /\ UNCHANGED <<db, horizon, committed, queueVars, faults>>

(* The newest job in the window answers the request unless it failed. *)
CheckDuplicateJob(r) ==
    /\ mpc[r] = "check"
    /\ UNCHANGED <<storeVars, queueVars>>
    /\ LET duplicates == {k \in FindByRequestHashWithinWindow(RequestHash[r]) :
                              db[k].status # "failed"}
       IN  \/ duplicates = {} /\ Continue(r, "validate") /\ NoFault
           \/ (\E k \in duplicates : AnswerDuplicate(r, k)) /\ NoFault
           \/ Fail("read") /\ AnswerError(r)

(* resolveAndValidateConnections, validateProductOwnership, testConnections:*)
(* no state is changed, the request may be refused.                         *)
ValidateConnections(r) ==
    /\ mpc[r] = "validate"
    /\ Continue(r, "create") \/ AnswerError(r)
    /\ UNCHANGED <<storeVars, queueVars, faults>>

(* createJobWithConflictResolution and its single retry: the insert, and    *)
(* where the handler goes when the index reports a conflict.                *)
Create(r, at, onConflict) ==
    /\ mpc[r] = at
    /\ UNCHANGED queueVars
    /\ \/ /\ ~DuplicateKey(r, "pending")
          /\ InsertOne(r)
          /\ Continue(r, "publish")
          /\ NoFault
       \/ /\ DuplicateKey(r, "pending")
          /\ Continue(r, onConflict)
          /\ UNCHANGED <<storeVars, faults>>
       \/ /\ Fail("write")
          /\ AnswerError(r)
          /\ UNCHANGED storeVars
       \/ /\ Fail("ambiguous")
          /\ ~DuplicateKey(r, "pending")
          /\ InsertOne(r)
          /\ AnswerError(r)

CreateJob(r)   == Create(r, "create", "recover")
RetryCreate(r) == Create(r, "retry", "recoverAgain")

(* recoverFromDuplicateKey: the active job answers the request; there may   *)
(* be none any more, the job in conflict having finished meanwhile.         *)
Recover(r, at, whenGone) ==
    /\ mpc[r] = at
    /\ UNCHANGED <<storeVars, queueVars>>
    /\ LET active == FindActiveByRequestHash(RequestHash[r])
       IN  \/ (\E k \in active : AnswerDuplicate(r, k)) /\ NoFault
           \/ active = {} /\ whenGone /\ NoFault
           \/ Fail("read") /\ AnswerError(r)

RecoverFromDuplicateKey(r) == Recover(r, "recover", Continue(r, "retry"))
RecoverAfterRetry(r)       == Recover(r, "recoverAgain", AnswerError(r))

-----------------------------------------------------------------------------

(* Mutant: one attempt too many. *)
AttemptFailedOffByOne(r) ==
    /\ attempts' = [attempts EXCEPT ![r] = attempts[r] + 1]
    /\ mpc' = [mpc EXCEPT ![r] = IF attempts[r] = MaxPublishAttempts
                                 THEN "compensate" ELSE "publish"]
    /\ UNCHANGED reply

(* One round of ProducerDefault's loop.  An attempt that is not confirmed   *)
(* counts as failed whether or not the broker took the message.             *)
AttemptFailed(r) ==
    /\ attempts' = [attempts EXCEPT ![r] = attempts[r] + 1]
    /\ mpc' = [mpc EXCEPT ![r] = IF attempts[r] + 1 = MaxPublishAttempts
                                 THEN "compensate" ELSE "publish"]
    /\ UNCHANGED reply

PublishToQueue(r) ==
    /\ mpc[r] = "publish"
    /\ UNCHANGED storeVars
    /\ \/ Enqueue(r) /\ Answer(r, "created", None) /\ NoFault
       \/ Fail("broker") /\ AttemptFailed(r) /\ UNCHANGED queueVars
       \/ Fail("confirm") /\ AttemptFailed(r) /\ Enqueue(r)
       \/ /\ Fail("broker")             \* shut down, or the circuit is open
          /\ attempts[r] = 0
          /\ Continue(r, "compensate")
          /\ UNCHANGED queueVars

(* publishAndHandleFailure: the job is overwritten as failed, best effort.  *)
CompensatePublish(r) ==
    /\ mpc[r] = "compensate"
    /\ AnswerError(r)
    /\ UNCHANGED queueVars
    /\ \/ OverwriteFailed(r) /\ NoFault
       \/ Fail("write") /\ UNCHANGED storeVars

ManagerCrash(r) ==
    /\ mpc[r] \notin {"idle", "done"}
    /\ Fail("crash")
    /\ Continue(r, "done")
    /\ UNCHANGED <<storeVars, queueVars>>

HandlerStep(r) ==
    \/ CheckDuplicateJob(r)
    \/ ValidateConnections(r)
    \/ CreateJob(r)
    \/ RecoverFromDuplicateKey(r)
    \/ RetryCreate(r)
    \/ RecoverAfterRetry(r)
    \/ PublishToQueue(r)
    \/ CompensatePublish(r)
=============================================================================
