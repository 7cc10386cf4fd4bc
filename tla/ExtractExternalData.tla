------------------------ MODULE ExtractExternalData -------------------------
(***************************************************************************)
(* The Worker's message handler: the delivery checks of the consumer,       *)
(* UseCase.ExtractExternalData with completeJob and handleErrorWithUpdate,  *)
(* and the ack or nack that settles the delivery.  Every call to MongoDB,   *)
(* object storage or lib-streaming is a step of its own, so that handlers,  *)
(* the repairer and the Manager interleave between them.                    *)
(***************************************************************************)
EXTENDS JobQueue

VARIABLES
    stored,  \* the object of each job's result: the worker whose bytes it holds
    events,  \* terminal events lib-streaming has accepted
    wpc,     \* where each handler is
    wjob,    \* the job it handles
    wevent,  \* the terminal event it is publishing
    wlive    \* whether the channel its delivery came on is still open

outputVars == <<stored, events>>
workerVars == <<wpc, wjob, wevent, wlive>>

WorkerPCs == {"idle", "preflight", "republish", "reclear", "load", "loadBlind",
              "claim", "extract", "save", "complete", "fail", "publish", "clear",
              "ack", "return"}

WorkerTypeOK ==
    /\ stored \in [Jobs -> Workers \cup {None}]
    /\ events \subseteq Events
    /\ wpc \in [Workers -> WorkerPCs]
    /\ wjob \in [Workers -> Jobs \cup {None}]
    /\ wevent \in [Workers -> {"none"} \cup TerminalStatuses]
    /\ wlive \in [Workers -> BOOLEAN]
    /\ \A w \in Workers : wpc[w] # "idle" => wjob[w] \in Jobs

WorkerInit ==
    /\ stored = [j \in Jobs |-> None]
    /\ events = {}
    /\ wpc = [w \in Workers |-> "idle"]
    /\ wjob = [w \in Workers |-> None]
    /\ wevent = [w \in Workers |-> "none"]
    /\ wlive = [w \in Workers |-> TRUE]

Goto(w, next) ==
    /\ wpc' = [wpc EXCEPT ![w] = next]
    /\ UNCHANGED <<wjob, wevent, wlive>>

GotoWith(w, next, event) ==
    /\ wpc' = [wpc EXCEPT ![w] = next]
    /\ wevent' = [wevent EXCEPT ![w] = event]
    /\ UNCHANGED <<wjob, wlive>>

Release(w) ==
    /\ wpc' = [wpc EXCEPT ![w] = "idle"]
    /\ wjob' = [wjob EXCEPT ![w] = None]
    /\ wevent' = [wevent EXCEPT ![w] = "none"]
    /\ wlive' = [wlive EXCEPT ![w] = TRUE]

FinishAck(w)  == Release(w) /\ Ack
FinishNack(w) == Release(w) /\ Nack(wjob[w], wlive[w])

(* The handler is gone and settled nothing: RabbitMQ redelivers the message *)
(* unless it already did when the channel died.                             *)
Abandon(w) ==
    /\ Release(w)
    /\ IF wlive[w] THEN Enqueue(wjob[w]) ELSE UNCHANGED queueVars

-----------------------------------------------------------------------------
Deliver(w, j) ==
    /\ wpc[w] = "idle"
    /\ Dequeue(j)
    /\ wpc' = [wpc EXCEPT ![w] = "preflight"]
    /\ wjob' = [wjob EXCEPT ![w] = j]
    /\ UNCHANGED <<wevent, wlive, storeVars, outputVars, faults>>

(* The consumer refuses the delivery before the use case runs and leaves    *)
(* the job as it is.  A bad signature is nacked by the single-tenant and    *)
(* acked by the multi-tenant consumer; a tenant error is nacked when it is  *)
(* transient and acked when it is permanent.                                *)
RejectDelivery(w) ==
    /\ wpc[w] = "preflight"
    /\ Fail("signature") \/ Fail("tenant")
    /\ FinishNack(w) \/ FinishAck(w)
    /\ UNCHANGED <<storeVars, outputVars>>

(* shouldSkipProcessing.  retryPendingTerminalEventForJob refuses a marker  *)
(* whose event is not the stored, terminal status.  When the lookup fails   *)
(* the handler goes on, knowing nothing of the job.                         *)
ShouldSkipProcessing(w) ==
    /\ wpc[w] = "preflight"
    /\ UNCHANGED <<storeVars, outputVars>>
    /\ LET job == db[wjob[w]]
       IN  \/ /\ job.marker # "none" /\ job.marker = job.status
              /\ GotoWith(w, "republish", job.marker)
              /\ UNCHANGED <<queueVars, faults>>
           \/ /\ job.marker # "none" /\ job.marker # job.status
              /\ FinishNack(w)
              /\ NoFault
           \/ /\ job.marker = "none" /\ job.status \in {"completed", "processing"}
              /\ FinishAck(w)
              /\ NoFault
           \/ /\ job.marker = "none" /\ job.status \in {"pending", "failed"}
              /\ Goto(w, "load")
              /\ UNCHANGED <<queueVars, faults>>
           \/ Fail("read") /\ Goto(w, "loadBlind") /\ UNCHANGED queueVars

(* Mutant: a job that failed is taken up again. *)
LoadJobAnyStatus(w) ==
    /\ wpc[w] \in {"load", "loadBlind"}
    /\ Goto(w, "claim")
    /\ UNCHANGED <<storeVars, queueVars, outputVars, faults>>

(* The second FindByID and the best-effort check that the job is pending.   *)
(* When it fails the job is failed, also by a handler that could not tell   *)
(* what its status was.                                                     *)
LoadJob(w) ==
    /\ wpc[w] \in {"load", "loadBlind"}
    /\ UNCHANGED <<storeVars, outputVars>>
    /\ \/ /\ db[wjob[w]].status = "pending"
          /\ Goto(w, "claim")
          /\ UNCHANGED <<queueVars, faults>>
       \/ db[wjob[w]].status # "pending" /\ FinishAck(w) /\ NoFault
       \/ /\ Fail(IF wpc[w] = "load" THEN "read" ELSE "blind")
          /\ Goto(w, "fail")
          /\ UNCHANGED queueVars

(* UpdateStatus(processing): the write does not test the status it read. *)
ClaimJob(w) ==
    /\ wpc[w] = "claim"
    /\ UNCHANGED <<queueVars, outputVars>>
    /\ \/ UpdateStatus(wjob[w], "processing", None, "none") /\ Goto(w, "extract")
       \/ UpdateStatusError(wjob[w], "processing", None, "none") /\ Goto(w, "fail")

(* Connections are resolved and queried; the job may well fail here. *)
ExtractInto(w) ==
    /\ wpc[w] = "extract"
    /\ Goto(w, "save") \/ Goto(w, "fail")
    /\ UNCHANGED <<storeVars, queueVars, outputVars, faults>>

(* Mutant: a storage error is dropped. *)
SaveExternalDataUnchecked(w) ==
    /\ wpc[w] = "save"
    /\ \/ stored' = [stored EXCEPT ![wjob[w]] = w] /\ NoFault
       \/ Fail("storage") /\ UNCHANGED stored
    /\ Goto(w, "complete")
    /\ UNCHANGED <<storeVars, queueVars, events>>

(* saveExternalData: the object's key is the job's, whoever writes it.  The *)
(* save may report an error after the object was written.                   *)
SaveExternalData(w) ==
    /\ wpc[w] = "save"
    /\ \/ /\ stored' = [stored EXCEPT ![wjob[w]] = w]
          /\ Goto(w, "complete")
          /\ NoFault
       \/ /\ Fail("storage")
          /\ stored' = stored \/ stored' = [stored EXCEPT ![wjob[w]] = w]
          /\ Goto(w, "fail")
    /\ UNCHANGED <<storeVars, queueVars, events>>

(* Mutant: the status is stored without the result. *)
CompleteJobWithoutResult(w) ==
    /\ wpc[w] = "complete"
    /\ UpdateStatus(wjob[w], "completed", None, "completed")
    /\ GotoWith(w, "publish", "completed")
    /\ UNCHANGED <<queueVars, outputVars>>

(* completeJob commits the status, the result and the marker in one write. *)
CompleteJob(w) ==
    /\ wpc[w] = "complete"
    /\ UNCHANGED <<queueVars, outputVars>>
    /\ \/ /\ UpdateStatus(wjob[w], "completed", w, "completed")
          /\ GotoWith(w, "publish", "completed")
       \/ /\ UpdateStatusError(wjob[w], "completed", w, "completed")
          /\ Goto(w, "fail")

(* Mutants: the failure is announced although it was not stored; a failure  *)
(* that could not be stored is acked.                                       *)
HandleErrorPublishesAnyway(w) ==
    /\ wpc[w] = "fail"
    /\ \/ UpdateStatus(wjob[w], "failed", None, "failed")
       \/ UpdateStatusError(wjob[w], "failed", None, "failed")
    /\ GotoWith(w, "publish", "failed")
    /\ UNCHANGED <<queueVars, outputVars>>

HandleErrorAcks(w) ==
    /\ wpc[w] = "fail"
    /\ UNCHANGED outputVars
    /\ \/ /\ UpdateStatus(wjob[w], "failed", None, "failed")
          /\ GotoWith(w, "publish", "failed")
          /\ UNCHANGED queueVars
       \/ /\ UpdateStatusError(wjob[w], "failed", None, "failed")
          /\ FinishAck(w)

(* handleErrorWithUpdate commits the failure and its marker in one write;   *)
(* when that fails too the delivery is nacked.                              *)
HandleErrorWithUpdate(w) ==
    /\ wpc[w] = "fail"
    /\ UNCHANGED outputVars
    /\ \/ /\ UpdateStatus(wjob[w], "failed", None, "failed")
          /\ GotoWith(w, "publish", "failed")
          /\ UNCHANGED queueVars
       \/ /\ UpdateStatusError(wjob[w], "failed", None, "failed")
          /\ FinishNack(w)

(* publishJobNotificationPayload, after a commit or for a marker found by   *)
(* the preflight.  An error nacks the delivery and leaves the marker.       *)
Accept(event) == events' = events \cup {event}

(* Mutant: a refused event is only logged and its marker cleared. *)
PublishBestEffort(w) ==
    /\ wpc[w] \in {"publish", "republish"}
    /\ UNCHANGED <<storeVars, stored, queueVars>>
    /\ \/ Accept(<<wjob[w], wevent[w]>>) /\ NoFault
       \/ Fail("stream") /\ UNCHANGED events
    /\ Goto(w, IF wpc[w] = "publish" THEN "clear" ELSE "reclear")

PublishJobNotification(w) ==
    /\ wpc[w] \in {"publish", "republish"}
    /\ UNCHANGED <<storeVars, stored>>
    /\ \/ /\ Accept(<<wjob[w], wevent[w]>>)
          /\ Goto(w, IF wpc[w] = "publish" THEN "clear" ELSE "reclear")
          /\ UNCHANGED <<queueVars, faults>>
       \/ Fail("stream") /\ FinishNack(w) /\ UNCHANGED events
       \/ Fail("ambiguous") /\ FinishNack(w) /\ Accept(<<wjob[w], wevent[w]>>)

(* clearPendingTerminalEvent: an error is only logged. *)
ClearPendingTerminalEvent(w) ==
    /\ wpc[w] \in {"clear", "reclear"}
    /\ ClearTerminalEventMetadata(wjob[w])
    /\ Goto(w, IF wpc[w] = "clear" THEN "return" ELSE "ack")
    /\ UNCHANGED <<queueVars, outputVars>>

(* The handler returns.  A job that failed returns its error, which         *)
(* isNonRetryableHandlerError acks or leaves to be nacked.                  *)
Settle(w) ==
    /\ wpc[w] \in {"ack", "return"}
    /\ \/ FinishAck(w)
       \/ wpc[w] = "return" /\ wevent[w] = "failed" /\ FinishNack(w)
    /\ UNCHANGED <<storeVars, outputVars, faults>>

-----------------------------------------------------------------------------
(* The process dies: RabbitMQ redelivers what it had not acked. *)
WorkerCrash(w) ==
    /\ wpc[w] # "idle"
    /\ Fail("crash")
    /\ Abandon(w)
    /\ UNCHANGED <<storeVars, outputVars>>

(* The channel dies: the message is redelivered, the handler runs on. *)
LoseChannel(w) ==
    /\ wpc[w] # "idle"
    /\ wlive[w]
    /\ Fail("channel")
    /\ wlive' = [wlive EXCEPT ![w] = FALSE]
    /\ Enqueue(wjob[w])
    /\ UNCHANGED <<wpc, wjob, wevent, storeVars, outputVars>>

(* The single-tenant consumer nacks the delivery of a handler that panics,  *)
(* the multi-tenant consumer settles nothing.                               *)
HandlerPanic(w) ==
    /\ wpc[w] # "idle"
    /\ Fail("panic")
    /\ FinishNack(w) \/ Abandon(w)
    /\ UNCHANGED <<storeVars, outputVars>>

(* The multi-tenant consumer's context is cancelled: every later call       *)
(* returns context.Canceled, which isNonRetryableHandlerError acks.         *)
ContextCanceled(w) ==
    /\ wpc[w] # "idle"
    /\ Fail("cancel")
    /\ FinishAck(w)
    /\ UNCHANGED <<storeVars, outputVars>>

WorkerStep(w) ==
    \/ \E j \in Jobs : Deliver(w, j)
    \/ ShouldSkipProcessing(w)
    \/ LoadJob(w)
    \/ ClaimJob(w)
    \/ ExtractInto(w)
    \/ SaveExternalData(w)
    \/ CompleteJob(w)
    \/ HandleErrorWithUpdate(w)
    \/ PublishJobNotification(w)
    \/ ClearPendingTerminalEvent(w)
    \/ Settle(w)

WorkerFault(w) ==
    \/ RejectDelivery(w)
    \/ WorkerCrash(w)
    \/ LoseChannel(w)
    \/ HandlerPanic(w)
    \/ ContextCanceled(w)
=============================================================================
