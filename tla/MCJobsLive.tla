----------------------------- MODULE MCJobsLive -----------------------------
(***************************************************************************)
(* The liveness of one job.  What the services promise depends on what      *)
(* failed before, so the first failure of either kind is remembered: one    *)
(* that may leave the job behind, and one that leaves two copies of its     *)
(* message about.                                                           *)
(***************************************************************************)
EXTENDS MCJobs

VARIABLES
    leftBehind,  \* a failure happened that nobody recovers from
    doubled      \* the message may be handled twice at once

liveVars == <<vars, leftBehind, doubled>>

(* Failures a handler takes note of: a call it sees fail, a channel that    *)
(* dies under it.  The Manager does not recover from a compensation that    *)
(* fails, a handler whose channel is gone from a failure it cannot store,   *)
(* and nobody from a process that dies or a cancelled context.              *)
Recovered ==
    \/ \E r \in Jobs : PublishToQueue(r) \/ CreateJob(r) \/ CheckDuplicateJob(r)
    \/ \E w \in Workers : LoseChannel(w)
    \/ \E w \in Workers : WorkerStep(w) /\ (HandleErrorWithUpdate(w) => wlive[w])
    \/ \E p \in Repairers : RepairerStep(p)

Doubles ==
    \/ \E w \in Workers : LoseChannel(w)
    \/ \E r \in Jobs : PublishToQueue(r) /\ ready' # ready

MCInit == Init /\ leftBehind = FALSE /\ doubled = FALSE

MCNext ==
    /\ Next
    /\ leftBehind' = (leftBehind \/ (faults' # faults /\ ~Recovered))
    /\ doubled' = (doubled \/ (faults' # faults /\ Doubles))

MCSpec == MCInit /\ [][MCNext]_liveVars /\ Fairness

(* A terminal job with a marker has its event accepted in the end, though   *)
(* handlers and repairers crash and lookups, writes and publishes fail      *)
(* without effect, unless its message is about twice: a lost confirm had it *)
(* published again, or a channel died under its handler.                    *)
TerminalEventDelivered ==
    \A j \in Jobs, s \in TerminalStatuses :
        (db[j].status = s /\ db[j].marker = s) ~> (doubled \/ <<j, s>> \in events)

(* Every job ends in a terminal status for good, or its message waits in    *)
(* the dead-letter queue, whatever MongoDB, the broker, the event stream or *)
(* the object store refuse and however often a message is redelivered, with *)
(* four exceptions: a process died; a handler's context was cancelled,      *)
(* whose delivery is acked unfinished; the Manager's compensation could not *)
(* be stored; a handler whose channel had died could not store its failure. *)
JobsTerminate ==
    \A j \in Jobs :
        \/ <>leftBehind
        \/ <>[](j \in dlq \/ db[j].status \in {"absent"} \cup TerminalStatuses)
=============================================================================
