------------------------------ MODULE JobStore ------------------------------
(***************************************************************************)
(* The job collection in MongoDB (pkg/mongodb/job) with its unique partial  *)
(* index uniq_job_hash_active, as the Manager and the Worker use it.        *)
(*                                                                         *)
(* A job is named by the request that builds it.  Of a document we keep the *)
(* fields the services decide on: the status, the derived dedup_active      *)
(* flag the index filters on, the terminal-event marker in the metadata     *)
(* (the three terminalEvent* keys, always written and removed together) and *)
(* the result reference (result_path and result_hmac, written together;     *)
(* its value names the worker whose bytes the HMAC was computed over).      *)
(*                                                                         *)
(* None of the repository's writes is conditional on the stored status:     *)
(* every filter is the _id alone.                                           *)
(***************************************************************************)
EXTENDS Faults

CONSTANTS
    Jobs,         \* job identifiers, one per client request
    Hashes,       \* request hashes
    RequestHash,  \* the hash of each request
    Workers,      \* concurrent message handlers of all Worker processes
    None          \* no job, no result

ASSUME JobStoreAssumption ==
    /\ RequestHash \in [Jobs -> Hashes]
    /\ None \notin Jobs
    /\ None \notin Workers

VARIABLES
    db,         \* the documents, one record per job
    createdAt,  \* created_at of each job, in order of creation
    clock,      \* the latest created_at handed out
    horizon,    \* jobs created at or before this are outside the dedup window
    committed   \* history: terminal states stored together with their marker

storeVars == <<db, createdAt, clock, horizon, committed>>

ActiveStatuses   == {"pending", "processing"}
TerminalStatuses == {"completed", "failed"}
Statuses         == {"absent"} \cup ActiveStatuses \cup TerminalStatuses
Events           == Jobs \X TerminalStatuses

Document == [status: Statuses, dedupActive: BOOLEAN,
             marker: {"none"} \cup TerminalStatuses,
             result: Workers \cup {None}]

(* Mutant: processing jobs forgotten by the flag. *)
isDedupActivePendingOnly(status) == status = "pending"

isDedupActive(status) == status \in ActiveStatuses

StoreTypeOK ==
    /\ db \in [Jobs -> Document]
    /\ createdAt \in [Jobs -> Nat]
    /\ clock \in Nat
    /\ horizon \in Nat
    /\ committed \subseteq Events

StoreInit ==
    /\ db = [j \in Jobs |-> [status |-> "absent", dedupActive |-> FALSE,
                             marker |-> "none", result |-> None]]
    /\ createdAt = [j \in Jobs |-> 0]
    /\ clock = 0
    /\ horizon = 0
    /\ committed = {}

-----------------------------------------------------------------------------
(* Reads. *)

(* The first of S by created_at, newest first; nothing when S is empty. *)
Newest(S) == {j \in S : \A k \in S : createdAt[k] <= createdAt[j]}

WithinWindow(hash) ==
    {j \in Jobs : /\ db[j].status # "absent"
                  /\ RequestHash[j] = hash
                  /\ createdAt[j] > horizon}

FindByRequestHashWithinWindow(hash) == Newest(WithinWindow(hash))

FindActiveByRequestHash(hash) ==
    Newest({j \in Jobs : db[j].status \in ActiveStatuses /\ RequestHash[j] = hash})

(* Mutant: the listing filters on completed jobs only. *)
PendingCompletedEvents ==
    {<<j, db[j].marker>> : j \in
        {k \in Jobs : db[k].status = "completed" /\ db[k].marker # "none"}}

(* ListPendingTerminalEvents, each job with the event its marker carries. *)
PendingTerminalEvents ==
    {<<j, db[j].marker>> : j \in
        {k \in Jobs : db[k].status \in TerminalStatuses /\ db[k].marker # "none"}}

-----------------------------------------------------------------------------
(* Writes. *)

(* The index rejects a second document with dedup_active and the same hash. *)
DuplicateKey(j, status) ==
    /\ isDedupActive(status)
    /\ \E k \in Jobs \ {j} : db[k].dedupActive /\ RequestHash[k] = RequestHash[j]

InsertOne(j) ==
    /\ db' = [db EXCEPT ![j] =
                [status |-> "pending", dedupActive |-> isDedupActive("pending"),
                 marker |-> "none", result |-> None]]
    /\ UNCHANGED <<createdAt, clock, horizon, committed>>

(* Mutant: a marker that is already set is not replaced. *)
SetStatusKeepsMarker(j, status, result, event) ==
    /\ db' = [db EXCEPT ![j] =
                [status |-> status, dedupActive |-> isDedupActive(status),
                 marker |-> IF event = "none" \/ db[j].marker # "none"
                            THEN db[j].marker ELSE event,
                 result |-> IF result = None THEN db[j].result ELSE result]]
    /\ committed' = IF event = "none" THEN committed
                                      ELSE committed \cup {<<j, event>>}
    /\ UNCHANGED <<createdAt, clock, horizon>>

(* UpdateStatus merges: an empty result or event leaves the stored one. *)
SetStatus(j, status, result, event) ==
    /\ db' = [db EXCEPT ![j] =
                [status |-> status, dedupActive |-> isDedupActive(status),
                 marker |-> IF event = "none" THEN db[j].marker ELSE event,
                 result |-> IF result = None THEN db[j].result ELSE result]]
    /\ committed' = IF event = "none" THEN committed
                                      ELSE committed \cup {<<j, event>>}
    /\ UNCHANGED <<createdAt, clock, horizon>>

UpdateStatus(j, status, result, event) ==
    /\ ~DuplicateKey(j, status)
    /\ SetStatus(j, status, result, event)
    /\ NoFault

UpdateStatusError(j, status, result, event) ==
    \/ DuplicateKey(j, status) /\ UNCHANGED storeVars /\ NoFault
    \/ Fail("write") /\ UNCHANGED storeVars
    \/ /\ Fail("ambiguous")
       /\ ~DuplicateKey(j, status)
       /\ SetStatus(j, status, result, event)

(* Update, called only with a job that SetFailedStatus has marked failed:   *)
(* it overwrites status, metadata and result with the Manager's own copy.   *)
OverwriteFailed(j) ==
    /\ db' = [db EXCEPT ![j] =
                [status |-> "failed", dedupActive |-> isDedupActive("failed"),
                 marker |-> "none", result |-> None]]
    /\ UNCHANGED <<createdAt, clock, horizon, committed>>

(* ClearTerminalEventMetadata, whose error every caller only logs. *)
ClearTerminalEventMetadata(j) ==
    \/ /\ db' = [db EXCEPT ![j] = [db[j] EXCEPT !.marker = "none"]]
       /\ UNCHANGED <<createdAt, clock, horizon, committed>>
       /\ NoFault
    \/ Fail("write") /\ UNCHANGED storeVars

-----------------------------------------------------------------------------
(* Time passes: the oldest job still inside the window leaves it. *)
WindowSlides ==
    /\ horizon < clock
    /\ horizon' = horizon + 1
    /\ UNCHANGED <<db, createdAt, clock, committed>>
=============================================================================
