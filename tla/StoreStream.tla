----------------------------- MODULE StoreStream -----------------------------
(***************************************************************************)
(* The Engine's extraction, with one goroutine per plan step.               *)
(*                                                                         *)
(* In store mode (runStoreExtraction, streamPlanToSink) a step streams its  *)
(* rows in batches into a one-place channel of its own; a single writer     *)
(* drains the channels in ordinal order into the result sink; a step starts *)
(* when the step Window places before it is done.  In direct mode, the      *)
(* Worker's (runDirectExtraction, runStepsParallel), a step keeps its rows, *)
(* a semaphore bounds the steps that run, and the rows are put together     *)
(* when all have joined.  Any step, the writer and the host may fail or     *)
(* cancel the run at any time.                                              *)
(*                                                                         *)
(* A batch is <<step, number>>, and its rows and bytes are not modelled:    *)
(* the size limit counts batches.                                           *)
(***************************************************************************)
EXTENDS Naturals, Sequences, FiniteSets, FiniteSetsExt

CONSTANTS
    N,            \* steps of the plan, ordinals 1..N
    Window,       \* effectiveConcurrency
    RowCounts,    \* how many batches a step's query may yield
    MaxBatches,   \* bound on them
    SizeLimit,    \* MaxResultBytes in batches, 0 for none
    Modes,        \* the modes of the instance
    Failures,     \* which calls may fail
    MaxFailures   \* bound: calls that fail

AllFailures == {"sinkOpen", "build", "connect", "connectPanic", "query", "cursor",
                "panic", "marshal", "sinkWrite", "sinkClose", "protection", "status"}

ASSUME StreamAssumption ==
    /\ N \in Nat /\ Window \in Nat \ {0}
    /\ MaxBatches \in Nat /\ RowCounts \subseteq 0..MaxBatches
    /\ SizeLimit \in Nat /\ MaxFailures \in Nat
    /\ Failures \subseteq AllFailures /\ Modes \subseteq {"store", "direct"}

Steps == 1..N

VARIABLES
    mode,      \* resolveExecutionMode: where the result goes
    rows,      \* the batches each step's query would yield
    pc, err,   \* of each step's goroutine: where it is, the error it returns
    produced,  \* batches each step has sent, or read in direct mode
    kept,      \* direct mode: the batches in each step's result
    size,      \* direct mode: runningSize
    chan,      \* the batch in each step's channel, 0 if it is empty
    closed,    \* steps whose channel is closed
    open,      \* steps with an open connector
    leaked,    \* steps whose TestConnection panicked: no Close was deferred
    first,     \* the pool's first error
    ordinal,   \* the step the writer drains
    hand,      \* the batch the writer has received and not yet written
    sink,      \* batches written to the result sink
    outcome,   \* what the writer reported on writerDone
    hostCtx, writeCtx, runCtx,  \* the contexts, each a child of the one before
    main,      \* where the caller is
    result,    \* what the caller returned
    finalized, \* the sink's writer was closed, or the rows are returned
    recorded,  \* the status last stored in the ExecutionStore
    failures

stepVars == <<pc, err, produced, open, leaked, kept, size>>
ctxVars  == <<hostCtx, writeCtx, runCtx>>
mainVars == <<main, result, finalized, recorded>>
vars     == <<mode, rows, stepVars, chan, closed, first, ordinal, hand, sink, outcome,
              ctxVars, mainVars, failures>>

Ends    == {"canceled", "timeout"}
NoBatch == <<0, 0>>

Init ==
    /\ mode \in Modes /\ rows \in [Steps -> RowCounts]
    /\ pc = [s \in Steps |-> "gate"] /\ err = [s \in Steps |-> "none"]
    /\ produced = [s \in Steps |-> 0] /\ chan = [s \in Steps |-> 0]
    /\ kept = [s \in Steps |-> 0] /\ size = 0
    /\ closed = {} /\ open = {} /\ leaked = {} /\ first = "none"
    /\ ordinal = 1 /\ hand = NoBatch /\ sink = <<>> /\ outcome = "pending"
    /\ hostCtx = "live" /\ writeCtx = "live" /\ runCtx = "live"
    /\ main = "start" /\ result = "pending" /\ finalized = FALSE
    /\ recorded = "running" /\ failures = 0

Fails(call) ==
    /\ call \in Failures
    /\ failures < MaxFailures /\ failures' = failures + 1

Works == UNCHANGED failures

(* A cancelled context keeps its first cause. *)
Cancel(ctx, why) == IF ctx = "live" THEN why ELSE ctx

-----------------------------------------------------------------------------
(* The goroutine of a step: streamSteps' gate around streamStep. *)

StepTo(s, next) == pc' = [pc EXCEPT ![s] = next] /\ UNCHANGED err

(* streamStep returns an error: its deferred closes run next. *)
StepFails(s, why) ==
    /\ pc' = [pc EXCEPT ![s] = "teardown"]
    /\ err' = [err EXCEPT ![s] = why]

(* safeConnectorError: a context error takes precedence.  The connector's   *)
(* own is that of the context it was given.                                 *)
ConnectorError == IF runCtx = "live" THEN "unavailable" ELSE runCtx

(* Every step may be cancelled and none of these steps touch the rest. *)
StepFrame == UNCHANGED <<mode, rows, first, ordinal, hand, sink, outcome, ctxVars, mainVars>>

(* Mutation: the steps of store mode take any free place, like Acquire. *)
AnyFreePlace(s) == Cardinality({r \in Steps : pc[r] \notin {"gate", "done"}}) < Window

(* streamSteps: the step Window places before is done. *)
Turn(s) == s > Window => pc[s - Window] = "done"

(* forEachStep: the semaphore.  A step that panics leaves it before its     *)
(* panic is recorded.                                                       *)
Acquire == Cardinality({r \in Steps : /\ pc[r] \notin {"gate", "done"}
                                     /\ ~(pc[r] = "record" /\ err[r] = "internal")}) < Window

(* The gate, then the check of the context of streamStep and executeStep. *)
Gate(s) ==
    /\ main \in {"pool", "writer"} /\ pc[s] = "gate"
    /\ runCtx # "live" \/ (IF mode = "store" THEN Turn(s) ELSE Acquire)
    /\ IF runCtx # "live" THEN StepFails(s, runCtx) ELSE StepTo(s, "build")
    /\ UNCHANGED <<leaked, kept, size, produced, chan, closed, open, failures>> /\ StepFrame

(* openStepConnector: the lookups and Build, then TestConnection.  It       *)
(* closes the connector when TestConnection returns an error; a panic gets  *)
(* past that close, and the caller's is deferred only afterwards.           *)
Build(s) ==
    /\ pc[s] = "build"
    /\ \/ StepTo(s, "connect") /\ open' = open \cup {s} /\ Works
       \/ Fails("build") /\ StepFails(s, "unavailable") /\ UNCHANGED open
    /\ UNCHANGED <<leaked, kept, size, produced, chan, closed>> /\ StepFrame

Connect(s) ==
    /\ pc[s] = "connect"
    /\ \/ StepTo(s, "query") /\ UNCHANGED <<open, leaked>> /\ Works
       \/ /\ Fails("connect") /\ StepFails(s, ConnectorError)
          /\ open' = open \ {s} /\ UNCHANGED leaked
       \/ /\ runCtx # "live" /\ StepFails(s, runCtx) /\ Works
          /\ open' = open \ {s} /\ UNCHANGED leaked
       \/ /\ Fails("connectPanic") /\ StepFails(s, "internal")
          /\ UNCHANGED open /\ leaked' = leaked \cup {s}
    /\ UNCHANGED <<kept, size, produced, chan, closed>> /\ StepFrame

QueryStream(s) ==
    /\ pc[s] = "query"
    /\ \/ StepTo(s, "drive") /\ Works
       \/ Fails("query") /\ StepFails(s, ConnectorError)
       \/ runCtx # "live" /\ StepFails(s, runCtx) /\ Works
       \/ Fails("panic") /\ StepFails(s, "internal")
    /\ UNCHANGED <<leaked, kept, size, produced, chan, closed, open>> /\ StepFrame

(* The cursor loop: the next batch is complete, the cursor fails, or the    *)
(* rows are exhausted.  The context is looked at before the last partial    *)
(* batch is sent, so a step may succeed although it has been cancelled.     *)
Drive(s) ==
    /\ pc[s] = "drive" /\ mode = "store"
    /\ \/ produced[s] < rows[s] /\ StepTo(s, "flush") /\ Works
       \/ /\ produced[s] = rows[s]
          /\ runCtx = "live" \/ rows[s] > 0
          /\ StepTo(s, "teardown") /\ Works
       \/ Fails("cursor") /\ StepFails(s, ConnectorError)
       \/ runCtx # "live" /\ StepFails(s, runCtx) /\ Works
       \/ Fails("panic") /\ StepFails(s, "internal")
    /\ UNCHANGED <<leaked, kept, size, produced, chan, closed, open>> /\ StepFrame

FlushBatch(s) ==
    /\ pc[s] = "flush"
    /\ \/ /\ chan[s] = 0
          /\ produced' = [produced EXCEPT ![s] = produced[s] + 1]
          /\ chan' = [chan EXCEPT ![s] = produced[s] + 1]
          /\ StepTo(s, "drive")
       \/ /\ runCtx # "live"
          /\ StepFails(s, runCtx)
          /\ UNCHANGED <<produced, chan>>
    /\ UNCHANGED <<leaked, kept, size, closed, open, failures>> /\ StepFrame

(* executeStep keeps the rows, and looks at the context after the last one. *)
Collect(s) ==
    /\ pc[s] = "drive" /\ mode = "direct"
    /\ \/ /\ produced[s] < rows[s]
          /\ produced' = [produced EXCEPT ![s] = produced[s] + 1]
          /\ UNCHANGED <<pc, err, failures>>
       \/ /\ produced[s] = rows[s] /\ runCtx = "live"
          /\ StepTo(s, "teardown") /\ Works /\ UNCHANGED produced
       \/ Fails("cursor") /\ StepFails(s, ConnectorError) /\ UNCHANGED produced
       \/ runCtx # "live" /\ StepFails(s, runCtx) /\ Works /\ UNCHANGED produced
       \/ Fails("panic") /\ StepFails(s, "internal") /\ UNCHANGED produced
    /\ UNCHANGED <<leaked, kept, size, chan, closed, open>> /\ StepFrame

(* The deferred calls: cursor.Close, connector.Close, close(out). *)
Teardown(s) ==
    /\ pc[s] = "teardown"
    /\ open' = IF s \in leaked THEN open ELSE open \ {s}
    /\ closed' = IF mode = "store" THEN closed \cup {s} ELSE closed
    /\ StepTo(s, IF mode = "direct" /\ err[s] = "none" THEN "measure" ELSE "record")
    /\ UNCHANGED <<leaked, kept, size, produced, chan, failures>> /\ StepFrame

Exceeded(s) == SizeLimit > 0 /\ size + produced[s] > SizeLimit

(* runStepsParallel: the compact size of a step that succeeded is added to  *)
(* the running one before its result is kept.                               *)
Measure(s) ==
    /\ pc[s] = "measure"
    /\ \/ /\ SizeLimit > 0 /\ Fails("marshal") /\ StepFails(s, "internal")
          /\ UNCHANGED <<kept, size>>
       \/ /\ Works /\ size' = size + produced[s]
          /\ IF Exceeded(s)
             THEN err' = [err EXCEPT ![s] = "limit"] /\ UNCHANGED kept
             ELSE kept' = [kept EXCEPT ![s] = produced[s]] /\ UNCHANGED err
          /\ pc' = [pc EXCEPT ![s] = "record"]
    /\ UNCHANGED <<leaked, produced, chan, closed, open>> /\ StepFrame

(* record, once.Do, then close(done[idx]). *)
Record(s) ==
    /\ pc[s] = "record"
    /\ StepTo(s, "done")
    /\ IF err[s] # "none" /\ first = "none"
       THEN first' = err[s] /\ runCtx' = Cancel(runCtx, "canceled")
       ELSE UNCHANGED <<first, runCtx>>
    /\ UNCHANGED <<mode, rows, produced, kept, size, open, leaked, chan, closed, ordinal, hand, sink, outcome,
                   hostCtx, writeCtx, mainVars, failures>>

StepNext(s) ==
    \/ Gate(s) \/ Build(s) \/ Connect(s) \/ QueryStream(s)
    \/ Drive(s) \/ FlushBatch(s) \/ Collect(s) \/ Teardown(s) \/ Measure(s) \/ Record(s)

-----------------------------------------------------------------------------
(* The writer goroutine. *)
WriterFrame == UNCHANGED <<mode, rows, stepVars, closed, first, hostCtx, mainVars>>

Receive ==
    /\ outcome = "pending" /\ hand = NoBatch
    /\ ordinal <= N /\ chan[ordinal] # 0
    /\ hand' = <<ordinal, chan[ordinal]>>
    /\ chan' = [chan EXCEPT ![ordinal] = 0]
    /\ UNCHANGED <<ordinal, sink, outcome, writeCtx, runCtx, failures>> /\ WriterFrame

NextChannel ==
    /\ outcome = "pending" /\ hand = NoBatch
    /\ ordinal <= N /\ chan[ordinal] = 0 /\ ordinal \in closed
    /\ ordinal' = ordinal + 1
    /\ UNCHANGED <<chan, hand, sink, outcome, writeCtx, runCtx, failures>> /\ WriterFrame

WriterFails(why) ==
    /\ outcome' = why
    /\ hand' = NoBatch
    /\ writeCtx' = Cancel(writeCtx, "canceled")
    /\ runCtx' = Cancel(runCtx, "canceled")
    /\ UNCHANGED sink

TooLarge == SizeLimit > 0 /\ Len(sink) + 1 > SizeLimit

Write ==
    /\ hand # NoBatch
    /\ \/ TooLarge /\ WriterFails("limit") /\ Works
       \/ ~TooLarge /\ Fails("sinkWrite") /\ WriterFails("unavailable")
       \/ /\ ~TooLarge /\ Works
          /\ sink' = Append(sink, hand)
          /\ hand' = NoBatch
          /\ UNCHANGED <<outcome, writeCtx, runCtx>>
    /\ UNCHANGED <<chan, ordinal>> /\ WriterFrame

WriterDone ==
    /\ mode = "store" /\ main \in {"pool", "writer"}
    /\ outcome = "pending" /\ hand = NoBatch /\ ordinal = N + 1
    /\ outcome' = "none"
    /\ UNCHANGED <<chan, ordinal, hand, sink, writeCtx, runCtx, failures>> /\ WriterFrame

WriterNext == Receive \/ NextChannel \/ Write \/ WriterDone

-----------------------------------------------------------------------------
(* The caller. *)
MainFrame == UNCHANGED <<mode, rows, stepVars, chan, closed, first, ordinal, hand, sink,
                         outcome, ctxVars>>

(* recordExecutionStatus is best effort. *)
RecordStatus(status) ==
    \/ recorded' = status /\ Works
    \/ Fails("status") /\ UNCHANGED recorded

(* recordTerminalFailure. *)
Returns(why) ==
    /\ main' = "returned" /\ result' = why
    /\ RecordStatus(IF why = "none" THEN "completed"
                    ELSE IF why = "canceled" THEN "canceled" ELSE "failed")

OpenResultStream ==
    /\ main = "start" /\ mode = "store"
    /\ IF hostCtx # "live" THEN Returns(hostCtx)
       ELSE \/ main' = "pool" /\ UNCHANGED <<result, recorded, failures>>
            \/ /\ Fails("sinkOpen")
               /\ main' = "returned" /\ result' = "unavailable" /\ recorded' = "failed"
    /\ UNCHANGED finalized /\ MainFrame

(* runDirectExtraction: nothing is opened. *)
RunDirectExtraction ==
    /\ main = "start" /\ mode = "direct"
    /\ IF hostCtx # "live" THEN Returns(hostCtx)
       ELSE main' = "pool" /\ UNCHANGED <<result, recorded, failures>>
    /\ UNCHANGED finalized /\ MainFrame

(* Mutant: the first error is returned without waiting for the others. *)
PoolNotJoined ==
    /\ main = "pool"
    /\ first # "none" \/ \A s \in Steps : pc[s] = "done"
    /\ main' = "writer"
    /\ UNCHANGED <<result, finalized, recorded, failures>> /\ MainFrame

(* wg.Wait: every goroutine has joined. *)
PoolJoined ==
    /\ main = "pool" /\ \A s \in Steps : pc[s] = "done"
    /\ main' = "writer"
    /\ UNCHANGED <<result, finalized, recorded, failures>> /\ MainFrame

RunErr == IF first # "none" THEN first
          ELSE IF writeCtx # "live" THEN writeCtx ELSE "none"

(* Mutants: the pool's error is dropped; the pool's error takes      *)
(* precedence over the writer's.                                            *)
DecideWriterOnly ==
    /\ main = "writer" /\ mode = "store" /\ outcome # "pending"
    /\ IF outcome # "none" THEN Returns(outcome)
       ELSE main' = "close" /\ UNCHANGED <<result, recorded, failures>>
    /\ UNCHANGED finalized /\ MainFrame

DecidePoolFirst ==
    /\ main = "writer" /\ mode = "store" /\ outcome # "pending"
    /\ LET why == IF RunErr # "none" THEN RunErr
                  ELSE IF outcome # "none" THEN outcome
                  ELSE IF hostCtx # "live" THEN hostCtx ELSE "none"
       IN  IF why # "none" THEN Returns(why)
           ELSE main' = "close" /\ UNCHANGED <<result, recorded, failures>>
    /\ UNCHANGED finalized /\ MainFrame

(* The writer's error comes first, then the pool's, then the host's. *)
Decide ==
    /\ main = "writer" /\ mode = "store" /\ outcome # "pending"
    /\ LET why == IF outcome # "none" THEN outcome
                  ELSE IF RunErr # "none" THEN RunErr
                  ELSE IF hostCtx # "live" THEN hostCtx ELSE "none"
       IN  IF why # "none" THEN Returns(why)
           ELSE main' = "close" /\ UNCHANGED <<result, recorded, failures>>
    /\ UNCHANGED finalized /\ MainFrame

(* buildStoreReference: the sink's writer is closed; the reference it       *)
(* returns may name an AppliedBy the Engine refuses.                        *)
BuildStoreReference ==
    /\ main = "close"
    /\ \/ Returns("none") /\ finalized' = TRUE
       \/ /\ Fails("sinkClose") /\ UNCHANGED finalized
          /\ main' = "returned" /\ result' = "unavailable" /\ recorded' = "failed"
       \/ /\ Fails("protection") /\ finalized' = TRUE
          /\ main' = "returned" /\ result' = "validation" /\ recorded' = "failed"
    /\ MainFrame

Total == MapThenSumSet(LAMBDA s : kept[s], Steps)

(* The rest of runDirectExtraction, and completeDirectMode.  The payload is  *)
(* indented: it may pass the limit although the compact sizes did not.       *)
CompleteDirectMode ==
    /\ main = "writer" /\ mode = "direct"
    /\ LET why == IF first # "none" THEN first
                  ELSE IF hostCtx # "live" THEN hostCtx ELSE "none"
       IN \/ why # "none" /\ Returns(why) /\ UNCHANGED finalized
          \/ why = "none" /\ SizeLimit > 0 /\ Returns("limit") /\ UNCHANGED finalized
          \/ /\ why = "none" /\ Fails("marshal") /\ UNCHANGED finalized
             /\ main' = "returned" /\ result' = "internal" /\ recorded' = "failed"
          \/ /\ why = "none" /\ (SizeLimit > 0 => Total <= SizeLimit)
             /\ Returns("none") /\ finalized' = TRUE
    /\ MainFrame

MainNext ==
    \/ OpenResultStream \/ RunDirectExtraction \/ PoolJoined
    \/ Decide \/ BuildStoreReference \/ CompleteDirectMode

(* The host cancels, or the deadline passes. *)
HostCancels(why) ==
    /\ hostCtx = "live" /\ main # "returned"
    /\ hostCtx' = why
    /\ writeCtx' = Cancel(writeCtx, why)
    /\ runCtx' = Cancel(runCtx, why)
    /\ UNCHANGED <<mode, rows, stepVars, chan, closed, first, ordinal, hand, sink, outcome,
                   mainVars, failures>>

Returned == main = "returned" /\ UNCHANGED vars

Progress == (\E s \in Steps : StepNext(s)) \/ WriterNext \/ MainNext

Next == Progress \/ (\E why \in Ends : HostCancels(why)) \/ Returned

Spec == Init /\ [][Next]_vars

(* Drivers and the sink answer in the end, and as long as some goroutine    *)
(* can go on, one does.  The host need never cancel.                        *)
FairSpec == Spec /\ WF_vars(Progress)

-----------------------------------------------------------------------------
Before(a, b) == a[1] < b[1] \/ (a[1] = b[1] /\ a[2] < b[2])

(* A result is only ever the whole one: every batch of every step, in store *)
(* mode once and in ordinal order, within the limit, however the goroutines *)
(* were scheduled and whatever failed or was cancelled on the way.          *)
FinalizedIsComplete ==
    /\ finalized /\ mode = "direct" =>
        kept = rows /\ (SizeLimit > 0 => Total <= SizeLimit)
    /\ finalized /\ mode = "store" =>
        /\ \A s \in Steps : \A k \in 1..rows[s] : \E i \in DOMAIN sink : sink[i] = <<s, k>>
        /\ \A i, j \in DOMAIN sink : i < j => Before(sink[i], sink[j])

(* The result and the recorded status are "canceled" only if the host       *)
(* cancelled, and "timeout" only if its deadline passed: the cancellations  *)
(* with which the writer and the pool stop each other never surface.        *)
CanceledOnlyByHost ==
    /\ result \in Ends => hostCtx = result
    /\ recorded = "canceled" => hostCtx = "canceled"

(* When the caller returns no goroutine is left behind, and the connector   *)
(* of every step was closed, whichever way the step ended, with one         *)
(* exception: a connector whose TestConnection panics is never closed,      *)
(* though runner_parallel.go:27-29 has it closed "on every path - success,  *)
(* fail-fast, panic, ctx-cancel" and runner.go:467-470 says the same.       *)
NothingLeftBehind ==
    main = "returned" /\ (\E s \in Steps : pc[s] # "gate")
        => /\ open \subseteq leaked
           /\ \A s \in Steps : pc[s] = "done"
           /\ mode = "direct" \/ outcome # "pending"

(* The one-place channels, the ordered writer and the window never block    *)
(* each other for good: the extraction returns.                             *)
Terminates == <>(main = "returned")
=============================================================================
