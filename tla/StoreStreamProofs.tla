-------------------------- MODULE StoreStreamProofs --------------------------
(***************************************************************************)
(* Proofs about StoreStream for every number of steps, window, size limit   *)
(* and size of the steps' results, and any number of failures.              *)
(***************************************************************************)
EXTENDS StoreStream, TLAPS

Places  == {"gate", "build", "connect", "query", "drive", "flush", "teardown",
            "measure", "record", "done"}
Reasons == Ends \cup {"unavailable", "internal", "limit", "validation"}
Contexts == Ends \cup {"live"}

StepsOK ==
    /\ mode \in {"store", "direct"} /\ rows \in [Steps -> Nat]
    /\ pc \in [Steps -> Places] /\ err \in [Steps -> Reasons \cup {"none"}]
    /\ produced \in [Steps -> Nat] /\ kept \in [Steps -> Nat] /\ chan \in [Steps -> Nat]
    /\ closed \subseteq Steps /\ open \subseteq Steps
    /\ first \in Reasons \cup {"none"}

WriterOK ==
    /\ ordinal \in Nat \ {0} /\ hand \in Nat \X Nat /\ sink \in Seq(Nat \X Nat)
    /\ outcome \in {"pending", "none", "limit", "unavailable"}

CallerOK ==
    /\ hostCtx \in Contexts /\ writeCtx \in Contexts /\ runCtx \in Contexts
    /\ main \in {"start", "pool", "writer", "close", "returned"}
    /\ result \in Reasons \cup {"pending", "none"}
    /\ finalized \in BOOLEAN

TypeOK == StepsOK /\ WriterOK /\ CallerOK

-----------------------------------------------------------------------------
(* Who cancelled. *)

WriterFailed == outcome \in {"limit", "unavailable"}

(* A context ends with the host's, or for a failure that is reported in     *)
(* place of the cancellation.                                               *)
CauseInv ==
    /\ writeCtx # "live" => writeCtx = hostCtx \/ WriterFailed
    /\ runCtx # "live" => runCtx = hostCtx \/ first # "none" \/ WriterFailed
    /\ \A s \in Steps : err[s] \in Ends => err[s] = hostCtx \/ first # "none" \/ WriterFailed
    /\ first \in Ends => first = hostCtx \/ WriterFailed

-----------------------------------------------------------------------------
(* Who is still there. *)

AllDone == \A s \in Steps : pc[s] = "done"

WithConnector == {"connect", "query", "drive", "flush", "teardown"}

PhaseInv ==
    /\ \A s \in open : s \in leaked \/ pc[s] \in WithConnector
    /\ main = "start" => \A s \in Steps : pc[s] = "gate"
    /\ main \in {"writer", "close"} => AllDone
    /\ main = "close" => mode = "store" /\ outcome = "none" /\ first = "none"
    /\ main = "returned" =>
          \/ \A s \in Steps : pc[s] = "gate"
          \/ AllDone /\ (mode = "direct" \/ outcome # "pending")
    /\ main # "returned" => ~finalized
    /\ finalized => mode = "direct" \/ outcome = "none"
    /\ finalized => AllDone

-----------------------------------------------------------------------------
(* What has been read. *)

(* Direct mode has no channels and no writer. *)
NoWriterInDirect ==
    mode = "direct" => /\ \A s \in Steps : pc[s] # "flush" /\ chan[s] = 0
                       /\ hand = NoBatch /\ outcome = "pending"

(* A step that ends without an error has all its rows, and an error of a    *)
(* step that is done has been recorded.                                     *)
RowsInv ==
    /\ \A s \in Steps :
          /\ produced[s] <= rows[s]
          /\ pc[s] \in {"teardown", "measure", "record", "done"} /\ err[s] = "none"
                => produced[s] = rows[s]
          /\ pc[s] = "flush" => produced[s] < rows[s]
          /\ pc[s] = "measure" => mode = "direct" /\ err[s] = "none"
          /\ mode = "direct" /\ pc[s] \in {"record", "done"} /\ err[s] = "none"
                => kept[s] = rows[s]
          /\ pc[s] = "done" /\ err[s] # "none" => first # "none"
          /\ pc[s] \in {"gate", "build", "connect", "query", "drive", "flush"} => err[s] = "none"

-----------------------------------------------------------------------------
(* What has been written. *)

ChannelsInv ==
    /\ \A s \in Steps :
          /\ chan[s] # 0 => chan[s] = produced[s]
          /\ s > ordinal => produced[s] = chan[s] /\ chan[s] <= 1
          /\ s < ordinal => s \in closed /\ chan[s] = 0
          /\ s \in closed => pc[s] \in {"record", "done"}
    /\ ordinal <= N + 1

HandInv ==
    /\ hand # NoBatch =>
          /\ outcome = "pending" /\ ordinal \in Steps
          /\ hand[1] = ordinal /\ hand[2] > 0
          /\ IF chan[ordinal] = 0 THEN hand[2] = produced[ordinal]
             ELSE hand[2] + 1 = chan[ordinal]
    /\ outcome = "none" => ordinal = N + 1

(* Every batch of the steps so far is in the sink, but for the one in the   *)
(* writer's hand and the one in the channel.                                *)
NothingMissing ==
    ~WriterFailed =>
        \A s \in Steps : \A k \in 1..produced[s] :
            s <= ordinal /\ k # chan[s] /\ hand # <<s, k>>
                => \E i \in DOMAIN sink : sink[i] = <<s, k>>

(* The sink is in order, and what comes next comes after it. *)
InOrder ==
    /\ \A i, j \in DOMAIN sink : i < j => Before(sink[i], sink[j])
    /\ \A i \in DOMAIN sink :
          /\ sink[i][1] \in Steps /\ sink[i][1] <= ordinal
          /\ sink[i][2] <= produced[sink[i][1]]
          /\ sink[i][1] = ordinal /\ chan[ordinal] # 0 => sink[i][2] < chan[ordinal]
          /\ hand # NoBatch => Before(sink[i], hand)

Streaming == ChannelsInv /\ HandInv /\ NothingMissing /\ InOrder

StreamInv == mode = "store" => Streaming

IInv ==
    /\ TypeOK /\ CauseInv /\ PhaseInv /\ NoWriterInDirect /\ RowsInv /\ StreamInv
    /\ FinalizedIsComplete /\ CanceledOnlyByHost
-----------------------------------------------------------------------------
(* What a step of s leaves alone. *)
LEMMA StepFrames ==
    ASSUME NEW s \in Steps, StepNext(s)
    PROVE  /\ UNCHANGED <<mode, rows, ordinal, hand, sink, outcome, hostCtx, writeCtx>>
           /\ UNCHANGED <<main, result, finalized, recorded>>
           /\ ~Record(s) => UNCHANGED <<first, runCtx>>
<1> USE DEF StepFrame, ctxVars, mainVars
<1>1. CASE Gate(s) \/ Build(s) \/ Connect(s) \/ QueryStream(s)
  BY <1>1 DEF Gate, Build, Connect, QueryStream
<1>2. CASE Drive(s) \/ FlushBatch(s) \/ Collect(s)
  BY <1>2 DEF Drive, FlushBatch, Collect
<1>3. CASE Teardown(s) \/ Measure(s) \/ Record(s)
  BY <1>3 DEF Teardown, Measure, Record
<1> QED BY <1>1, <1>2, <1>3 DEF StepNext

(* The reasons a step may give. *)
LEMMA ReasonsType ==
    ASSUME TypeOK
    PROVE  /\ ConnectorError \in Reasons
           /\ runCtx # "live" => runCtx \in Reasons
           /\ ConnectorError \in Ends => ConnectorError = runCtx
BY DEF TypeOK, CallerOK, Contexts, ConnectorError, Reasons, Ends

(* What a step of s does to s itself: where it goes, and with which error. *)
LEMMA StepMoves ==
    ASSUME TypeOK, NEW s \in Steps, StepNext(s)
    PROVE  /\ pc[s] # "done"
           /\ \E n \in Places : pc' = [pc EXCEPT ![s] = n]
           /\ \/ err' = err
              \/ \E w \in Reasons : err' = [err EXCEPT ![s] = w] /\ (w \in Ends => w = runCtx)
<1> USE ReasonsType DEF StepTo, StepFails, Places
<1>0. pc = [pc EXCEPT ![s] = pc[s]] /\ pc[s] \in Places
  BY DEF TypeOK, StepsOK
<1>1. CASE Gate(s)
  BY <1>1 DEF Gate
<1>2. CASE Build(s)
  BY <1>2 DEF Build, Reasons, Ends
<1>3. CASE Connect(s)
  BY <1>3 DEF Connect, Reasons, Ends
<1>4. CASE QueryStream(s)
  BY <1>4 DEF QueryStream, Reasons, Ends
<1>5. CASE Drive(s)
  BY <1>5 DEF Drive, Reasons, Ends
<1>6. CASE FlushBatch(s)
  BY <1>6 DEF FlushBatch
<1>7. CASE Collect(s)
  BY <1>0, <1>7 DEF Collect, Reasons, Ends
<1>8. CASE Teardown(s) \/ Record(s)
  BY <1>8 DEF Teardown, Record
<1>9. CASE Measure(s)
  BY <1>9 DEF Measure, Reasons, Ends
<1> QED BY <1>1, <1>2, <1>3, <1>4, <1>5, <1>6, <1>7, <1>8, <1>9 DEF StepNext

(* What a step of s does to what it has read. *)
LEMMA StepReads ==
    ASSUME TypeOK, NEW s \in Steps, StepNext(s)
    PROVE  /\ UNCHANGED kept \/ (Measure(s) /\ kept' = [kept EXCEPT ![s] = produced[s]])
           /\ \/ UNCHANGED <<produced, chan>>
              \/ /\ FlushBatch(s) /\ produced' = [produced EXCEPT ![s] = produced[s] + 1]
                 /\ chan' = [chan EXCEPT ![s] = produced[s] + 1]
              \/ /\ Collect(s) /\ produced' = [produced EXCEPT ![s] = produced[s] + 1]
                 /\ chan' = chan
           /\ closed' = closed \/ (Teardown(s) /\ closed' = closed \cup {s})
           /\ open' \in {open, open \cup {s}, open \ {s}}
           /\ leaked \subseteq leaked'
<1>1. CASE Gate(s) \/ Build(s) \/ Connect(s) \/ QueryStream(s)
  BY <1>1 DEF Gate, Build, Connect, QueryStream
<1>2. CASE Drive(s) \/ FlushBatch(s) \/ Collect(s)
  BY <1>2 DEF Drive, FlushBatch, Collect
<1>3. CASE Teardown(s) \/ Measure(s) \/ Record(s)
  BY <1>3 DEF Teardown, Measure, Record
<1> QED BY <1>1, <1>2, <1>3 DEF StepNext

-----------------------------------------------------------------------------
(* The caller and the host leave the steps and the writer alone. *)
LEMMA MainFrames ==
    ASSUME MainNext \/ Returned
    PROVE  /\ UNCHANGED <<mode, rows, pc, err, produced, kept, open, leaked, chan, closed, first>>
           /\ UNCHANGED <<ordinal, hand, sink, outcome, hostCtx, writeCtx, runCtx>>
BY DEF MainNext, Returned, OpenResultStream, RunDirectExtraction, PoolJoined, Decide,
   BuildStoreReference, CompleteDirectMode, MainFrame, vars, stepVars, ctxVars

LEMMA HostFrames ==
    ASSUME NEW why \in Ends, HostCancels(why)
    PROVE  /\ UNCHANGED <<mode, rows, pc, err, produced, kept, open, leaked, chan, closed, first>>
           /\ UNCHANGED <<ordinal, hand, sink, outcome, main, result, finalized, recorded>>
           /\ hostCtx = "live" /\ hostCtx' = why
BY DEF HostCancels, stepVars, mainVars

LEMMA WriterFrames ==
    ASSUME WriterNext
    PROVE  /\ UNCHANGED <<mode, rows, pc, err, produced, kept, open, leaked, closed, first>>
           /\ UNCHANGED <<hostCtx, main, result, finalized, recorded>>
           /\ outcome = "pending" \/ hand # NoBatch
BY DEF WriterNext, Receive, NextChannel, Write, WriterDone, WriterFrame, stepVars, mainVars

LEMMA AppendType ==
    ASSUME NEW S, NEW q \in Seq(S), NEW e \in S
    PROVE  Append(q, e) \in Seq(S)
OBVIOUS

LEMMA TypeStep ==
    ASSUME TypeOK, [Next]_vars
    PROVE  TypeOK'
<1>1. ASSUME NEW s \in Steps, StepNext(s)
      PROVE  TypeOK'
  <2>1. pc' \in [Steps -> Places] /\ err' \in [Steps -> Reasons \cup {"none"}]
    BY <1>1, StepMoves DEF TypeOK, StepsOK
  <2>2. /\ produced' \in [Steps -> Nat] /\ kept' \in [Steps -> Nat] /\ chan' \in [Steps -> Nat]
        /\ closed' \subseteq Steps /\ open' \subseteq Steps
    BY <1>1, StepReads DEF TypeOK, StepsOK
  <2>3. first' \in Reasons \cup {"none"} /\ runCtx' \in Contexts
    BY <1>1, StepFrames DEF Record, Cancel, TypeOK, StepsOK, CallerOK, Contexts, Ends
  <2> QED BY <1>1, <2>1, <2>2, <2>3, StepFrames DEF TypeOK, StepsOK, WriterOK, CallerOK
<1>2. CASE WriterNext
  <2>0. NoBatch \in Nat \X Nat /\ N \in Nat
    BY StreamAssumption DEF NoBatch
  <2> USE <1>2, WriterFrames DEF TypeOK, StepsOK, WriterOK
  <2>1. CASE Receive
    <3>1. ordinal \in Steps /\ chan[ordinal] \in Nat
      BY <2>0, <2>1 DEF Receive, Steps
    <3>2. hand' \in Nat \X Nat /\ chan' \in [Steps -> Nat]
      BY <2>1, <3>1 DEF Receive
    <3> QED BY <2>1, <3>2 DEF Receive, CallerOK
  <2>2. CASE NextChannel
    <3>1. ordinal' \in Nat \ {0} /\ UNCHANGED <<chan, hand, sink, outcome, writeCtx, runCtx>>
      BY <2>2 DEF NextChannel
    <3> QED BY <3>1 DEF CallerOK
  <2>3. CASE Write
    <3>1. sink' \in {sink, Append(sink, hand)} /\ hand' = NoBatch /\ UNCHANGED <<chan, ordinal>>
      BY <2>3 DEF Write, WriterFails
    <3>2. outcome' \in {outcome, "limit", "unavailable"}
      BY <2>3 DEF Write, WriterFails
    <3>3. writeCtx' \in Contexts /\ runCtx' \in Contexts
      BY <2>3 DEF Write, WriterFails, Cancel, CallerOK, Contexts, Ends
    <3>4. sink' \in Seq(Nat \X Nat)
      <4>1. sink \in Seq(Nat \X Nat) /\ hand \in Nat \X Nat
        OBVIOUS
      <4> HIDE <1>2, WriterFrames DEF TypeOK, StepsOK, WriterOK
      <4>2. Append(sink, hand) \in Seq(Nat \X Nat)
        BY <4>1, AppendType
      <4> QED BY <3>1, <4>1, <4>2
    <3> QED BY <2>0, <3>1, <3>2, <3>3, <3>4 DEF CallerOK
  <2>4. CASE WriterDone
    BY <2>4 DEF WriterDone, CallerOK
  <2> QED BY <2>1, <2>2, <2>3, <2>4 DEF WriterNext
<1>3. CASE MainNext \/ Returned
  <2>1. main' \in {"start", "pool", "writer", "close", "returned"} /\ finalized' \in BOOLEAN
    BY <1>3 DEF MainNext, Returned, OpenResultStream, RunDirectExtraction, PoolJoined, Decide,
       BuildStoreReference, CompleteDirectMode, Returns, vars, mainVars, TypeOK, CallerOK
  <2>2. result' \in Reasons \cup {"pending", "none"}
    BY <1>3 DEF MainNext, Returned, OpenResultStream, RunDirectExtraction, PoolJoined, Decide,
       BuildStoreReference, CompleteDirectMode, Returns, RunErr, vars, mainVars, TypeOK,
       CallerOK, WriterOK, StepsOK, Contexts, Reasons, Ends
  <2> QED BY <1>3, <2>1, <2>2, MainFrames DEF TypeOK, StepsOK, WriterOK, CallerOK
<1>4. ASSUME NEW why \in Ends, HostCancels(why)
      PROVE  TypeOK'
  <2>1. CallerOK'
    BY <1>4, HostFrames DEF HostCancels, Cancel, TypeOK, CallerOK, Contexts, Ends
  <2> QED BY <1>4, <2>1, HostFrames DEF TypeOK, StepsOK, WriterOK
<1>5. CASE UNCHANGED vars
  BY <1>5 DEF vars, stepVars, ctxVars, mainVars, TypeOK, StepsOK, WriterOK, CallerOK
<1> QED BY <1>1, <1>2, <1>3, <1>4, <1>5 DEF Next, Progress

-----------------------------------------------------------------------------
(* A writer that fails says so before anyone sees its cancellation, and so  *)
(* does the pool; the host's own cancellation reaches everyone at once.     *)
LEMMA CauseStep ==
    ASSUME TypeOK, CauseInv, HandInv \/ mode = "direct", NoWriterInDirect, [Next]_vars
    PROVE  CauseInv'
<1> USE DEF CauseInv, WriterFailed
<1>1. ASSUME NEW s \in Steps, StepNext(s)
      PROVE  CauseInv'
  <2>0. UNCHANGED <<outcome, hostCtx, writeCtx>>
    BY <1>1, StepFrames
  <2>1. \A r \in Steps : err'[r] = err[r] \/ (err'[r] \in Ends => err'[r] = runCtx)
    BY <1>1, StepMoves DEF TypeOK, StepsOK
  <2>2. \A r \in Steps : err'[r] \in Ends => err'[r] = hostCtx \/ first # "none" \/ WriterFailed
    BY <2>1 DEF Ends
  <2>3. CASE Record(s)
    <3>1. first # "none" => first' = first
      BY <2>3 DEF Record
    <3>2. CASE err[s] # "none" /\ first = "none"
      <4>1. first' = err[s] /\ first' # "none"
        BY <2>3, <3>2 DEF Record
      <4> QED BY <2>0, <2>2, <3>2, <4>1
    <3>3. CASE ~(err[s] # "none" /\ first = "none")
      <4>1. UNCHANGED <<first, runCtx>>
        BY <2>3, <3>3 DEF Record
      <4> QED BY <2>0, <2>2, <4>1
    <3> QED BY <3>2, <3>3
  <2>4. CASE ~Record(s)
    <3>1. UNCHANGED <<first, runCtx>>
      BY <1>1, <2>4, StepFrames
    <3> QED BY <2>0, <2>2, <3>1
  <2> QED BY <2>3, <2>4
<1>2. CASE WriterNext
  <2>1. UNCHANGED <<err, first, hostCtx>> /\ (outcome = "pending" \/ hand # NoBatch)
    BY <1>2, WriterFrames
  <2>2. outcome = "pending"
    BY <2>1 DEF HandInv, NoWriterInDirect
  <2>3. \/ UNCHANGED <<writeCtx, runCtx>>
        \/ outcome' \in {"limit", "unavailable"}
    BY <1>2 DEF WriterNext, Receive, NextChannel, Write, WriterFails, WriterDone
  <2> QED BY <2>1, <2>2, <2>3
<1>3. CASE MainNext \/ Returned
  BY <1>3, MainFrames
<1>4. ASSUME NEW why \in Ends, HostCancels(why)
      PROVE  CauseInv'
  <2>1. /\ UNCHANGED <<err, first, outcome>> /\ hostCtx = "live" /\ hostCtx' = why
        /\ writeCtx' \in {writeCtx, why} /\ runCtx' \in {runCtx, why}
    BY <1>4, HostFrames DEF HostCancels, Cancel
  <2>2. "live" \notin Ends
    BY DEF Ends
  <2> QED BY <2>1, <2>2
<1>5. CASE UNCHANGED vars
  BY <1>5 DEF vars, stepVars, ctxVars
<1> QED BY <1>1, <1>2, <1>3, <1>4, <1>5 DEF Next, Progress

LEMMA CanceledStep ==
    ASSUME TypeOK, CauseInv, PhaseInv, NoWriterInDirect, CanceledOnlyByHost, [Next]_vars
    PROVE  CanceledOnlyByHost'
<1> USE DEF CanceledOnlyByHost
<1>0. "live" \notin Ends /\ "canceled" \in Ends
  BY DEF Ends
<1>1. CASE UNCHANGED <<result, recorded, hostCtx>>
  BY <1>1
<1>2. ASSUME NEW why, Returns(why), why \in Ends => why = hostCtx, UNCHANGED hostCtx
      PROVE  CanceledOnlyByHost'
  <2>1. result' = why
    BY <1>2 DEF Returns
  <2>2. recorded' = recorded \/ (recorded' = "canceled" => why = "canceled")
    BY <1>2 DEF Returns, RecordStatus
  <2> QED BY <1>0, <1>2, <2>1, <2>2
<1>3. CASE MainNext
  <2>0. UNCHANGED hostCtx
    BY <1>3, MainFrames
  <2>1. CASE OpenResultStream
    <3>1. \/ Returns(hostCtx) \/ UNCHANGED <<result, recorded>>
          \/ result' = "unavailable" /\ recorded' = "failed"
      BY <2>1 DEF OpenResultStream
    <3> QED BY <1>1, <1>2, <2>0, <3>1 DEF Ends
  <2>2. CASE RunDirectExtraction
    <3>1. \/ Returns(hostCtx) \/ UNCHANGED <<result, recorded>>
      BY <2>2 DEF RunDirectExtraction
    <3> QED BY <1>1, <1>2, <2>0, <3>1
  <2>3. CASE PoolJoined
    BY <1>1, <2>0, <2>3 DEF PoolJoined
  <2>4. CASE Decide
    <3> DEFINE why == IF outcome # "none" THEN outcome
                      ELSE IF RunErr # "none" THEN RunErr
                      ELSE IF hostCtx # "live" THEN hostCtx ELSE "none"
    <3>1. Returns(why) \/ UNCHANGED <<result, recorded>>
      BY <2>4 DEF Decide
    <3>2. outcome \notin Ends /\ "none" \notin Ends
      BY DEF TypeOK, WriterOK, Ends
    <3>3. why \in Ends => why = hostCtx
      BY <3>2, <2>4 DEF Decide, RunErr, CauseInv, WriterFailed
    <3> HIDE DEF why
    <3> QED BY <1>1, <1>2, <2>0, <3>1, <3>3
  <2>5. CASE BuildStoreReference
    <3>1. \/ Returns("none")
          \/ result' \in {"unavailable", "validation"} /\ recorded' = "failed"
      BY <2>5 DEF BuildStoreReference
    <3> QED BY <1>2, <2>0, <3>1 DEF Ends
  <2>6. CASE CompleteDirectMode
    <3> DEFINE why == IF first # "none" THEN first
                      ELSE IF hostCtx # "live" THEN hostCtx ELSE "none"
    <3>1. \/ Returns(why) \/ Returns("limit") \/ Returns("none")
          \/ result' = "internal" /\ recorded' = "failed"
      BY <2>6 DEF CompleteDirectMode
    <3>2. why \in Ends => why = hostCtx
      BY <2>6 DEF CompleteDirectMode, CauseInv, WriterFailed, NoWriterInDirect, Ends
    <3> HIDE DEF why
    <3>3. {"limit", "none", "internal"} \cap Ends = {}
      BY DEF Ends
    <3> QED BY <1>2, <2>0, <3>1, <3>2, <3>3
  <2> QED BY <1>3, <2>1, <2>2, <2>3, <2>4, <2>5, <2>6 DEF MainNext
<1>4. ASSUME NEW why \in Ends, HostCancels(why)
      PROVE  CanceledOnlyByHost'
  BY <1>0, <1>4, HostFrames
<1>5. ASSUME NEW s \in Steps, StepNext(s)
      PROVE  CanceledOnlyByHost'
  BY <1>1, <1>5, StepFrames
<1>6. CASE WriterNext
  BY <1>1, <1>6, WriterFrames
<1>7. CASE Returned \/ UNCHANGED vars
  BY <1>1, <1>7 DEF Returned, vars, ctxVars, mainVars
<1> QED BY <1>3, <1>4, <1>5, <1>6, <1>7 DEF Next, Progress

-----------------------------------------------------------------------------
(* While the pool runs a goroutine is past its gate or not; afterwards all   *)
(* are done, or none was let in.                                             *)
LEMMA PhaseStep ==
    ASSUME TypeOK, PhaseInv, HandInv \/ mode = "direct", NoWriterInDirect, [Next]_vars
    PROVE  PhaseInv'
<1> USE DEF PhaseInv, AllDone
<1>1. ASSUME NEW s \in Steps, StepNext(s)
      PROVE  PhaseInv'
  <2>1. /\ UNCHANGED <<mode, outcome, main, finalized>>
        /\ pc[s] # "done" /\ \A r \in Steps : r # s => pc'[r] = pc[r]
    BY <1>1, StepFrames, StepMoves DEF TypeOK, StepsOK
  <2>2. main = "pool"
    <3>1. pc[s] = "gate" => Gate(s)
      BY <1>1 DEF StepNext, Build, Connect, QueryStream, Drive, FlushBatch, Collect, Teardown,
         Measure, Record
    <3> QED BY <2>1, <3>1 DEF Gate, TypeOK, CallerOK
  <2>3. \A r \in open' : r \in leaked' \/ pc'[r] \in WithConnector
    <3>1. \A r \in open : r \in Steps
      BY DEF TypeOK, StepsOK
    <3>2. \A r \in open' : r # s => r \in open
      BY <1>1, StepReads
    <3>4. leaked \subseteq leaked'
      BY <1>1, StepReads
    <3>3. s \in open' => s \in leaked' \/ pc'[s] \in WithConnector
      <4>0. \A n : pc' = [pc EXCEPT ![s] = n] => pc'[s] = n
        BY DEF TypeOK, StepsOK
      <4>1. CASE Gate(s) \/ Build(s) \/ Connect(s)
        BY <4>0, <4>1 DEF Gate, Build, Connect, StepTo, StepFails, WithConnector
      <4>2. CASE QueryStream(s) \/ Drive(s) \/ FlushBatch(s)
        BY <4>0, <4>2 DEF QueryStream, Drive, FlushBatch, StepTo, StepFails, WithConnector
      <4>3. CASE Collect(s)
        BY <4>0, <4>3 DEF Collect, StepTo, StepFails, WithConnector
      <4>4. CASE Teardown(s) \/ Measure(s) \/ Record(s)
        BY <4>4 DEF Teardown, Measure, Record, WithConnector
      <4> QED BY <1>1, <4>1, <4>2, <4>3, <4>4 DEF StepNext
    <3> QED BY <2>1, <3>1, <3>2, <3>3, <3>4
  <2> QED BY <2>1, <2>2, <2>3
<1>2. CASE WriterNext
  <2>1. /\ UNCHANGED <<mode, pc, open, leaked, first, main, finalized>>
        /\ outcome = "pending" \/ hand # NoBatch
    BY <1>2, WriterFrames
  <2>2. outcome = "pending"
    BY <2>1 DEF HandInv, NoWriterInDirect
  <2> QED BY <2>1, <2>2
<1>3. CASE MainNext
  <2>0. UNCHANGED <<mode, pc, open, leaked, first, outcome>>
    BY <1>3, MainFrames
  <2>1. CASE OpenResultStream \/ RunDirectExtraction
    BY <2>0, <2>1 DEF OpenResultStream, RunDirectExtraction, Returns
  <2>2. CASE PoolJoined
    BY <2>0, <2>2 DEF PoolJoined
  <2>3. CASE Decide
    BY <2>0, <2>3 DEF Decide, Returns, RunErr
  <2>4. CASE BuildStoreReference \/ CompleteDirectMode
    BY <2>0, <2>4 DEF BuildStoreReference, CompleteDirectMode, Returns
  <2> QED BY <1>3, <2>1, <2>2, <2>3, <2>4 DEF MainNext
<1>4. ASSUME NEW why \in Ends, HostCancels(why)
      PROVE  PhaseInv'
  BY <1>4, HostFrames
<1>5. CASE Returned \/ UNCHANGED vars
  BY <1>5 DEF Returned, vars, stepVars, mainVars
<1> QED BY <1>1, <1>2, <1>3, <1>4, <1>5 DEF Next, Progress

LEMMA DirectStep ==
    ASSUME TypeOK, NoWriterInDirect, [Next]_vars
    PROVE  NoWriterInDirect'
<1> USE DEF NoWriterInDirect
<1>1. ASSUME NEW s \in Steps, StepNext(s)
      PROVE  NoWriterInDirect'
  <2>1. UNCHANGED <<mode, hand, outcome>> /\ \A r \in Steps : r # s => pc'[r] = pc[r]
    BY <1>1, StepFrames, StepMoves DEF TypeOK, StepsOK
  <2>2. mode = "direct" => chan' = chan
    BY <1>1, StepReads DEF FlushBatch
  <2>3. mode = "direct" => pc'[s] # "flush"
    <3>0. \A n : pc' = [pc EXCEPT ![s] = n] => pc'[s] = n
      BY DEF TypeOK, StepsOK
    <3>1. CASE Gate(s) \/ Build(s) \/ Connect(s)
      BY <3>0, <3>1 DEF Gate, Build, Connect, StepTo, StepFails
    <3>2. CASE QueryStream(s) \/ Drive(s) \/ FlushBatch(s)
      BY <3>0, <3>2 DEF QueryStream, Drive, FlushBatch, StepTo, StepFails
    <3>3. CASE Collect(s)
      BY <3>0, <3>3 DEF Collect, StepTo, StepFails
    <3>4. CASE Teardown(s) \/ Measure(s) \/ Record(s)
      BY <3>0, <3>4 DEF Teardown, Measure, Record, StepTo, StepFails
    <3> QED BY <1>1, <3>1, <3>2, <3>3, <3>4 DEF StepNext
  <2> QED BY <2>1, <2>2, <2>3
<1>2. CASE WriterNext
  <2>1. mode' = mode /\ pc' = pc
    BY <1>2, WriterFrames
  <2>2. CASE mode = "direct"
    <3>1. ~Write /\ ~WriterDone
      BY <2>2 DEF Write, WriterDone
    <3>2. CASE Receive
      BY <2>2, <3>2, StreamAssumption DEF Receive, TypeOK, WriterOK, Steps
    <3>3. CASE NextChannel
      BY <2>1, <3>3 DEF NextChannel
    <3> QED BY <1>2, <3>1, <3>2, <3>3 DEF WriterNext
  <2> QED BY <2>1, <2>2
<1>3. CASE MainNext \/ Returned
  BY <1>3, MainFrames
<1>4. ASSUME NEW why \in Ends, HostCancels(why)
      PROVE  NoWriterInDirect'
  BY <1>4, HostFrames
<1>5. CASE UNCHANGED vars
  BY <1>5 DEF vars, stepVars
<1> QED BY <1>1, <1>2, <1>3, <1>4, <1>5 DEF Next, Progress

(* A step's rows, its error and the pool's first one. *)
LEMMA RowsStep ==
    ASSUME TypeOK, RowsInv, [Next]_vars
    PROVE  RowsInv'
<1>1. ASSUME NEW s \in Steps, StepNext(s)
      PROVE  RowsInv'
  <2>1. /\ UNCHANGED <<mode, rows>>
        /\ first # "none" => first' # "none"
        /\ \A r \in Steps : r # s => /\ pc'[r] = pc[r] /\ err'[r] = err[r]
                                     /\ produced'[r] = produced[r] /\ kept'[r] = kept[r]
    <3>1. first # "none" => first' # "none"
      BY <1>1, StepFrames DEF Record
    <3>2. \A r \in Steps : r # s => pc'[r] = pc[r] /\ err'[r] = err[r]
      BY <1>1, StepMoves DEF TypeOK, StepsOK
    <3>3. \A r \in Steps : r # s => produced'[r] = produced[r] /\ kept'[r] = kept[r]
      BY <1>1, StepReads DEF TypeOK, StepsOK
    <3> QED BY <1>1, <3>1, <3>2, <3>3, StepFrames
  <2>2. /\ \A n : pc' = [pc EXCEPT ![s] = n] => pc'[s] = n
        /\ \A w : err' = [err EXCEPT ![s] = w] => err'[s] = w
        /\ \A k : produced' = [produced EXCEPT ![s] = k] => produced'[s] = k
        /\ \A k : kept' = [kept EXCEPT ![s] = k] => kept'[s] = k
        /\ produced[s] \in Nat /\ rows[s] \in Nat
    BY DEF TypeOK, StepsOK
  <2>3. "none" \notin Reasons /\ ConnectorError # "none" /\ (runCtx # "live" => runCtx # "none")
    BY ReasonsType DEF Reasons, Ends
  <2> DEFINE Mine ==
        /\ produced'[s] <= rows'[s]
        /\ pc'[s] \in {"teardown", "measure", "record", "done"} /\ err'[s] = "none"
              => produced'[s] = rows'[s]
        /\ pc'[s] = "flush" => produced'[s] < rows'[s]
        /\ pc'[s] = "measure" => mode' = "direct" /\ err'[s] = "none"
        /\ mode' = "direct" /\ pc'[s] \in {"record", "done"} /\ err'[s] = "none"
              => kept'[s] = rows'[s]
        /\ pc'[s] = "done" /\ err'[s] # "none" => first' # "none"
        /\ pc'[s] \in {"gate", "build", "connect", "query", "drive", "flush"} => err'[s] = "none"
  <2>4. Mine
    <3> USE <2>1, <2>2, <2>3 DEF RowsInv, StepTo, StepFails
    <3>1. CASE Gate(s) \/ Build(s)
      BY <3>1 DEF Gate, Build
    <3>2. CASE Connect(s) \/ QueryStream(s)
      BY <3>2 DEF Connect, QueryStream
    <3>3. CASE Drive(s)
      BY <3>3 DEF Drive
    <3>4. CASE FlushBatch(s)
      BY <3>4 DEF FlushBatch
    <3>5. CASE Collect(s)
      <4>1. pc[s] = "drive" /\ err[s] = "none" /\ produced[s] <= rows[s] /\ mode = "direct"
        BY <3>5 DEF Collect
      <4>2. CASE /\ produced[s] < rows[s] /\ UNCHANGED <<pc, err>>
                 /\ produced' = [produced EXCEPT ![s] = produced[s] + 1]
        BY <4>1, <4>2
      <4>3. CASE UNCHANGED <<produced, err>> /\ StepTo(s, "teardown") /\ produced[s] = rows[s]
        BY <4>1, <4>3
      <4>4. CASE \E w : UNCHANGED produced /\ StepFails(s, w) /\ w # "none"
        BY <4>1, <4>4
      <4> QED BY <3>5, <4>2, <4>3, <4>4 DEF Collect
    <3>6. CASE Teardown(s)
      BY <3>6 DEF Teardown, TypeOK, StepsOK
    <3>7. CASE Measure(s)
      BY <3>7 DEF Measure
    <3>8. CASE Record(s)
      BY <3>8 DEF Record
    <3> QED BY <1>1, <3>1, <3>2, <3>3, <3>4, <3>5, <3>6, <3>7, <3>8 DEF StepNext
  <2> QED BY <2>1, <2>4 DEF RowsInv
<1>2. CASE WriterNext
  BY <1>2, WriterFrames DEF RowsInv
<1>3. CASE MainNext \/ Returned
  BY <1>3, MainFrames DEF RowsInv
<1>4. ASSUME NEW why \in Ends, HostCancels(why)
      PROVE  RowsInv'
  BY <1>4, HostFrames DEF RowsInv
<1>5. CASE UNCHANGED vars
  BY <1>5 DEF vars, stepVars, RowsInv
<1> QED BY <1>1, <1>2, <1>3, <1>4, <1>5 DEF Next, Progress

-----------------------------------------------------------------------------
(* The facts of the stream only depend on these variables. *)
LEMMA StreamFrame ==
    ASSUME Streaming, UNCHANGED <<produced, chan, closed, ordinal, hand, outcome, sink>>,
           \A s \in closed : pc'[s] \in {"record", "done"}
    PROVE  Streaming'
BY DEF Streaming, ChannelsInv, HandInv, NothingMissing, InOrder, WriterFailed, Before

(* A batch is put into its channel: the next one of its step. *)
LEMMA FlushStream ==
    ASSUME TypeOK, Streaming, NEW s \in Steps, FlushBatch(s), chan[s] = 0,
           produced' = [produced EXCEPT ![s] = produced[s] + 1],
           chan' = [chan EXCEPT ![s] = produced[s] + 1],
           UNCHANGED <<closed, ordinal, hand, outcome, sink>>,
           \A r \in closed : pc'[r] \in {"record", "done"}
    PROVE  Streaming'
<1> USE DEF Streaming
<1>0. s \in Nat /\ ordinal \in Nat /\ \A r \in Steps : r \in Nat
  BY DEF TypeOK, WriterOK, Steps
<1>1. /\ produced[s] \in Nat /\ produced'[s] = produced[s] + 1 /\ chan'[s] = produced[s] + 1
      /\ \A r \in Steps : r # s => produced'[r] = produced[r] /\ chan'[r] = chan[r]
      /\ \A r \in Steps : produced[r] \in Nat
  BY DEF TypeOK, StepsOK
<1>2. s \notin closed
  BY DEF FlushBatch, ChannelsInv
<1>3. s >= ordinal
  BY <1>0, <1>2 DEF ChannelsInv
<1>4. ChannelsInv'
  BY <1>0, <1>1, <1>2, <1>3 DEF ChannelsInv
<1>5. HandInv'
  BY <1>0, <1>1 DEF HandInv
<1>6. NothingMissing'
  <2> SUFFICES ASSUME ~WriterFailed, NEW r \in Steps, NEW k \in 1..produced'[r],
                      r <= ordinal, k # chan'[r], hand # <<r, k>>
               PROVE  \E i \in DOMAIN sink : sink[i] = <<r, k>>
    BY DEF NothingMissing, WriterFailed
  <2>1. k \in 1..produced[r] /\ k # chan[r]
    BY <1>1
  <2> QED BY <2>1 DEF NothingMissing
<1>7. InOrder'
  <2> SUFFICES ASSUME NEW i \in DOMAIN sink
               PROVE  /\ sink[i][2] <= produced'[sink[i][1]]
                      /\ sink[i][1] = ordinal /\ chan'[ordinal] # 0 => sink[i][2] < chan'[ordinal]
    BY DEF InOrder, Before
  <2>1. /\ sink[i][1] \in Steps /\ sink[i][2] <= produced[sink[i][1]]
        /\ sink[i][1] = ordinal /\ chan[ordinal] # 0 => sink[i][2] < chan[ordinal]
    BY DEF InOrder
  <2>2. sink[i][2] \in Nat
    BY DEF TypeOK, WriterOK
  <2> QED BY <1>1, <2>1, <2>2
<1> QED BY <1>4, <1>5, <1>6, <1>7

LEMMA StepStream ==
    ASSUME TypeOK, Streaming, mode = "store", NEW s \in Steps, StepNext(s)
    PROVE  Streaming'
<1>1. /\ UNCHANGED <<ordinal, hand, outcome, sink>> /\ pc[s] # "done"
      /\ \A r \in Steps : r # s => pc'[r] = pc[r]
      /\ \A n : pc' = [pc EXCEPT ![s] = n] => pc'[s] = n
  BY StepFrames, StepMoves DEF TypeOK, StepsOK
<1>2. \A r \in closed : pc'[r] \in {"record", "done"}
  <2>1. s \in closed => pc[s] = "record"
    BY <1>1 DEF Streaming, ChannelsInv
  <2>2. pc[s] = "record" => pc'[s] = "done"
    BY <1>1 DEF StepNext, Gate, Build, Connect, QueryStream, Drive, FlushBatch, Collect, Teardown,
       Measure, Record, StepTo
  <2> QED BY <1>1, <2>1, <2>2 DEF Streaming, ChannelsInv, TypeOK, StepsOK
<1>3. CASE UNCHANGED <<produced, chan, closed>>
  BY <1>1, <1>2, <1>3, StreamFrame
<1>4. CASE FlushBatch(s)
  <2>1. closed' = closed
    BY <1>4 DEF FlushBatch
  <2>2. CASE chan' = chan /\ produced' = produced
    BY <1>3, <2>1, <2>2
  <2>3. CASE /\ chan[s] = 0 /\ produced' = [produced EXCEPT ![s] = produced[s] + 1]
             /\ chan' = [chan EXCEPT ![s] = produced[s] + 1]
    BY <1>1, <1>2, <1>4, <2>1, <2>3, FlushStream
  <2> QED BY <1>4, <2>2, <2>3 DEF FlushBatch
<1>5. CASE Teardown(s)
  <2>1. /\ closed' = closed \cup {s} /\ UNCHANGED <<produced, chan>> /\ pc'[s] = "record"
    BY <1>1, <1>5 DEF Teardown, StepTo
  <2> QED BY <1>1, <1>2, <2>1 DEF Streaming, ChannelsInv, HandInv, NothingMissing, InOrder, WriterFailed,
                                  Before
<1>6. CASE ~FlushBatch(s) /\ ~Teardown(s)
  BY <1>3, <1>6, StepReads DEF Collect
<1> QED BY <1>4, <1>5, <1>6

(* The writer takes the batch from the channel it drains. *)
LEMMA ReceiveStream ==
    ASSUME TypeOK, Streaming, Receive
    PROVE  Streaming'
<1> USE StreamAssumption DEF Streaming
<1>1. /\ ordinal \in Steps /\ chan[ordinal] # 0 /\ chan[ordinal] = produced[ordinal]
      /\ hand = NoBatch /\ outcome = "pending"
      /\ UNCHANGED <<pc, produced, closed, ordinal, sink, outcome>>
  BY DEF Receive, WriterFrame, stepVars, TypeOK, WriterOK, Steps, ChannelsInv
<1>2. /\ chan'[ordinal] = 0 /\ \A s \in Steps : s # ordinal => chan'[s] = chan[s]
      /\ produced[ordinal] \in Nat /\ ordinal \in Nat \ {0}
  BY <1>1 DEF Receive, TypeOK, StepsOK, WriterOK
<1>3. hand' = <<ordinal, chan[ordinal]>> /\ hand'[1] = ordinal /\ hand'[2] = chan[ordinal]
  BY DEF Receive
<1>4. \A s \in Steps : s \in Nat \ {0}
  BY DEF Steps
<1>5. \A s \in Steps : \A k : hand # <<s, k>> /\ (hand' # <<s, k>> /\ s = ordinal => k # chan[ordinal])
  BY <1>1, <1>3, <1>4 DEF NoBatch
<1>6. ChannelsInv'
  BY <1>1, <1>2, <1>4 DEF ChannelsInv
<1>7. HandInv'
  BY <1>1, <1>2, <1>3 DEF HandInv
<1>8. NothingMissing'
  BY <1>1, <1>2, <1>5 DEF NothingMissing, WriterFailed
<1>9. InOrder'
  <2> SUFFICES ASSUME NEW i \in DOMAIN sink
               PROVE  Before(sink[i], hand')
    BY <1>1, <1>2 DEF InOrder, Before
  <2>1. /\ sink[i][1] \in Steps /\ sink[i][1] <= ordinal
        /\ sink[i][1] = ordinal => sink[i][2] < chan[ordinal]
    BY <1>1 DEF InOrder
  <2> QED BY <1>2, <1>3, <1>4, <2>1 DEF Before
<1> QED BY <1>6, <1>7, <1>8, <1>9

(* It goes on to the next channel when the one it drains is closed and empty. *)
LEMMA NextChannelStream ==
    ASSUME TypeOK, Streaming, NextChannel
    PROVE  Streaming'
<1> USE StreamAssumption DEF Streaming
<1>1. /\ ordinal <= N /\ ordinal \in Nat \ {0} /\ chan[ordinal] = 0 /\ ordinal \in closed
      /\ ordinal' = ordinal + 1
      /\ hand = NoBatch /\ outcome = "pending"
      /\ UNCHANGED <<pc, produced, chan, closed, hand, sink, outcome>>
  BY DEF NextChannel, WriterFrame, stepVars, TypeOK, WriterOK
<1>2. \A s \in Steps : s \in Nat /\ produced[s] \in Nat /\ chan[s] \in Nat
  BY DEF Steps, TypeOK, StepsOK
<1>3. ChannelsInv' /\ HandInv'
  BY <1>1, <1>2 DEF ChannelsInv, HandInv
<1>4. \A s \in Steps : s <= ordinal' => s <= ordinal \/ (produced[s] = chan[s] /\ chan[s] <= 1)
  BY <1>1, <1>2 DEF ChannelsInv
<1>5. NothingMissing'
  BY <1>1, <1>2, <1>4 DEF NothingMissing, WriterFailed
<1>6. \A i \in DOMAIN sink : sink[i][1] \in Steps /\ sink[i][1] <= ordinal
  BY DEF InOrder
<1>7. InOrder'
  BY <1>1, <1>2, <1>6 DEF InOrder, Before
<1> QED BY <1>3, <1>5, <1>7

LEMMA AppendFacts ==
    ASSUME NEW S, NEW q \in Seq(S), NEW e \in S, NEW r, r = Append(q, e)
    PROVE  /\ DOMAIN q = 1..Len(q) /\ Len(q) \in Nat /\ DOMAIN r = 1..(Len(q) + 1)
           /\ \A i \in 1..Len(q) : r[i] = q[i]
           /\ r[Len(q) + 1] = e
OBVIOUS

(* It writes what it has in hand, or fails. *)
LEMMA WriteStream ==
    ASSUME TypeOK, Streaming, Write
    PROVE  Streaming'
<1> USE StreamAssumption DEF Streaming
<1>1. /\ hand # NoBatch /\ hand' = NoBatch
      /\ UNCHANGED <<pc, produced, chan, closed, ordinal>>
  BY DEF Write, WriterFails, WriterFrame, stepVars
<1>2. /\ outcome = "pending" /\ ordinal \in Steps /\ hand[1] = ordinal /\ hand[2] > 0
      /\ IF chan[ordinal] = 0 THEN hand[2] = produced[ordinal]
         ELSE hand[2] + 1 = chan[ordinal]
  BY <1>1 DEF HandInv
<1>3. \/ outcome' \in {"limit", "unavailable"} /\ sink' = sink
      \/ outcome' = outcome /\ sink' = Append(sink, hand)
  BY DEF Write, WriterFails
<1>4. ChannelsInv'
  BY <1>1 DEF ChannelsInv
<1>5. HandInv'
  BY <1>1, <1>2, <1>3 DEF HandInv
<1>6. CASE outcome' \in {"limit", "unavailable"} /\ sink' = sink
  <2>1. NothingMissing'
    BY <1>6 DEF NothingMissing, WriterFailed
  <2>2. InOrder'
    BY <1>1, <1>6 DEF InOrder, Before
  <2> QED BY <1>4, <1>5, <2>1, <2>2
<1>7. CASE outcome' = outcome /\ sink' = Append(sink, hand)
  <2>1. /\ sink \in Seq(Nat \X Nat) /\ hand \in Nat \X Nat
    BY DEF TypeOK, WriterOK
  <2> DEFINE n == Len(sink)
  <2>2. /\ DOMAIN sink = 1..n /\ n \in Nat /\ DOMAIN sink' = 1..(n + 1)
        /\ \A i \in 1..n : sink'[i] = sink[i]
        /\ sink'[n + 1] = hand
    BY <1>7, <2>1, AppendFacts
  <2> HIDE DEF n
  <2>3. NothingMissing'
    <3> SUFFICES ASSUME ~WriterFailed, NEW s \in Steps, NEW k \in 1..produced[s],
                        s <= ordinal, k # chan[s]
                 PROVE  \E i \in DOMAIN sink' : sink'[i] = <<s, k>>
      BY <1>1, <1>7 DEF NothingMissing, WriterFailed
    <3>1. CASE hand = <<s, k>>
      BY <2>2, <3>1
    <3>2. CASE hand # <<s, k>>
      <4>1. PICK i \in DOMAIN sink : sink[i] = <<s, k>>
        BY <3>2 DEF NothingMissing
      <4> QED BY <2>2, <4>1
    <3> QED BY <3>1, <3>2
  <2>4. hand[2] <= produced[ordinal] /\ (chan[ordinal] # 0 => hand[2] < chan[ordinal])
    <3>1. hand[2] \in Nat /\ produced[ordinal] \in Nat /\ chan[ordinal] \in Nat
      BY <1>2 DEF TypeOK, WriterOK, StepsOK
    <3>2. chan[ordinal] # 0 => chan[ordinal] = produced[ordinal]
      BY <1>2 DEF ChannelsInv
    <3> QED BY <1>2, <3>1, <3>2
  <2>5. InOrder'
    <3>1. \A i \in 1..n : Before(sink[i], hand)
      BY <1>1, <2>2 DEF InOrder
    <3>2. \A i, j \in 1..n : i < j => Before(sink[i], sink[j])
      BY <2>2 DEF InOrder
    <3>3. ASSUME NEW i \in 1..(n + 1), NEW j \in 1..(n + 1), i < j
          PROVE  Before(sink'[i], sink'[j])
      <4>1. i \in 1..n /\ (j \in 1..n \/ j = n + 1)
        BY <2>2, <3>3
      <4> QED BY <2>2, <3>1, <3>2, <3>3, <4>1
    <3>4. ASSUME NEW i \in 1..(n + 1)
          PROVE  /\ sink'[i][1] \in Steps /\ sink'[i][1] <= ordinal
                 /\ sink'[i][2] <= produced[sink'[i][1]]
                 /\ sink'[i][1] = ordinal /\ chan[ordinal] # 0 => sink'[i][2] < chan[ordinal]
      <4>1. CASE i \in 1..n
        BY <2>2, <4>1 DEF InOrder
      <4>2. CASE i = n + 1
        BY <1>2, <2>2, <2>4, <4>2 DEF Steps
      <4> QED BY <2>2, <4>1, <4>2
    <3> QED BY <1>1, <2>2, <3>3, <3>4 DEF InOrder, Before
  <2> QED BY <1>4, <1>5, <2>3, <2>5
<1> QED BY <1>3, <1>6, <1>7

LEMMA StreamStep ==
    ASSUME TypeOK, StreamInv, [Next]_vars
    PROVE  StreamInv'
<1>0. mode' = mode
  BY StepFrames, WriterFrames, MainFrames, HostFrames DEF Next, Progress, vars
<1> SUFFICES ASSUME mode = "store", Streaming
             PROVE  Streaming'
  BY <1>0 DEF StreamInv, Streaming
<1>1. ASSUME NEW s \in Steps, StepNext(s)
      PROVE  Streaming'
  BY <1>1, StepStream
<1>2. CASE WriterDone
  <2>1. /\ outcome = "pending" /\ outcome' = "none" /\ ordinal = N + 1 /\ hand = NoBatch
        /\ UNCHANGED <<pc, produced, chan, closed, ordinal, hand, sink>>
    BY <1>2 DEF WriterDone, WriterFrame, stepVars
  <2> QED BY <2>1 DEF Streaming, ChannelsInv, HandInv, NothingMissing, InOrder, WriterFailed, Before
<1>3. CASE WriterNext
  BY <1>2, <1>3, ReceiveStream, NextChannelStream, WriteStream DEF WriterNext
<1>4. ASSUME UNCHANGED <<pc, produced, chan, closed, ordinal, hand, outcome, sink>>
      PROVE  Streaming'
  BY <1>4, StreamFrame DEF Streaming, ChannelsInv, TypeOK, StepsOK
<1>5. CASE MainNext \/ Returned
  BY <1>4, <1>5, MainFrames
<1>6. ASSUME NEW why \in Ends, HostCancels(why)
      PROVE  Streaming'
  BY <1>4, <1>6, HostFrames
<1>7. CASE UNCHANGED vars
  BY <1>4, <1>7 DEF vars, stepVars
<1> QED BY <1>1, <1>3, <1>5, <1>6, <1>7 DEF Next, Progress

-----------------------------------------------------------------------------
LEMMA TotalStays ==
    ASSUME kept' = kept
    PROVE  Total' = Total
BY Zenon DEF Total, MapThenSumSet, MapThenFoldSet

(* A result that is finalized stays as it is. *)
LEMMA FinalizedStays ==
    ASSUME FinalizedIsComplete, UNCHANGED <<finalized, mode, rows, kept, sink>>
    PROVE  FinalizedIsComplete'
<1>1. Total' = Total
  BY TotalStays
<1> QED BY <1>1 DEF FinalizedIsComplete, Before

(* The rows are only finalized when every step has all of its own. *)
LEMMA FinalizedStep ==
    ASSUME IInv, [Next]_vars
    PROVE  FinalizedIsComplete'
<1> USE DEF IInv
<1>1. CASE UNCHANGED <<finalized, mode, rows, kept, sink>>
  BY <1>1, FinalizedStays
<1>2. CASE ~finalized'
  BY <1>2 DEF FinalizedIsComplete
<1>3. ASSUME NEW s \in Steps, StepNext(s)
      PROVE  FinalizedIsComplete'
  <2>1. finalized' = finalized /\ pc[s] # "done"
    BY <1>3, StepFrames, StepMoves
  <2> QED BY <1>2, <2>1 DEF PhaseInv, AllDone
<1>4. CASE WriterNext
  <2>1. UNCHANGED <<finalized, mode, rows, kept>> /\ (outcome = "pending" \/ hand # NoBatch)
    BY <1>4, WriterFrames
  <2>2. CASE mode = "store"
    <3>1. outcome = "pending"
      BY <2>1, <2>2 DEF StreamInv, Streaming, HandInv
    <3> QED BY <1>2, <2>1, <2>2, <3>1 DEF PhaseInv
  <2>3. CASE mode = "direct"
    <3>1. sink' = sink
      BY <1>4, <2>3 DEF NoWriterInDirect, WriterNext, Receive, NextChannel, Write, WriterDone
    <3> QED BY <1>1, <2>1, <3>1
  <2> QED BY <2>2, <2>3 DEF TypeOK, StepsOK
<1>5. CASE BuildStoreReference
  <2>1. /\ mode = "store" /\ outcome = "none" /\ first = "none" /\ AllDone
        /\ UNCHANGED <<mode, rows, sink>>
    BY <1>5, MainFrames DEF MainNext, BuildStoreReference, PhaseInv
  <2>2. \A s \in Steps : produced[s] = rows[s]
    BY <2>1 DEF RowsInv, AllDone
  <2>3. ordinal = N + 1 /\ hand = NoBatch
    BY <2>1 DEF StreamInv, Streaming, HandInv
  <2>4. \A s \in Steps : chan[s] = 0 /\ s <= ordinal
    BY <2>1, <2>3, StreamAssumption DEF StreamInv, Streaming, ChannelsInv, Steps
  <2>5. \A s \in Steps : \A k \in 1..rows[s] : hand # <<s, k>> /\ k # 0
    BY <2>3, StreamAssumption DEF NoBatch, Steps
  <2>6. \A s \in Steps : \A k \in 1..rows[s] : \E i \in DOMAIN sink : sink[i] = <<s, k>>
    BY <2>1, <2>2, <2>4, <2>5 DEF StreamInv, Streaming, NothingMissing, WriterFailed
  <2>7. \A i, j \in DOMAIN sink : i < j => Before(sink[i], sink[j])
    BY <2>1 DEF StreamInv, Streaming, InOrder
  <2> QED BY <2>1, <2>6, <2>7 DEF FinalizedIsComplete, Before
<1>6. CASE CompleteDirectMode
  <2>1. /\ mode = "direct" /\ AllDone /\ UNCHANGED <<mode, rows, kept, sink>>
    BY <1>6, MainFrames DEF MainNext, CompleteDirectMode, PhaseInv
  <2>2. CASE first = "none" /\ (SizeLimit > 0 => Total <= SizeLimit)
    <3>1. \A s \in Steps : kept[s] = rows[s]
      BY <2>1, <2>2 DEF RowsInv, AllDone
    <3>2. kept = rows
      BY <3>1 DEF TypeOK, StepsOK
    <3>3. Total' = Total
      BY <2>1, TotalStays
    <3> QED BY <2>1, <2>2, <3>2, <3>3 DEF FinalizedIsComplete
  <2>3. CASE finalized' = finalized
    BY <1>1, <2>1, <2>3
  <2> QED BY <1>6, <2>2, <2>3 DEF CompleteDirectMode
<1>7. CASE OpenResultStream \/ RunDirectExtraction \/ PoolJoined \/ Decide \/ Returned
  <2>1. UNCHANGED finalized
    BY <1>7 DEF OpenResultStream, RunDirectExtraction, PoolJoined, Decide, Returned, vars, mainVars
  <2> QED BY <1>1, <1>7, <2>1, MainFrames DEF MainNext
<1>8. ASSUME NEW why \in Ends, HostCancels(why)
      PROVE  FinalizedIsComplete'
  BY <1>1, <1>8, HostFrames
<1>9. CASE UNCHANGED vars
  BY <1>1, <1>9 DEF vars, stepVars, mainVars
<1> QED BY <1>3, <1>4, <1>5, <1>6, <1>7, <1>8, <1>9 DEF Next, Progress, MainNext

LEMMA InitIInv == Init => IInv
<1> SUFFICES ASSUME Init PROVE IInv
  OBVIOUS
<1> USE StreamAssumption DEF Init
<1>0. RowCounts \subseteq Nat
  OBVIOUS
<1>1. rows \in [Steps -> Nat]
  BY <1>0
<1>a. StepsOK /\ CallerOK
  BY <1>1 DEF StepsOK, CallerOK, Places, Reasons, Contexts
<1>b. hand \in Nat \X Nat /\ sink \in Seq(Nat \X Nat)
  BY DEF NoBatch
<1>2. TypeOK
  BY <1>a, <1>b DEF TypeOK, WriterOK
<1>3. CauseInv /\ PhaseInv /\ NoWriterInDirect
  BY DEF CauseInv, PhaseInv, NoWriterInDirect, Ends
<1>4. RowsInv
  BY <1>1 DEF RowsInv
<1>5. Streaming
  BY DEF Streaming, ChannelsInv, HandInv, NothingMissing, InOrder, Steps
<1>6. FinalizedIsComplete /\ CanceledOnlyByHost
  BY DEF FinalizedIsComplete, CanceledOnlyByHost, Ends
<1> QED BY <1>2, <1>3, <1>4, <1>5, <1>6 DEF IInv, StreamInv, Streaming

(* The inductive invariant: why a context has ended, which goroutines are   *)
(* still there, what each step has read, and what the writer has of it.     *)
THEOREM ExtractionInvariant == Spec => []IInv
<1>1. IInv /\ [Next]_vars => IInv'
  <2> SUFFICES ASSUME IInv, [Next]_vars PROVE IInv'
    OBVIOUS
  <2>1. HandInv \/ mode = "direct"
    BY DEF IInv, StreamInv, Streaming, TypeOK, StepsOK
  <2> QED BY <2>1, TypeStep, CauseStep, PhaseStep, DirectStep, RowsStep, StreamStep, FinalizedStep,
          CanceledStep DEF IInv
<1> QED BY InitIInv, <1>1, PTL DEF Spec

(* What runDirectExtraction returns, and what the sink holds when its writer *)
(* is closed, is the whole result, in order and once.                        *)
THEOREM ResultIsComplete == Spec => []FinalizedIsComplete
<1>1. IInv => FinalizedIsComplete
  BY DEF IInv
<1> QED BY ExtractionInvariant, <1>1, PTL

(* No internal cancellation of streamPlanToSink or runStepsParallel is ever *)
(* reported as the host's.                                                  *)
THEOREM CanceledMeansHost == Spec => []CanceledOnlyByHost
<1>1. IInv => CanceledOnlyByHost
  BY DEF IInv
<1> QED BY ExtractionInvariant, <1>1, PTL

(* The runner returns after its goroutines, with every connector closed but *)
(* those whose TestConnection panicked.                                     *)
THEOREM NoGoroutineLeft == Spec => []NothingLeftBehind
<1>1. IInv => NothingLeftBehind
  BY DEF IInv, TypeOK, StepsOK, PhaseInv, AllDone, WithConnector, NothingLeftBehind
<1> QED BY ExtractionInvariant, <1>1, PTL
=============================================================================
