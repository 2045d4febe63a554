---------------------------- MODULE ChunkJobProofs ----------------------------
(* Proofs about ChunkJob, for any number of workers and chunks, any queue  *)
(* capacity and any behaviour of upstreams and client.                     *)
EXTENDS ChunkJob, SequenceTheorems, FiniteSetTheorems, TLAPS

(* What a worker holds, by its place. *)
HeldByPlace ==
  \A w \in Workers :
    /\ wpc[w] = "download" => held[w] \in [index : Left, data : {"none"}]
    /\ wpc[w] = "send" => held[w] \in Results

(* What the direct goroutine and main are about to write. *)
ReadyToWrite ==
  /\ dpc \in {"request", "copy"} => dnext < LeftStart
  /\ dpc = "copy" => reply # "none"
  /\ mpc = "writing" => next \in Left /\ pending[next] # "none" /\ directDone

(* Why DirectCtx protects the writer although three parties cancel it:     *)
(* while main runs, a cancellation that is not the direct goroutine's own  *)
(* goes back to a request cancelled before that goroutine began.           *)
Signals ==
  Running =>
    /\ jobDone \/ watch # "waiting" => reqDone
    /\ directDone => reqDone \/ dpc = "exited"
    /\ reqDone => dpc \notin {"request", "copy"}

JobInv == TypeOK /\ HeldByPlace /\ ReadyToWrite /\ Signals

(* Nothing is written, received or cancelled yet. *)
LEMMA JobInit == Init => JobInv
<1> SUFFICES ASSUME Init PROVE JobInv
  OBVIOUS
<1>1. ContextTypes
  BY JobAssumption DEF Init, ContextTypes
<1>2. QueueTypes
  <2>1. resultCh \in Seq(Results) /\ Len(resultCh) <= ResultCap
    BY JobAssumption DEF Init
  <2>2. held \in [Workers -> Results \cup [index : Left, data : {"none"}] \cup {NoTask}]
    BY DEF Init
  <2>3. fed \in LeftStart..NumChunks /\ handed \in LeftStart..fed
    BY JobAssumption DEF Init
  <2>4. /\ taskClosed \in BOOLEAN /\ resultClosed \in BOOLEAN
        /\ wpc \in [Workers -> {"select", "download", "send", "exited"}]
    BY DEF Init
  <2> QED
    BY <2>1, <2>2, <2>3, <2>4 DEF QueueTypes
<1>5. HeldByPlace
  BY DEF Init, HeldByPlace
<1>3. StreamTypes
  BY JobAssumption DEF Init, StreamTypes
<1>4. ReadyToWrite /\ Signals
  BY DEF Init, ReadyToWrite, Signals
<1> QED
  BY <1>1, <1>2, <1>3, <1>4, <1>5 DEF JobInv, TypeOK

USE DEF contexts, channels, workers, direct, main, client, vars

Pieces == [index : 0..(NumChunks - 1), data : {"range", "other", "cut"}]

(* One piece more, or none: the stream stays a sequence of pieces. *)
LEMMA SentType ==
  ASSUME StreamTypes, NEW i \in 0..(NumChunks - 1), NEW d \in {"range", "other", "cut"}
  PROVE  Sent(i, d) \in Seq(Pieces)
<1>1. out \in Seq(Pieces) /\ Result(i, d) \in Pieces
  BY DEF StreamTypes, Pieces, Result
<1>2. Append(out, Result(i, d)) \in Seq(Pieces)
  BY <1>1
<1> QED
  BY <1>1, <1>2 DEF Sent

(* The watcher passes on what was cancelled before. *)
LEMMA WatcherStep ==
  ASSUME JobInv, Watcher
  PROVE  JobInv'
<1>1. ContextTypes'
  BY JobAssumption DEF JobInv, TypeOK, ContextTypes, Watcher,
    WatchRequest, WatchJob, WatchCancelDirect
<1>2. QueueTypes' /\ HeldByPlace'
  BY JobAssumption DEF JobInv, TypeOK, QueueTypes, HeldByPlace, Watcher,
    WatchRequest, WatchJob, WatchCancelDirect
<1>3. StreamTypes'
  BY JobAssumption DEF JobInv, TypeOK, StreamTypes, ReadyToWrite, Watcher,
    WatchRequest, WatchJob, WatchCancelDirect
<1>4. ReadyToWrite'
  BY JobAssumption DEF JobInv, TypeOK, StreamTypes, ReadyToWrite,
    ContextTypes, Watcher, WatchRequest, WatchJob, WatchCancelDirect
<1>5. Signals'
  BY JobAssumption DEF JobInv, TypeOK, ContextTypes, StreamTypes, Signals,
    Running, Watcher, WatchRequest, WatchJob, WatchCancelDirect
<1> QED
  BY <1>1, <1>2, <1>3, <1>4, <1>5 DEF JobInv, TypeOK

(* The feeder hands out one more task. *)
LEMMA FeedStep ==
  ASSUME JobInv, Feed
  PROVE  JobInv'
<1>1. ContextTypes'
  BY JobAssumption DEF JobInv, TypeOK, ContextTypes, Feed
<1>2. QueueTypes' /\ HeldByPlace'
  <2>1. QueueTypes'
    <3>1. fed' \in LeftStart..NumChunks /\ handed' \in LeftStart..fed'
      <4>1. fed' = fed \/ (fed < NumChunks /\ fed' = fed + 1)
        BY DEF Feed
      <4>2. fed \in LeftStart..NumChunks /\ handed \in LeftStart..fed /\ handed' = handed
        BY DEF JobInv, TypeOK, QueueTypes, Feed
      <4>3. fed' \in LeftStart..NumChunks /\ fed <= fed'
        BY JobAssumption, <4>1, <4>2
      <4> QED
        BY JobAssumption, <4>2, <4>3
    <3> QED
      BY <3>1 DEF JobInv, TypeOK, QueueTypes, Feed
  <2>2. HeldByPlace'
    BY DEF JobInv, HeldByPlace, Feed
  <2> QED
    BY <2>1, <2>2
<1>3. StreamTypes'
  BY JobAssumption DEF JobInv, TypeOK, StreamTypes, ReadyToWrite, Feed
<1>4. ReadyToWrite'
  BY JobAssumption DEF JobInv, TypeOK, StreamTypes, ReadyToWrite,
    ContextTypes, Feed
<1>5. Signals'
  BY JobAssumption DEF JobInv, TypeOK, ContextTypes, StreamTypes, Signals,
    Running, Feed
<1> QED
  BY <1>1, <1>2, <1>3, <1>4, <1>5 DEF JobInv, TypeOK

(* Closing a queue leaves its content alone. *)
LEMMA CloserStep ==
  ASSUME JobInv, Closer
  PROVE  JobInv'
<1>1. ContextTypes'
  BY JobAssumption DEF JobInv, TypeOK, ContextTypes, Closer, CloseResult,
    CloseTask
<1>2. QueueTypes' /\ HeldByPlace'
  BY JobAssumption DEF JobInv, TypeOK, QueueTypes, HeldByPlace, Closer,
    CloseResult, CloseTask
<1>3. StreamTypes'
  BY JobAssumption DEF JobInv, TypeOK, StreamTypes, ReadyToWrite, Closer,
    CloseResult, CloseTask
<1>4. ReadyToWrite'
  BY JobAssumption DEF JobInv, TypeOK, StreamTypes, ReadyToWrite,
    ContextTypes, Closer, CloseResult, CloseTask
<1>5. Signals'
  BY JobAssumption DEF JobInv, TypeOK, ContextTypes, StreamTypes, Signals,
    Running, Closer, CloseResult, CloseTask
<1> QED
  BY <1>1, <1>2, <1>3, <1>4, <1>5 DEF JobInv, TypeOK

(* The direct goroutine writes its chunks and signals its end. *)
LEMMA DirectStep ==
  ASSUME JobInv, DirectLocal \/ DirectUpstream
  PROVE  JobInv'
<1>1. ContextTypes'
  <2>1. /\ UNCHANGED <<reqDone, jobDone, watch, ended, clientGone, clientStalled>>
        /\ directDone' \in {directDone, TRUE} /\ panic' \in {panic, "nil response"}
    BY DEF DirectLocal, DirectUpstream, DirectCheck, DirectReply, DirectPanic,
      DirectCopy, DirectCut, DirectSignal
  <2> QED
    BY JobAssumption, <2>1 DEF JobInv, TypeOK, ContextTypes
<1>2. QueueTypes' /\ HeldByPlace'
  BY JobAssumption DEF JobInv, TypeOK, QueueTypes, HeldByPlace,
    DirectLocal, DirectUpstream, DirectCheck, DirectReply, DirectPanic,
    DirectCopy, Sent, Result, DirectCut, DirectSignal
<1>3. StreamTypes'
  <2>1. CASE DirectCheck
    BY JobAssumption, <2>1 DEF JobInv, TypeOK, StreamTypes,
      ReadyToWrite, DirectCheck
  <2>2. CASE DirectReply
    BY JobAssumption, <2>2 DEF JobInv, TypeOK, StreamTypes,
      ReadyToWrite, DirectReply
  <2>3. CASE DirectPanic
    BY JobAssumption, <2>3 DEF JobInv, TypeOK, StreamTypes,
      ReadyToWrite, DirectPanic
  <2>4. CASE DirectCopy
    <3>1. dnext \in 0..(NumChunks - 1) /\ reply \in {"range", "other"}
      BY JobAssumption, <2>4 DEF JobInv, TypeOK, StreamTypes, ReadyToWrite, DirectCopy
    <3>2. out' \in Seq(Pieces)
      BY <2>4, <3>1, SentType DEF JobInv, TypeOK, DirectCopy
    <3>3. dnext' \in 0..LeftStart
      BY JobAssumption, <2>4 DEF JobInv, TypeOK, StreamTypes, ReadyToWrite, DirectCopy
    <3> QED
      BY <2>4, <3>2, <3>3 DEF JobInv, TypeOK, StreamTypes, Pieces, DirectCopy
  <2>5. CASE DirectCut
    <3>1. dnext \in 0..(NumChunks - 1)
      BY JobAssumption, <2>5 DEF JobInv, TypeOK, StreamTypes, ReadyToWrite, DirectCut
    <3>2. out' \in Seq(Pieces)
      BY <2>5, <3>1, SentType DEF JobInv, TypeOK, DirectCut
    <3> QED
      BY <2>5, <3>2 DEF JobInv, TypeOK, StreamTypes, Pieces, DirectCut
  <2>6. CASE DirectSignal
    BY JobAssumption, <2>6 DEF JobInv, TypeOK, StreamTypes,
      ReadyToWrite, DirectSignal
  <2> QED
    BY <2>1, <2>2, <2>3, <2>4, <2>5, <2>6 DEF DirectLocal,
      DirectUpstream
<1>4. ReadyToWrite'
  <2>1. CASE DirectCheck
    <3>1. dpc' = "finished" \/ (dpc' = "request" /\ ~(dnext >= LeftStart))
      BY <2>1 DEF DirectCheck
    <3>2. dnext \in Nat /\ LeftStart \in Nat /\ dnext' = dnext
      BY JobAssumption, <2>1 DEF JobInv, TypeOK, StreamTypes, DirectCheck
    <3>3. dpc' # "copy" /\ (dpc' = "request" => dnext' < LeftStart)
      BY <3>1, <3>2
    <3>4. UNCHANGED <<mpc, next, pending, directDone>>
      BY <2>1 DEF DirectCheck
    <3> QED
      BY <3>3, <3>4 DEF JobInv, ReadyToWrite, Left
  <2>2. CASE DirectReply
    BY JobAssumption, <2>2 DEF JobInv, TypeOK, StreamTypes,
      ReadyToWrite, ContextTypes, DirectReply
  <2>3. CASE DirectPanic
    BY JobAssumption, <2>3 DEF JobInv, TypeOK, StreamTypes,
      ReadyToWrite, ContextTypes, DirectPanic
  <2>4. CASE DirectCopy
    BY JobAssumption, <2>4 DEF JobInv, TypeOK, StreamTypes,
      ReadyToWrite, ContextTypes, DirectCopy, Sent, Result
  <2>5. CASE DirectCut
    BY JobAssumption, <2>5 DEF JobInv, TypeOK, StreamTypes,
      ReadyToWrite, ContextTypes, DirectCut, Sent, Result
  <2>6. CASE DirectSignal
    BY JobAssumption, <2>6 DEF JobInv, TypeOK, StreamTypes,
      ReadyToWrite, ContextTypes, DirectSignal
  <2> QED
    BY <2>1, <2>2, <2>3, <2>4, <2>5, <2>6 DEF DirectLocal,
      DirectUpstream
<1>5. Signals'
  BY JobAssumption DEF JobInv, TypeOK, ContextTypes, StreamTypes, Signals,
    Running, DirectLocal, DirectUpstream, DirectCheck, DirectReply,
    DirectPanic, DirectCopy, Sent, Result, DirectCut, DirectSignal
<1> QED
  BY <1>1, <1>2, <1>3, <1>4, <1>5 DEF JobInv, TypeOK

(* A worker takes, downloads and returns one chunk at a time. *)
LEMMA WorkerStep ==
  ASSUME JobInv, NEW w \in Workers, WorkerLocal(w) \/ WorkerUpstream(w)
  PROVE  JobInv'
<1>1. ContextTypes'
  <2>1. /\ UNCHANGED <<contexts, watch, ended, clientGone, clientStalled>>
        /\ panic' \in {panic, "makeslice"}
    BY DEF WorkerLocal, WorkerUpstream, WorkerExit, WorkerTake, WorkerReply,
      Downloaded, WorkerAbort, WorkerPanic, WorkerSend
  <2> QED
    BY JobAssumption, <2>1 DEF JobInv, TypeOK, ContextTypes
<1>2. QueueTypes' /\ HeldByPlace'
  <2>1. CASE WorkerExit(w)
    BY JobAssumption, <2>1 DEF JobInv, TypeOK, QueueTypes, HeldByPlace,
      WorkerExit
  <2>2. CASE WorkerTake(w)
    BY JobAssumption, <2>2 DEF JobInv, TypeOK, QueueTypes, HeldByPlace,
      WorkerTake, Result, Left, Results, NoTask
  <2>3. CASE WorkerReply(w)
    BY JobAssumption, <2>3 DEF JobInv, TypeOK, QueueTypes, HeldByPlace,
      WorkerReply, Downloaded, Results
  <2>4. CASE WorkerAbort(w)
    BY JobAssumption, <2>4 DEF JobInv, TypeOK, QueueTypes, HeldByPlace,
      WorkerAbort, Downloaded, Results
  <2>5. CASE WorkerPanic(w)
    BY JobAssumption, <2>5 DEF JobInv, TypeOK, QueueTypes, HeldByPlace,
      WorkerPanic
  <2>6. CASE WorkerSend(w)
    BY JobAssumption, <2>6 DEF JobInv, TypeOK, QueueTypes, HeldByPlace,
      WorkerSend, NoTask
  <2> QED
    BY <2>1, <2>2, <2>3, <2>4, <2>5, <2>6 DEF WorkerLocal,
      WorkerUpstream
<1>3. StreamTypes'
  BY JobAssumption DEF JobInv, TypeOK, StreamTypes, ReadyToWrite,
    WorkerLocal, WorkerUpstream, WorkerExit, WorkerTake, Result, Left,
    Results, NoTask, WorkerReply, Downloaded, WorkerAbort, WorkerPanic,
    WorkerSend
<1>4. ReadyToWrite'
  BY JobAssumption DEF JobInv, TypeOK, StreamTypes, ReadyToWrite,
    ContextTypes, WorkerLocal, WorkerUpstream, WorkerExit, WorkerTake,
    Result, Left, Results, NoTask, WorkerReply, Downloaded, WorkerAbort,
    WorkerPanic, WorkerSend
<1>5. Signals'
  BY JobAssumption DEF JobInv, TypeOK, ContextTypes, StreamTypes, Signals,
    Running, WorkerLocal, WorkerUpstream, WorkerExit, WorkerTake, Result,
    Left, Results, NoTask, WorkerReply, Downloaded, WorkerAbort,
    WorkerPanic, WorkerSend
<1> QED
  BY <1>1, <1>2, <1>3, <1>4, <1>5 DEF JobInv, TypeOK

(* Main receives, writes and returns. *)
LEMMA MainStep ==
  ASSUME JobInv, Main
  PROVE  JobInv'
<1>1. ContextTypes'
  <2>1. /\ UNCHANGED <<reqDone, watch, clientGone, clientStalled, panic>>
        /\ jobDone' \in {jobDone, TRUE} /\ directDone' \in {directDone, TRUE}
        /\ ended' \in {ended, ~clientGone}
    BY DEF Main, MainCancelled, Return, MainReceive, MainFatal, MainSpin,
      MainWrite, MainWritten, MainWriteFails, ConnClose
  <2> QED
    BY JobAssumption, <2>1 DEF JobInv, TypeOK, ContextTypes
<1>2. QueueTypes' /\ HeldByPlace'
  <2>1. CASE MainCancelled
    BY JobAssumption, <2>1 DEF JobInv, TypeOK, QueueTypes, HeldByPlace,
      MainCancelled, Return
  <2>2. CASE MainReceive
    BY JobAssumption, <2>2 DEF JobInv, TypeOK, QueueTypes, HeldByPlace,
      MainReceive, Results
  <2>3. CASE MainFatal
    BY JobAssumption, <2>3 DEF JobInv, TypeOK, QueueTypes, HeldByPlace,
      MainFatal, Return
  <2>4. CASE MainSpin
    BY JobAssumption, <2>4 DEF JobInv, TypeOK, QueueTypes, HeldByPlace,
      MainSpin
  <2>5. CASE MainWrite
    BY JobAssumption, <2>5 DEF JobInv, TypeOK, QueueTypes, HeldByPlace,
      MainWrite
  <2>6. CASE MainWritten
    BY JobAssumption, <2>6 DEF JobInv, TypeOK, QueueTypes, HeldByPlace,
      MainWritten, Return, Sent, Result, Left, Remaining
  <2>7. CASE MainWriteFails
    BY JobAssumption, <2>7 DEF JobInv, TypeOK, QueueTypes, HeldByPlace,
      MainWriteFails, Return
  <2>8. CASE ConnClose
    BY JobAssumption, <2>8 DEF JobInv, TypeOK, QueueTypes, HeldByPlace,
      ConnClose
  <2> QED
    BY <2>1, <2>2, <2>3, <2>4, <2>5, <2>6, <2>7, <2>8 DEF Main
<1>3. StreamTypes'
  <2>1. CASE MainCancelled
    BY JobAssumption, <2>1 DEF JobInv, TypeOK, StreamTypes,
      ReadyToWrite, MainCancelled, Return
  <2>2. CASE MainReceive
    <3>1. Head(resultCh) \in Results
      BY <2>2 DEF JobInv, TypeOK, QueueTypes, MainReceive
    <3>2. Head(resultCh).index \in Left /\ Head(resultCh).data \in {"range", "other"}
      BY <2>2, <3>1 DEF Results, MainReceive
    <3>3. pending' \in [Left -> {"none", "range", "other"}]
      BY <2>2, <3>2 DEF JobInv, TypeOK, StreamTypes, MainReceive
    <3> QED
      BY <2>2, <3>3 DEF JobInv, TypeOK, StreamTypes, MainReceive
  <2>3. CASE MainFatal
    BY JobAssumption, <2>3 DEF JobInv, TypeOK, StreamTypes,
      ReadyToWrite, MainFatal, Return
  <2>4. CASE MainSpin
    BY JobAssumption, <2>4 DEF JobInv, TypeOK, StreamTypes,
      ReadyToWrite, MainSpin
  <2>5. CASE MainWrite
    BY JobAssumption, <2>5 DEF JobInv, TypeOK, StreamTypes,
      ReadyToWrite, MainWrite
  <2>6. CASE MainWritten
    <3>1. next \in Left /\ pending[next] \in {"range", "other"}
      BY <2>6 DEF JobInv, TypeOK, StreamTypes, ReadyToWrite, MainWritten
    <3>2. next \in 0..(NumChunks - 1) /\ next' \in LeftStart..NumChunks
      BY JobAssumption, <2>6, <3>1 DEF Left, MainWritten
    <3>3. out' \in Seq(Pieces)
      BY <2>6, <3>1, <3>2, SentType DEF JobInv, TypeOK, MainWritten
    <3>4. pending' \in [Left -> {"none", "range", "other"}]
      BY <2>6 DEF JobInv, TypeOK, StreamTypes, MainWritten
    <3>5. mpc' \in {"select", "returned"}
      BY <2>6 DEF MainWritten, Return
    <3> QED
      BY <2>6, <3>2, <3>3, <3>4, <3>5 DEF JobInv, TypeOK, StreamTypes, Pieces, MainWritten
  <2>7. CASE MainWriteFails
    BY JobAssumption, <2>7 DEF JobInv, TypeOK, StreamTypes,
      ReadyToWrite, MainWriteFails, Return
  <2>8. CASE ConnClose
    BY JobAssumption, <2>8 DEF JobInv, TypeOK, StreamTypes,
      ReadyToWrite, ConnClose
  <2> QED
    BY <2>1, <2>2, <2>3, <2>4, <2>5, <2>6, <2>7, <2>8 DEF Main
<1>4. ReadyToWrite'
  BY JobAssumption DEF JobInv, TypeOK, StreamTypes, ReadyToWrite,
    ContextTypes, Main, MainCancelled, Return, MainReceive, Results,
    MainFatal, MainSpin, MainWrite, MainWritten, Sent, Result, Left,
    Remaining, MainWriteFails, ConnClose
<1>5. Signals'
  BY JobAssumption DEF JobInv, TypeOK, ContextTypes, StreamTypes, Signals,
    Running, Main, MainCancelled, Return, MainReceive, Results, MainFatal,
    MainSpin, MainWrite, MainWritten, Sent, Result, Left, Remaining,
    MainWriteFails, ConnClose
<1> QED
  BY <1>1, <1>2, <1>3, <1>4, <1>5 DEF JobInv, TypeOK

(* The client and net/http act outside the job. *)
LEMMA OutsideStep ==
  ASSUME JobInv, HandlerReturned \/ ClientClose \/ ClientStall \/ UNCHANGED vars
  PROVE  JobInv'
<1>1. ContextTypes'
  BY JobAssumption DEF JobInv, TypeOK, ContextTypes, HandlerReturned,
    ClientClose, ClientStall
<1>2. QueueTypes' /\ HeldByPlace'
  BY JobAssumption DEF JobInv, TypeOK, QueueTypes, HeldByPlace,
    HandlerReturned, ClientClose, ClientStall
<1>3. StreamTypes'
  BY JobAssumption DEF JobInv, TypeOK, StreamTypes, ReadyToWrite,
    HandlerReturned, ClientClose, ClientStall
<1>4. ReadyToWrite'
  BY JobAssumption DEF JobInv, TypeOK, StreamTypes, ReadyToWrite,
    ContextTypes, HandlerReturned, ClientClose, ClientStall
<1>5. Signals'
  BY JobAssumption DEF JobInv, TypeOK, ContextTypes, StreamTypes, Signals,
    Running, HandlerReturned, ClientClose, ClientStall
<1> QED
  BY <1>1, <1>2, <1>3, <1>4, <1>5 DEF JobInv, TypeOK

(* Every step of every goroutine keeps the invariant. *)
THEOREM JobInvariant == Spec => []JobInv
<1>1. JobInv /\ [Next]_vars => JobInv'
  BY WatcherStep, FeedStep, CloserStep, DirectStep, WorkerStep, MainStep, OutsideStep
  DEF Next, Alive, Step, Terminated
<1> QED
  BY JobInit, <1>1, PTL DEF Spec

(* The channels, goroutines and the stream keep their types. *)
THEOREM JobTypes == Spec => []TypeOK
<1>1. JobInv => TypeOK
  BY DEF JobInv
<1> QED
  BY <1>1, JobInvariant, PTL

(* Main never writes to bufrw while the direct goroutine does: the stream  *)
(* needs no lock, whatever fails, leaves or is cancelled.                  *)
THEOREM JobExclusion == Spec => []WriterExclusion
<1>1. JobInv => WriterExclusion
  BY DEF JobInv, ReadyToWrite, Signals, Running, WriterExclusion
<1> QED
  BY <1>1, JobInvariant, PTL

-----------------------------------------------------------------------------
(* The order of what the client is sent. *)

(* Somebody reads what is written. *)
Listening == ~clientGone /\ mpc # "closed"

(* Nothing more is copied by the direct goroutine. *)
DirectOver == dpc \in {"finished", "exited"} \/ (dpc = "check" /\ reqDone)

(* m direct chunks, and the rest from LeftStart on. *)
InOrder(stream, m) ==
  /\ m \in 0..Len(stream) /\ m <= LeftStart
  /\ \A k \in 1..m : stream[k].index = k - 1
  /\ \A k \in (m + 1)..Len(stream) : stream[k].index = LeftStart + (k - m) - 1

(* Main begins behind the direct goroutine; while somebody listens, its    *)
(* position and that goroutine's tell what was sent.                       *)
OrderInv ==
  /\ \E m \in Nat : InOrder(out, m)
  /\ next > LeftStart \/ mpc = "writing" => DirectOver
  /\ Listening =>
       \E m \in Nat :
         /\ InOrder(out, m)
         /\ Len(out) = m + (next - LeftStart)
         /\ dpc \in {"check", "request", "copy"} => m = dnext

(* What a stream of pieces is after one more. *)
LEMMA OneMore ==
  ASSUME StreamTypes, NEW i \in 0..(NumChunks - 1), NEW d \in {"range", "other", "cut"},
         out' = Append(out, Result(i, d))
  PROVE  /\ Len(out) \in Nat /\ Len(out') = Len(out) + 1
         /\ out'[Len(out) + 1] = Result(i, d) /\ out'[Len(out) + 1].index = i
         /\ \A k \in 1..Len(out) : out'[k] = out[k]
<1>1. out \in Seq(Pieces) /\ Result(i, d) \in Pieces
  BY DEF StreamTypes, Pieces, Result
<1> HIDE DEF Pieces
<1>2. /\ Len(out) \in Nat /\ Len(out') = Len(out) + 1
      /\ out'[Len(out) + 1] = Result(i, d)
      /\ \A k \in 1..Len(out) : out'[k] = out[k]
  BY <1>1
<1> QED
  BY <1>2 DEF Result

(* One more direct chunk, as long as main has written none. *)
LEMMA DirectInOrder ==
  ASSUME StreamTypes, NEW i \in 0..(NumChunks - 1), NEW d \in {"range", "other", "cut"},
         out' = Append(out, Result(i, d)), InOrder(out, i), Len(out) = i, i + 1 <= LeftStart
  PROVE  InOrder(out', i + 1) /\ Len(out') = i + 1
<1>1. Len(out') = i + 1 /\ out'[i + 1].index = i /\ \A k \in 1..i : out'[k] = out[k]
  BY OneMore
<1>2. \A k \in 1..(i + 1) : out'[k].index = k - 1
  <2> TAKE k \in 1..(i + 1)
  <2>1. CASE k = i + 1
    BY <1>1, <2>1
  <2>2. CASE k \in 1..i
    BY <1>1, <2>2 DEF InOrder
  <2> QED
    BY <2>1, <2>2
<1> QED
  BY <1>1, <1>2 DEF InOrder

(* One more of the others, behind as many as main has written. *)
LEMMA LeftInOrder ==
  ASSUME StreamTypes, NEW i \in Left, NEW d \in {"range", "other", "cut"},
         out' = Append(out, Result(i, d)),
         NEW m \in Nat, InOrder(out, m), Len(out) = m + (i - LeftStart)
  PROVE  InOrder(out', m) /\ Len(out') = m + ((i + 1) - LeftStart)
<1>0. i \in 0..(NumChunks - 1) /\ LeftStart \in Nat /\ NumChunks \in Nat /\ i \in Nat
  BY JobAssumption DEF Left
<1>1. /\ Len(out) \in Nat /\ Len(out') = Len(out) + 1 /\ out'[Len(out) + 1].index = i
      /\ \A k \in 1..Len(out) : out'[k] = out[k]
  BY <1>0, OneMore
<1>2. /\ m \in 0..Len(out) /\ m <= LeftStart
      /\ \A k \in 1..m : out[k].index = k - 1
      /\ \A k \in (m + 1)..Len(out) : out[k].index = LeftStart + (k - m) - 1
  BY DEF InOrder
<1>3. \A k \in 1..m : out'[k].index = k - 1
  BY <1>1, <1>2
<1>4. \A k \in (m + 1)..Len(out') : out'[k].index = LeftStart + (k - m) - 1
  <2> TAKE k \in (m + 1)..Len(out')
  <2>1. CASE k = Len(out) + 1
    <3>1. LeftStart + (k - m) - 1 = i
      BY <1>0, <1>1, <2>1
    <3>2. out'[k].index = i
      BY <1>1, <2>1
    <3> QED
      BY <3>1, <3>2
  <2>2. CASE k \in (m + 1)..Len(out)
    <3>1. k \in 1..Len(out)
      BY <1>1, <2>2
    <3> QED
      BY <1>1, <1>2, <2>2, <3>1
  <2> QED
    BY <1>1, <1>2, <2>1, <2>2
<1>5. m \in 0..Len(out') /\ Len(out') = m + ((i + 1) - LeftStart)
  BY <1>0, <1>1, <1>2
<1> QED
  BY <1>2, <1>3, <1>4, <1>5 DEF InOrder

(* A step that sends nothing. *)
LEMMA SilentStep ==
  ASSUME OrderInv, out' = out, next' = next,
         Listening' => Listening,
         dpc' \in {"check", "request", "copy"} =>
           dpc \in {"check", "request", "copy"} /\ dnext' = dnext,
         next' > LeftStart \/ mpc' = "writing" => DirectOver'
  PROVE  OrderInv'
<1>1. \E m \in Nat : InOrder(out', m)
  BY DEF OrderInv
<1>2. ASSUME Listening'
      PROVE  \E m \in Nat :
               /\ InOrder(out', m)
               /\ Len(out') = m + (next' - LeftStart)
               /\ dpc' \in {"check", "request", "copy"} => m = dnext'
  BY <1>2 DEF OrderInv
<1> QED
  BY <1>1, <1>2 DEF OrderInv, InOrder

(* Every step keeps the order of the stream. *)
LEMMA OrderStep == JobInv /\ OrderInv /\ [Next]_vars => OrderInv'
<1> SUFFICES ASSUME JobInv, OrderInv, [Next]_vars PROVE OrderInv'
  OBVIOUS
<1>0. /\ StreamTypes /\ ContextTypes /\ ReadyToWrite
      /\ LeftStart \in Nat /\ NumChunks \in Nat /\ LeftStart <= NumChunks
      /\ dnext \in Nat /\ next \in Nat
  BY JobAssumption DEF JobInv, TypeOK, StreamTypes
<1>1. CASE \/ Watcher \/ Feed \/ Closer \/ HandlerReturned
           \/ ClientClose \/ ClientStall \/ UNCHANGED vars
           \/ \E w \in Workers : WorkerLocal(w) \/ WorkerUpstream(w)
  <2>1. /\ UNCHANGED <<mpc, next, out, dpc, dnext>>
        /\ UNCHANGED <<clientGone, reqDone>> \/ ClientClose \/ HandlerReturned
    <3>1. CASE ClientClose \/ HandlerReturned
      BY <3>1 DEF ClientClose, HandlerReturned
    <3>2. CASE Watcher \/ Feed \/ Closer \/ ClientStall \/ UNCHANGED vars
      BY <3>2 DEF Watcher, WatchRequest, WatchJob, WatchCancelDirect, Feed, Closer,
        CloseResult, CloseTask, ClientStall
    <3>3. CASE \E w \in Workers : WorkerLocal(w) \/ WorkerUpstream(w)
      BY <3>3 DEF WorkerLocal, WorkerUpstream, WorkerExit, WorkerTake, WorkerReply,
        Downloaded, WorkerAbort, WorkerPanic, WorkerSend
    <3> QED
      BY <1>1, <3>1, <3>2, <3>3
  <2>5. (clientGone => clientGone') /\ (reqDone => reqDone')
    <3>1. CASE UNCHANGED <<clientGone, reqDone>>
      BY <3>1
    <3>2. CASE ClientClose
      BY <3>2 DEF ClientClose
    <3>3. CASE HandlerReturned
      BY <3>3 DEF HandlerReturned
    <3> QED
      BY <2>1, <3>1, <3>2, <3>3
  <2>2. DirectOver => DirectOver'
    BY <2>1, <2>5 DEF DirectOver
  <2>3. next' > LeftStart \/ mpc' = "writing" => DirectOver'
    BY <2>1, <2>2 DEF OrderInv
  <2>4. Listening' => Listening
    BY <2>1, <2>5 DEF Listening
  <2> QED
    BY <2>1, <2>3, <2>4, SilentStep
<1>2. CASE DirectCheck \/ DirectReply \/ DirectPanic \/ DirectSignal
  <2>1. /\ UNCHANGED <<mpc, next, out, dnext, reqDone, clientGone>>
        /\ dpc' \in {"check", "request", "copy"} => dpc \in {"check", "request", "copy"}
        /\ DirectOver => DirectOver'
    BY <1>2 DEF DirectCheck, DirectReply, DirectPanic, DirectSignal, DirectOver
  <2>2. next' > LeftStart \/ mpc' = "writing" => DirectOver'
    BY <2>1 DEF OrderInv
  <2>3. Listening' => Listening
    BY <2>1 DEF Listening
  <2> QED
    BY <2>1, <2>2, <2>3, SilentStep
<1>3. CASE DirectCopy \/ DirectCut
  <2>1. PICK d \in {"range", "other", "cut"} : out' = Sent(dnext, d)
    BY <1>0, <1>3 DEF DirectCopy, DirectCut, StreamTypes, ReadyToWrite
  <2>2. /\ dpc = "copy" /\ ~DirectOver /\ dpc' \in {"check", "finished"}
        /\ dpc' = "check" => dnext' = dnext + 1
        /\ UNCHANGED <<mpc, next, clientGone>>
    BY <1>3 DEF DirectCopy, DirectCut, DirectOver
  <2>3. mpc # "writing" /\ next = LeftStart /\ dnext < LeftStart /\ dnext \in 0..(NumChunks - 1)
    BY <1>0, <2>2 DEF OrderInv, ReadyToWrite, StreamTypes
  <2>4. CASE ~Listening
    <3>1. out' = out /\ ~Listening'
      BY <2>1, <2>2, <2>4 DEF Sent, Listening
    <3>2. ~(next' > LeftStart \/ mpc' = "writing")
      BY <1>0, <2>2, <2>3
    <3> QED
      BY <3>1, <3>2 DEF OrderInv
  <2>5. CASE Listening
    <3>1. out' = Append(out, Result(dnext, d))
      BY <2>1, <2>5 DEF Sent, Listening
    <3>2. InOrder(out, dnext) /\ Len(out) = dnext
      <4>1. PICK m \in Nat : /\ InOrder(out, m)
                             /\ Len(out) = m + (next - LeftStart)
                             /\ dpc \in {"check", "request", "copy"} => m = dnext
        BY <2>5 DEF OrderInv
      <4> QED
        BY <1>0, <2>2, <2>3, <4>1
    <3>3. InOrder(out', dnext + 1) /\ Len(out') = dnext + 1
      BY <1>0, <2>3, <3>1, <3>2, DirectInOrder
    <3>4. Len(out') = (dnext + 1) + (next' - LeftStart) /\ dnext + 1 \in Nat
      BY <1>0, <2>2, <2>3, <3>3
    <3>5. ~(next' > LeftStart \/ mpc' = "writing")
      BY <1>0, <2>2, <2>3
    <3>6. dpc' \in {"check", "request", "copy"} => dnext + 1 = dnext'
      BY <2>2
    <3> QED
      BY <3>3, <3>4, <3>5, <3>6 DEF OrderInv
  <2> QED
    BY <2>4, <2>5
<1>4. CASE MainCancelled \/ MainReceive \/ MainFatal \/ MainSpin \/ MainWrite \/ MainWriteFails
           \/ ConnClose
  <2>1. UNCHANGED <<out, next, dpc, dnext, reqDone, clientGone>>
    BY <1>4 DEF MainCancelled, MainReceive, MainFatal, MainSpin, MainWrite, MainWriteFails,
      ConnClose, Return
  <2>2. Listening' => Listening
    BY <1>4, <2>1 DEF MainCancelled, MainReceive, MainFatal, MainSpin, MainWrite, MainWriteFails,
      ConnClose, Return, Listening
  <2>3. next' > LeftStart \/ mpc' = "writing" => DirectOver'
    <3>1. mpc' = "writing" => DirectOver
      <4>1. mpc' = "writing" => mpc = "writing" \/ (mpc = "select" /\ directDone)
        BY <1>4 DEF MainCancelled, MainReceive, MainFatal, MainSpin, MainWrite, MainWriteFails,
          ConnClose, Return
      <4>2. mpc = "select" /\ directDone => DirectOver
        BY <1>0 DEF JobInv, Signals, Running, DirectOver, StreamTypes
      <4> QED
        BY <4>1, <4>2 DEF OrderInv
    <3>2. DirectOver => DirectOver'
      BY <2>1 DEF DirectOver
    <3> QED
      BY <2>1, <3>1, <3>2 DEF OrderInv
  <2> QED
    BY <2>1, <2>2, <2>3, SilentStep
<1>5. CASE MainWritten
  <2>1. /\ mpc = "writing" /\ mpc' \in {"select", "returned"} /\ next' = next + 1
        /\ out' = Sent(next, pending[next])
        /\ UNCHANGED <<dpc, dnext, reqDone, clientGone>>
    BY <1>5 DEF MainWritten, Return
  <2>2. next \in Left /\ pending[next] \in {"range", "other"} /\ DirectOver
    BY <1>0, <2>1 DEF ReadyToWrite, StreamTypes, OrderInv
  <2>3. DirectOver'
    BY <2>1, <2>2 DEF DirectOver
  <2>4. CASE ~Listening
    <3>1. out' = out /\ ~Listening'
      BY <2>1, <2>4 DEF Sent, Listening
    <3> QED
      BY <2>3, <3>1 DEF OrderInv
  <2>5. CASE Listening
    <3>1. out' = Append(out, Result(next, pending[next]))
      BY <2>1, <2>5 DEF Sent, Listening
    <3>2. PICK m \in Nat : /\ InOrder(out, m)
                           /\ Len(out) = m + (next - LeftStart)
                           /\ dpc \in {"check", "request", "copy"} => m = dnext
      BY <2>5 DEF OrderInv
    <3>3. InOrder(out', m) /\ Len(out') = m + ((next + 1) - LeftStart)
      BY <1>0, <2>2, <3>1, <3>2, LeftInOrder
    <3> QED
      BY <2>1, <2>3, <3>2, <3>3 DEF OrderInv
  <2> QED
    BY <2>4, <2>5
<1> QED
  BY <1>1, <1>2, <1>3, <1>4, <1>5
  DEF Next, Alive, Step, Terminated, Main, DirectLocal, DirectUpstream

(* The order is kept from the first chunk on. *)
LEMMA OrderInvariant == Spec => []OrderInv
<1>1. Init => OrderInv
  <2> SUFFICES ASSUME Init PROVE OrderInv
    OBVIOUS
  <2>1. InOrder(out, 0) /\ Len(out) = 0 + (next - LeftStart) /\ ~(next > LeftStart)
    BY JobAssumption DEF Init, InOrder
  <2> QED
    BY <2>1 DEF Init, OrderInv
<1> QED
  BY <1>1, OrderStep, JobInvariant, PTL DEF Spec

(* Whatever order the workers finish in and whatever fails, the client is  *)
(* sent the direct chunks and then the others, each run without a gap.     *)
THEOREM JobOrder == Spec => []LeftOrder
<1>1. JobInv /\ OrderInv => LeftOrder
  <2> SUFFICES ASSUME JobInv, NEW m \in Nat, InOrder(out, m) PROVE LeftOrder
    BY DEF OrderInv
  <2> QED
    BY DEF InOrder, LeftOrder
<1> QED
  BY <1>1, JobInvariant, OrderInvariant, PTL

-----------------------------------------------------------------------------
(***************************************************************************)
(* NoChunkLost. A chunk moves from place to place and is never copied: a   *)
(* worker that is not busy holds none, so it holds one at most.            *)
(***************************************************************************)
With(i) == {w \in Workers : held[w].index = i}
At(q, i) == {k \in 1..Len(q) : q[k].index = i}

IdleHoldsNone == \A w \in Workers : wpc[w] \in {"select", "exited"} => held[w] = NoTask

LostInv == IdleHoldsNone /\ NoChunkLost

(* Both sets can be counted. *)
LEMMA WithFinite == \A i : IsFiniteSet(With(i)) /\ Cardinality(With(i)) \in Nat
<1> SUFFICES ASSUME NEW i PROVE IsFiniteSet(With(i)) /\ Cardinality(With(i)) \in Nat
  OBVIOUS
<1>1. With(i) \in SUBSET Workers /\ IsFiniteSet(Workers)
  BY JobAssumption DEF With
<1>2. IsFiniteSet(With(i))
  BY <1>1, FS_Subset
<1> QED
  BY <1>2, FS_CardinalityType

LEMMA AtFinite ==
  ASSUME NEW q \in Seq(Results), NEW i
  PROVE  IsFiniteSet(At(q, i)) /\ Cardinality(At(q, i)) \in Nat
<1>1. Len(q) \in Int /\ 1 \in Int /\ At(q, i) \in SUBSET (1..Len(q))
  BY DEF At
<1>2. IsFiniteSet(1..Len(q))
  BY <1>1, FS_Interval
<1>3. IsFiniteSet(At(q, i))
  BY <1>1, <1>2, FS_Subset
<1> QED
  BY <1>3, FS_CardinalityType

(* A result behind the others of the queue. *)
LEMMA AppendCount ==
  ASSUME NEW q \in Seq(Results), NEW r \in Results, NEW i
  PROVE  Cardinality(At(Append(q, r), i)) = Cardinality(At(q, i)) + Count(r.index = i)
<1>1. /\ Append(q, r) \in Seq(Results) /\ Len(q) \in Nat
      /\ Len(Append(q, r)) = Len(q) + 1 /\ Append(q, r)[Len(q) + 1] = r
      /\ \A k \in 1..Len(q) : Append(q, r)[k] = q[k]
  OBVIOUS
<1>2. Len(q) + 1 \notin At(q, i)
  BY <1>1 DEF At
<1>3. CASE r.index = i
  <2>1. At(Append(q, r), i) = At(q, i) \cup {Len(q) + 1}
    BY <1>1, <1>3 DEF At
  <2>2. Cardinality(At(q, i) \cup {Len(q) + 1}) = Cardinality(At(q, i)) + 1
    BY <1>2, AtFinite, FS_AddElement
  <2> QED
    BY <1>3, <2>1, <2>2 DEF Count
<1>4. CASE r.index # i
  <2>1. At(Append(q, r), i) = At(q, i)
    BY <1>1, <1>4 DEF At
  <2> QED
    BY <1>4, <2>1, AtFinite DEF Count
<1> QED
  BY <1>3, <1>4

(* The first result leaves, the others move up. *)
LEMMA TailCount ==
  ASSUME NEW q \in Seq(Results), q # <<>>, NEW i
  PROVE  /\ Cardinality(At(q, i)) = Cardinality(At(Tail(q), i)) + Count(Head(q).index = i)
         /\ Cardinality(At(Tail(q), i)) \in Nat
<1> DEFINE S == At(Tail(q), i)
           T == At(q, i) \ {1}
           F == [k \in S |-> k + 1]
<1>1. /\ Tail(q) \in Seq(Results) /\ Len(q) \in Nat /\ Len(q) >= 1
      /\ Len(Tail(q)) = Len(q) - 1 /\ Head(q) = q[1]
      /\ \A k \in 1..Len(Tail(q)) : Tail(q)[k] = q[k + 1]
  OBVIOUS
<1>2. F \in Bijection(S, T)
  <2>1. \A k \in S : k \in Nat /\ k + 1 \in T
    BY <1>1 DEF At
  <2>2. \A n \in T : n - 1 \in S /\ F[n - 1] = n
    <3> TAKE n \in T
    <3>1. n \in 1..Len(q) /\ n # 1 /\ q[n].index = i
      BY DEF At
    <3>2. n - 1 \in 1..Len(Tail(q)) /\ (n - 1) + 1 = n
      BY <1>1, <3>1
    <3>3. Tail(q)[n - 1].index = i
      BY <1>1, <3>1, <3>2
    <3>4. n - 1 \in S
      BY <3>2, <3>3 DEF At
    <3> QED
      BY <3>2, <3>4
  <2>3. F \in [S -> T]
    BY <2>1
  <2>4. \A a, b \in S : F[a] = F[b] => a = b
    BY <2>1
  <2>5. \A n \in T : \E k \in S : F[k] = n
    BY <2>2
  <2> HIDE DEF F, S, T
  <2>6. F \in Injection(S, T)
    BY <2>3, <2>4 DEF Injection, IsInjective
  <2>7. F \in Surjection(S, T)
    BY <2>3, <2>5 DEF Surjection
  <2> QED
    BY <2>6, <2>7 DEF Bijection
<1>3. Cardinality(T) = Cardinality(S) /\ Cardinality(S) \in Nat
  <2>1. IsFiniteSet(S) /\ Cardinality(S) \in Nat
    BY <1>1, AtFinite
  <2>2. ExistsBijection(S, T)
    BY <1>2 DEF ExistsBijection
  <2> HIDE DEF S, T
  <2> QED
    BY <2>1, <2>2, FS_Bijection
<1>4. Cardinality(T) = IF 1 \in At(q, i) THEN Cardinality(At(q, i)) - 1 ELSE Cardinality(At(q, i))
  BY AtFinite, FS_RemoveElement
<1>5. Cardinality(At(q, i)) \in Nat
  BY AtFinite
<1>6. 1 \in At(q, i) <=> Head(q).index = i
  BY <1>1 DEF At
<1> QED
  BY <1>3, <1>4, <1>5, <1>6 DEF Count

(* Where chunk i is, counted. *)
Places(i) ==
  Count(i >= handed) + Cardinality(With(i)) + Cardinality(At(resultCh, i))
  + Count(pending[i] # "none") + Count(i < next)

LEMMA LostByPlaces == NoChunkLost <=> (Running => \A i \in Left : Places(i) = 1)
BY DEF NoChunkLost, Places, With, At

(* A step that moves no chunk. *)
LEMMA NothingMoves ==
  ASSUME NoChunkLost, Running' => Running, UNCHANGED <<handed, resultCh, pending, next>>,
         \A w \in Workers : held'[w].index = held[w].index
  PROVE  NoChunkLost'
<1>1. \A i : With(i)' = With(i)
  BY DEF With
<1>2. \A i : Places(i)' = Places(i)
  BY <1>1 DEF Places, At, Count
<1> QED
  BY <1>2 DEF NoChunkLost, Places, With, At

(* A worker takes a task: from the queue of tasks to the worker. *)
LEMMA TakeMoves ==
  ASSUME JobInv, LostInv, NEW w \in Workers, WorkerTake(w)
  PROVE  NoChunkLost'
<1>1. /\ handed \in Int /\ handed' = handed + 1 /\ held[w] = NoTask
      /\ held' = [held EXCEPT ![w] = Result(handed, "none")]
      /\ UNCHANGED <<resultCh, pending, next, mpc>>
      /\ DOMAIN held = Workers
  BY JobAssumption DEF JobInv, TypeOK, QueueTypes, LostInv, IdleHoldsNone, WorkerTake
<1> SUFFICES ASSUME Running, NEW i \in Left PROVE Places(i)' = Places(i)
  BY <1>1 DEF LostInv, Running, NoChunkLost, Places, With, At
<1>2. i \in Int /\ i # -1 /\ w \notin With(i)
  BY <1>1, JobAssumption DEF Left, With, NoTask
<1>3. CASE i = handed
  <2>1. With(i)' = With(i) \cup {w}
    BY <1>1, <1>3 DEF With, Result
  <2>2. Cardinality(With(i) \cup {w}) = Cardinality(With(i)) + 1
    BY <1>2, WithFinite, FS_AddElement
  <2>3. Count(i >= handed) = 1 /\ Count(i >= handed') = 0
    BY <1>1, <1>3 DEF Count
  <2>4. Cardinality(With(i)') = Cardinality(With(i)) + 1
    BY <2>1, <2>2
  <2>5. Count(i >= handed') + Cardinality(With(i)') = Count(i >= handed) + Cardinality(With(i))
    BY <2>3, <2>4, WithFinite
  <2> QED
    BY <1>1, <2>5 DEF Places, At
<1>4. CASE i # handed
  <2>1. With(i)' = With(i)
    BY <1>1, <1>2, <1>4 DEF With, Result, NoTask
  <2>2. Count(i >= handed') = Count(i >= handed)
    BY <1>1, <1>2, <1>4 DEF Count
  <2> QED
    BY <1>1, <2>1, <2>2 DEF Places, At
<1> QED
  BY <1>3, <1>4

(* A worker returns a result: from the worker to the result queue. *)
LEMMA SendMoves ==
  ASSUME JobInv, LostInv, NEW w \in Workers, WorkerSend(w)
  PROVE  NoChunkLost'
<1>1. /\ held[w] \in Results /\ resultCh \in Seq(Results)
      /\ resultCh' = Append(resultCh, held[w])
      /\ held' = [held EXCEPT ![w] = NoTask]
      /\ UNCHANGED <<handed, pending, next, mpc>>
      /\ DOMAIN held = Workers
  BY DEF JobInv, TypeOK, QueueTypes, HeldByPlace, WorkerSend
<1> SUFFICES ASSUME Running, NEW i \in Left PROVE Places(i)' = Places(i)
  BY <1>1 DEF LostInv, Running, NoChunkLost, Places, With, At
<1>2. i # -1
  BY JobAssumption DEF Left
<1>3. Cardinality(At(resultCh, i)') = Cardinality(At(resultCh, i)) + Count(held[w].index = i)
  <2>1. At(resultCh, i)' = At(Append(resultCh, held[w]), i)
    BY <1>1 DEF At
  <2> QED
    BY <1>1, <2>1, AppendCount
<1>4. Cardinality(With(i)) = Cardinality(With(i)') + Count(held[w].index = i)
  <2>1. With(i)' = With(i) \ {w}
    BY <1>1, <1>2 DEF With, NoTask
  <2>2. Cardinality(With(i) \ {w}) =
          IF w \in With(i) THEN Cardinality(With(i)) - 1 ELSE Cardinality(With(i))
    BY WithFinite, FS_RemoveElement
  <2>3. w \in With(i) <=> held[w].index = i
    BY DEF With
  <2> QED
    BY <2>1, <2>2, <2>3, WithFinite DEF Count
<1>5. /\ Cardinality(With(i)) \in Int /\ Cardinality(At(resultCh, i)) \in Int
      /\ Cardinality(With(i)') \in Int /\ Cardinality(At(resultCh, i)') \in Int
  <2>1. Count(held[w].index = i) \in Int
    BY DEF Count
  <2>2. Cardinality(With(i)) \in Int /\ Cardinality(At(resultCh, i)) \in Int
    BY <1>1, WithFinite, AtFinite
  <2>3. Cardinality(With(i)') \in Int
    <3>1. With(i)' = With(i) \ {w}
      BY <1>1, <1>2 DEF With, NoTask
    <3> QED
      BY <3>1, WithFinite, FS_RemoveElement, FS_CardinalityType
  <2>4. Cardinality(At(resultCh, i)') \in Int
    BY <1>3, <2>1, <2>2
  <2> QED
    BY <2>2, <2>3, <2>4
<1>6. Cardinality(With(i)) + Cardinality(At(resultCh, i)) =
      Cardinality(With(i)') + Cardinality(At(resultCh, i)')
  <2>1. Count(held[w].index = i) \in Int
    BY DEF Count
  <2> QED
    BY <1>3, <1>4, <1>5, <2>1
<1>7. Count(i >= handed) \in Int /\ Count(pending[i] # "none") \in Int /\ Count(i < next) \in Int
  BY DEF Count
<1>8. /\ Count(i >= handed)' = Count(i >= handed)
      /\ Count(pending[i] # "none")' = Count(pending[i] # "none")
      /\ Count(i < next)' = Count(i < next)
  BY <1>1 DEF Count
<1> QED
  BY <1>5, <1>6, <1>7, <1>8 DEF Places

(* Main receives a result: from the result queue to pending, where it     *)
(* replaces none.                                                          *)
LEMMA ReceiveMoves ==
  ASSUME JobInv, LostInv, MainReceive
  PROVE  NoChunkLost'
<1>1. /\ resultCh # <<>> /\ resultCh \in Seq(Results) /\ resultCh' = Tail(resultCh)
      /\ Head(resultCh).data # "error"
      /\ pending' = [pending EXCEPT ![Head(resultCh).index] = Head(resultCh).data]
      /\ UNCHANGED <<handed, held, next, mpc>>
  BY DEF JobInv, TypeOK, QueueTypes, MainReceive
<1>2. Head(resultCh) \in Results /\ DOMAIN pending = Left
  BY <1>1 DEF JobInv, TypeOK, StreamTypes
<1>3. Head(resultCh).data # "none"
  BY <1>2 DEF Results
<1> SUFFICES ASSUME Running, NEW i \in Left PROVE Places(i)' = Places(i)
  BY <1>1 DEF LostInv, Running, NoChunkLost, Places, With, At
<1>4. /\ Cardinality(At(resultCh, i)) =
           Cardinality(At(resultCh, i)') + Count(Head(resultCh).index = i)
      /\ Cardinality(At(resultCh, i)') \in Nat
  <2>1. At(resultCh, i)' = At(Tail(resultCh), i)
    BY <1>1 DEF At
  <2> QED
    BY <1>1, <2>1, TailCount
<1>5. Places(i) = 1
  BY LostByPlaces DEF LostInv
<1>6. /\ Count(i >= handed) \in Nat /\ Cardinality(With(i)) \in Nat
      /\ Count(pending[i] # "none") \in Nat /\ Count(i < next) \in Nat
  BY WithFinite DEF Count
<1>7. /\ Count(i >= handed)' = Count(i >= handed) /\ With(i)' = With(i)
      /\ Count(i < next)' = Count(i < next)
  BY <1>1 DEF Count, With
<1>8. CASE Head(resultCh).index = i
  <2>1. Cardinality(At(resultCh, i)) = Cardinality(At(resultCh, i)') + 1
    BY <1>4, <1>8 DEF Count
  <2>2. Count(pending[i] # "none") = 0
    BY <1>4, <1>5, <1>6, <2>1 DEF Places
  <2>3. Count(pending[i] # "none")' = 1
    BY <1>1, <1>2, <1>3, <1>8 DEF Count
  <2> QED
    BY <1>4, <1>6, <1>7, <2>1, <2>2, <2>3 DEF Places
<1>9. CASE Head(resultCh).index # i
  <2>1. Cardinality(At(resultCh, i)) = Cardinality(At(resultCh, i)')
    BY <1>4, <1>9 DEF Count
  <2>2. Count(pending[i] # "none")' = Count(pending[i] # "none")
    BY <1>1, <1>2, <1>9 DEF Count
  <2> QED
    BY <1>7, <2>1, <2>2 DEF Places
<1> QED
  BY <1>8, <1>9

(* Main has written a chunk: from pending to the written ones. *)
LEMMA WrittenMoves ==
  ASSUME JobInv, LostInv, MainWritten
  PROVE  NoChunkLost'
<1>1. /\ pending' = [pending EXCEPT ![next] = "none"] /\ next' = next + 1
      /\ UNCHANGED <<handed, held, resultCh>> /\ mpc = "writing" /\ Running
  BY DEF MainWritten, Running
<1>2. next \in Left /\ pending[next] # "none" /\ DOMAIN pending = Left
  BY <1>1 DEF JobInv, ReadyToWrite, TypeOK, StreamTypes
<1> SUFFICES ASSUME NEW i \in Left PROVE Places(i)' = Places(i)
  BY <1>1 DEF LostInv, NoChunkLost, Places, With, At
<1>3. i \in Int /\ next \in Int
  BY <1>2, JobAssumption DEF Left
<1>4. Count(pending[i] # "none")' + Count(i < next)' = Count(pending[i] # "none") + Count(i < next)
  <2>1. CASE i = next
    <3>1. Count(pending[i] # "none") = 1 /\ Count(pending[i] # "none")' = 0
      BY <1>1, <1>2, <2>1 DEF Count
    <3>2. Count(i < next) = 0 /\ Count(i < next)' = 1
      BY <1>1, <1>3, <2>1 DEF Count
    <3> QED
      BY <3>1, <3>2
  <2>2. CASE i # next
    <3>1. pending'[i] = pending[i] /\ (i < next' <=> i < next)
      BY <1>1, <1>2, <1>3, <2>2
    <3> QED
      BY <3>1 DEF Count
  <2> QED
    BY <2>1, <2>2
<1>5. /\ Count(i >= handed)' = Count(i >= handed) /\ With(i)' = With(i)
      /\ At(resultCh, i)' = At(resultCh, i)
  BY <1>1 DEF Count, With, At
<1>6. /\ Count(i >= handed) \in Nat /\ Cardinality(With(i)) \in Nat
      /\ Cardinality(At(resultCh, i)) \in Nat
      /\ Count(pending[i] # "none") \in Nat /\ Count(i < next) \in Nat
      /\ Count(pending[i] # "none")' \in Nat /\ Count(i < next)' \in Nat
  <2>1. resultCh \in Seq(Results)
    BY DEF JobInv, TypeOK, QueueTypes
  <2> QED
    BY <2>1, WithFinite, AtFinite DEF Count
<1> QED
  BY <1>4, <1>5, <1>6 DEF Places

(* Every step moves at most one chunk, from one place to the next. *)
LEMMA LostStep == JobInv /\ LostInv /\ [Next]_vars => LostInv'
<1> SUFFICES ASSUME JobInv, LostInv, [Next]_vars PROVE LostInv'
  OBVIOUS
<1>0. /\ held \in [Workers -> Results \cup [index : Left, data : {"none"}] \cup {NoTask}]
      /\ wpc \in [Workers -> {"select", "download", "send", "exited"}]
      /\ IdleHoldsNone /\ NoChunkLost
  BY DEF JobInv, TypeOK, QueueTypes, LostInv
<1>1. CASE \/ Watcher \/ Feed \/ Closer \/ DirectLocal \/ DirectUpstream
           \/ HandlerReturned \/ ClientClose \/ ClientStall \/ UNCHANGED vars
  <2>1. UNCHANGED <<handed, held, wpc, resultCh, pending, next, mpc>>
    BY <1>1 DEF Watcher, WatchRequest, WatchJob, WatchCancelDirect, Feed, Closer, CloseResult,
      CloseTask, DirectLocal, DirectUpstream, DirectCheck, DirectReply, DirectPanic, DirectCopy,
      DirectCut, DirectSignal, HandlerReturned, ClientClose, ClientStall
  <2>2. (Running' => Running) /\ IdleHoldsNone'
    BY <1>0, <2>1 DEF Running, IdleHoldsNone
  <2> QED
    BY <1>0, <2>1, <2>2, NothingMoves DEF LostInv
<1>2. ASSUME NEW w \in Workers, WorkerLocal(w) \/ WorkerUpstream(w)
      PROVE  LostInv'
  <2>1. CASE WorkerExit(w) \/ WorkerPanic(w)
    <3>1. /\ UNCHANGED <<handed, held, resultCh, pending, next, mpc>>
          /\ wpc' = wpc \/ (wpc[w] = "select" /\ wpc' = [wpc EXCEPT ![w] = "exited"])
      BY <2>1 DEF WorkerExit, WorkerPanic
    <3>2. (Running' => Running) /\ IdleHoldsNone'
      BY <1>0, <3>1 DEF Running, IdleHoldsNone
    <3> QED
      BY <1>0, <3>1, <3>2, NothingMoves DEF LostInv
  <2>2. CASE WorkerReply(w) \/ WorkerAbort(w)
    <3>1. PICK d : Downloaded(w, d)
      BY <2>2 DEF WorkerReply, WorkerAbort
    <3>2. /\ UNCHANGED <<handed, resultCh, pending, next, mpc>>
          /\ wpc' = [wpc EXCEPT ![w] = "send"] /\ held' = [held EXCEPT ![w].data = d]
      BY <3>1 DEF Downloaded
    <3>3. \A v \in Workers : v # w => held'[v] = held[v] /\ wpc'[v] = wpc[v]
      BY <1>0, <3>2
    <3>4. wpc'[w] = "send" /\ held'[w] = [held[w] EXCEPT !.data = d]
      BY <1>0, <3>2
    <3>5. held'[w].index = held[w].index
      BY <1>0, <3>4 DEF NoTask, Results
    <3>6. (Running' => Running) /\ IdleHoldsNone'
      BY <1>0, <3>2, <3>3, <3>4 DEF Running, IdleHoldsNone
    <3> QED
      BY <1>0, <3>2, <3>3, <3>5, <3>6, NothingMoves DEF LostInv
  <2>3. CASE WorkerTake(w)
    <3>1. IdleHoldsNone'
      BY <1>0, <2>3 DEF WorkerTake, IdleHoldsNone
    <3> QED
      BY <2>3, <3>1, TakeMoves DEF LostInv
  <2>4. CASE WorkerSend(w)
    <3>1. IdleHoldsNone'
      BY <1>0, <2>4 DEF WorkerSend, IdleHoldsNone
    <3> QED
      BY <2>4, <3>1, SendMoves DEF LostInv
  <2> QED
    BY <1>2, <2>1, <2>2, <2>3, <2>4 DEF WorkerLocal, WorkerUpstream
<1>3. CASE Main
  <2>1. IdleHoldsNone'
    <3>1. UNCHANGED <<held, wpc>>
      BY <1>3 DEF Main, MainCancelled, MainReceive, MainFatal, MainSpin, MainWrite,
        MainWritten, MainWriteFails, ConnClose
    <3> QED
      BY <1>0, <3>1 DEF IdleHoldsNone
  <2>2. CASE MainCancelled \/ MainFatal \/ MainWriteFails \/ ConnClose
    <3>1. ~Running'
      BY <2>2 DEF MainCancelled, MainFatal, MainWriteFails, ConnClose, Return, Running
    <3> QED
      BY <2>1, <3>1 DEF LostInv, NoChunkLost
  <2>3. CASE MainSpin \/ MainWrite
    <3>1. UNCHANGED <<handed, held, resultCh, pending, next>> /\ (Running' => Running)
      BY <2>3 DEF MainSpin, MainWrite, Running
    <3> QED
      BY <1>0, <2>1, <3>1, NothingMoves DEF LostInv
  <2>4. CASE MainReceive
    BY <2>1, <2>4, ReceiveMoves DEF LostInv
  <2>5. CASE MainWritten
    BY <2>1, <2>5, WrittenMoves DEF LostInv
  <2> QED
    BY <1>3, <2>2, <2>3, <2>4, <2>5 DEF Main
<1> QED
  BY <1>1, <1>2, <1>3 DEF Next, Alive, Step, Terminated

(* At the start every one of them waits to be handed out. *)
LEMMA LostInit == Init => LostInv
<1> SUFFICES ASSUME Init PROVE LostInv
  OBVIOUS
<1>1. IdleHoldsNone
  BY DEF Init, IdleHoldsNone
<1>2. \A i \in Left : Places(i) = 1
  <2> TAKE i \in Left
  <2>1. i \in Int /\ i # -1 /\ i >= handed /\ ~(i < next) /\ pending[i] = "none"
    BY JobAssumption DEF Init, Left
  <2>2. With(i) = {} /\ At(resultCh, i) = {}
    BY <2>1 DEF Init, With, At, NoTask
  <2>3. Cardinality(With(i)) = 0 /\ Cardinality(At(resultCh, i)) = 0
    BY <2>2, FS_EmptySet
  <2> QED
    BY <2>1, <2>3 DEF Places, Count
<1> QED
  BY <1>1, <1>2, LostByPlaces DEF LostInv

(* Where every chunk is, at all times. *)
LEMMA LostInvariant == Spec => []LostInv
  BY LostInit, LostStep, JobInvariant, PTL DEF Spec

(* While a job runs every chunk left to the workers is in exactly one      *)
(* place, for any number of workers and chunks.                            *)
THEOREM JobLosesNothing == Spec => []NoChunkLost
<1>1. LostInv => NoChunkLost
  BY DEF LostInv
<1> QED
  BY <1>1, LostInvariant, PTL

-----------------------------------------------------------------------------
(* The refinement: with upstreams that send the range asked for, or fail.  *)

PlainReplies ==
  /\ WorkerReplies \subseteq {"range", "error", "nolength"}
  /\ DirectReplies \subseteq {"range", "error"}
  /\ LeftStart < NumChunks

PlainData ==
  /\ reply \in {"none", "range"} /\ pending \in [Left -> {"none", "range"}]
  /\ \A w \in Workers : held[w].data \in {"none", "range", "error"}
  /\ \A k \in 1..Len(resultCh) : resultCh[k].data \in {"range", "error"}

(* While somebody listens both writers are where the stream is. *)
PlainStream ==
  Listening =>
    /\ ~reqDone
    /\ dpc \in {"finished", "exited"} => dnext = LeftStart
    /\ Len(out) = dnext + (next - LeftStart)
    /\ \A k \in 1..Len(out) : out[k] = Result(k - 1, "range")
    /\ ended <=> next = NumChunks

StreamInv == PlainData /\ PlainStream /\ (Running => ~ended)

(* One step of ChunkStream. *)
Delivers ==
  /\ ~ended /\ Len(out) < NumChunks
  /\ out' = Append(out, Result(Len(out), "range"))
  /\ ended' = (Len(out') = NumChunks)

(* Only what was asked for is held, queued and kept. *)
LEMMA PlainDataStep ==
  ASSUME PlainReplies, JobInv, PlainData, [Next]_vars
  PROVE  PlainData'
<1>1. CASE \/ Watcher \/ Feed \/ Closer \/ HandlerReturned
           \/ ClientClose \/ ClientStall \/ UNCHANGED vars
  BY <1>1 DEF PlainData, Watcher, WatchRequest, WatchJob, WatchCancelDirect, Feed, Closer,
    CloseResult, CloseTask, ClientClose, ClientStall, HandlerReturned
<1>2. CASE DirectLocal \/ DirectUpstream
  <2>1. reply' = reply \/ reply' = "none" \/ reply' \in DirectReplies \ {"error"}
    BY <1>2 DEF DirectLocal, DirectUpstream, DirectCheck, DirectReply, DirectPanic, DirectCopy,
      DirectCut, DirectSignal
  <2>2. UNCHANGED <<pending, held, resultCh>>
    BY <1>2 DEF DirectLocal, DirectUpstream, DirectCheck, DirectReply, DirectPanic, DirectCopy,
      DirectCut, DirectSignal
  <2> QED
    BY <2>1, <2>2 DEF PlainReplies, PlainData
<1>3. ASSUME NEW w \in Workers, WorkerLocal(w) \/ WorkerUpstream(w)
      PROVE  PlainData'
  <2>1. CASE WorkerExit(w) \/ WorkerPanic(w)
    BY <2>1 DEF PlainData, WorkerExit, WorkerPanic
  <2>2. CASE WorkerTake(w) \/ WorkerReply(w) \/ WorkerAbort(w)
    <3>1. UNCHANGED <<reply, pending, resultCh>>
      BY <2>2 DEF WorkerTake, WorkerReply, WorkerAbort, Downloaded
    <3>2. PICK d \in {"none", "range", "error"} :
            held' = [held EXCEPT ![w] = Result(handed, "none")] \/ held' = [held EXCEPT ![w].data = d]
      BY <2>2 DEF WorkerTake, WorkerReply, WorkerAbort, Downloaded, PlainReplies
    <3>3. held \in [Workers -> Results \cup [index : Left, data : {"none"}] \cup {NoTask}]
      BY DEF JobInv, TypeOK, QueueTypes
    <3>4. \A v \in Workers : held'[v].data \in {"none", "range", "error"}
      BY <3>2, <3>3 DEF PlainData, Result, Results, NoTask
    <3> QED
      BY <3>1, <3>4 DEF PlainData
  <2>3. CASE WorkerSend(w)
    <3>1. /\ UNCHANGED <<reply, pending>> /\ wpc[w] = "send"
          /\ resultCh' = Append(resultCh, held[w]) /\ held' = [held EXCEPT ![w] = NoTask]
      BY <2>3 DEF WorkerSend
    <3>2. held[w] \in Results /\ resultCh \in Seq(Results)
      BY <3>1 DEF JobInv, HeldByPlace, TypeOK, QueueTypes
    <3>3. held[w].data \in {"range", "error"}
      BY <3>2 DEF Results, PlainData
    <3>4. /\ Len(resultCh') = Len(resultCh) + 1 /\ Len(resultCh) \in Nat
          /\ resultCh'[Len(resultCh) + 1] = held[w]
          /\ \A k \in 1..Len(resultCh) : resultCh'[k] = resultCh[k]
      BY <3>1, <3>2
    <3>5. \A k \in 1..Len(resultCh') : resultCh'[k].data \in {"range", "error"}
      BY <3>3, <3>4 DEF PlainData
    <3>6. \A v \in Workers : held'[v].data \in {"none", "range", "error"}
      BY <3>1 DEF PlainData, NoTask, JobInv, TypeOK, QueueTypes
    <3> QED
      BY <3>1, <3>5, <3>6 DEF PlainData
  <2> QED
    BY <1>3, <2>1, <2>2, <2>3 DEF WorkerLocal, WorkerUpstream
<1>4. CASE MainCancelled \/ MainSpin \/ MainWrite \/ MainWriteFails \/ ConnClose
  BY <1>4 DEF PlainData, MainCancelled, MainSpin, MainWrite, MainWriteFails, ConnClose, Return
<1>5. CASE MainReceive \/ MainFatal
  <2>1. /\ resultCh # <<>> /\ resultCh' = Tail(resultCh) /\ UNCHANGED <<reply, held>>
        /\ \/ pending' = pending
           \/ /\ Head(resultCh).data # "error"
              /\ pending' = [pending EXCEPT ![Head(resultCh).index] = Head(resultCh).data]
    BY <1>5 DEF MainReceive, MainFatal, Return
  <2>2. resultCh \in Seq(Results)
    BY DEF JobInv, TypeOK, QueueTypes
  <2>3. /\ Head(resultCh) = resultCh[1] /\ 1 \in 1..Len(resultCh) /\ Len(resultCh) \in Nat
        /\ Len(resultCh') = Len(resultCh) - 1
        /\ \A k \in 1..Len(resultCh') : resultCh'[k] = resultCh[k + 1]
    BY <2>1, <2>2
  <2>4. \A k \in 1..Len(resultCh') : resultCh'[k].data \in {"range", "error"}
    BY <2>3 DEF PlainData
  <2>5. pending' \in [Left -> {"none", "range"}]
    <3>1. pending \in [Left -> {"none", "range"}] /\ Head(resultCh).data \in {"range", "error"}
      BY <2>3 DEF PlainData
    <3>2. pending' = pending \/ pending' = [pending EXCEPT ![Head(resultCh).index] = "range"]
      BY <2>1, <3>1
    <3> QED
      BY <3>1, <3>2
  <2> QED
    BY <2>1, <2>4, <2>5 DEF PlainData
<1>6. CASE MainWritten
  <2>1. UNCHANGED <<reply, held, resultCh>> /\ pending' = [pending EXCEPT ![next] = "none"]
    BY <1>6 DEF MainWritten
  <2>2. pending' \in [Left -> {"none", "range"}]
    BY <2>1 DEF PlainData
  <2> QED
    BY <2>1, <2>2 DEF PlainData
<1> QED
  BY <1>1, <1>2, <1>3, <1>4, <1>5, <1>6 DEF Next, Alive, Step, Terminated, Main

(* A step that sends nothing and ends nothing. *)
LEMMA PlainSilent ==
  ASSUME PlainStream, Running => ~ended,
         out' = out, ended' = ended, next' = next, dnext' = dnext,
         Listening' => Listening, Running' => Running, Listening' => reqDone' = reqDone,
         dpc' \in {"finished", "exited"} /\ Listening' =>
           dpc \in {"finished", "exited"} \/ dnext = LeftStart
  PROVE  PlainStream' /\ (Running' => ~ended')
<1>1. ASSUME Listening'
      PROVE  /\ ~reqDone'
             /\ dpc' \in {"finished", "exited"} => dnext' = LeftStart
             /\ Len(out') = dnext' + (next' - LeftStart)
             /\ \A k \in 1..Len(out') : out'[k] = Result(k - 1, "range")
             /\ ended' <=> next' = NumChunks
  <2>1. ~reqDone'
    BY <1>1 DEF PlainStream
  <2>2. dpc' \in {"finished", "exited"} => dnext' = LeftStart
    BY <1>1 DEF PlainStream
  <2>3. /\ Len(out') = dnext' + (next' - LeftStart)
        /\ \A k \in 1..Len(out') : out'[k] = Result(k - 1, "range")
    BY <1>1 DEF PlainStream
  <2>4. ended' <=> next' = NumChunks
    BY <1>1 DEF PlainStream
  <2> QED
    BY <2>1, <2>2, <2>3, <2>4
<1>2. PlainStream'
  BY <1>1 DEF PlainStream, Result
<1> QED
  BY <1>2

(* One more chunk of the file, behind those sent. *)
LEMMA PlainDeliver ==
  ASSUME JobInv, PlainStream, Listening, ~ended, NEW i \in 0..(NumChunks - 1), Len(out) = i,
         out' = Append(out, Result(i, "range")), ended' = (i + 1 = NumChunks)
  PROVE  /\ Delivers /\ Len(out') = i + 1
         /\ \A k \in 1..Len(out') : out'[k] = Result(k - 1, "range")
<1>0. NumChunks \in Nat /\ i \in Nat /\ i < NumChunks
  BY JobAssumption
<1>1. /\ Len(out') = i + 1 /\ out'[i + 1] = Result(i, "range")
      /\ \A k \in 1..i : out'[k] = out[k]
  BY OneMore DEF JobInv, TypeOK
<1>2. \A k \in 1..i : out[k] = Result(k - 1, "range")
  BY DEF PlainStream
<1>3. \A k \in 1..Len(out') : out'[k] = Result(k - 1, "range")
  <2> TAKE k \in 1..Len(out')
  <2>1. CASE k = i + 1
    BY <1>0, <1>1, <2>1
  <2>2. CASE k \in 1..i
    BY <1>1, <1>2, <2>2
  <2> QED
    BY <1>0, <1>1, <2>1, <2>2
<1>4. Delivers
  BY <1>0, <1>1 DEF Delivers
<1> QED
  BY <1>1, <1>3, <1>4

(* Every step sends the next chunk of the file or nothing, and the end     *)
(* with the last chunk and not before.                                     *)
LEMMA PlainStep ==
  ASSUME PlainReplies, JobInv, OrderInv, StreamInv, [Next]_vars
  PROVE  StreamInv' /\ (Delivers \/ UNCHANGED <<out, ended>>)
<1>0. /\ StreamTypes /\ ReadyToWrite /\ PlainStream /\ PlainData /\ (Running => ~ended)
      /\ LeftStart \in Nat \ {0} /\ NumChunks \in Nat /\ LeftStart < NumChunks
      /\ dnext \in 0..LeftStart /\ next \in LeftStart..NumChunks
  BY JobAssumption DEF JobInv, TypeOK, StreamTypes, StreamInv, PlainReplies
<1>b. ended \in BOOLEAN
  BY DEF JobInv, TypeOK, ContextTypes
<1>d. PlainData'
  BY <1>0, PlainDataStep
<1> SUFFICES PlainStream' /\ (Running' => ~ended') /\ (Delivers \/ UNCHANGED <<out, ended>>)
  BY <1>d DEF StreamInv
<1>1. CASE \/ Watcher \/ Feed \/ Closer \/ ClientStall \/ UNCHANGED vars
           \/ \E w \in Workers : WorkerLocal(w) \/ WorkerUpstream(w)
  <2>1. UNCHANGED <<mpc, next, out, ended, dpc, dnext, clientGone, reqDone>>
    BY <1>1 DEF Watcher, WatchRequest, WatchJob, WatchCancelDirect, Feed, Closer, CloseResult,
      CloseTask, ClientStall, WorkerLocal, WorkerUpstream, WorkerExit, WorkerTake, WorkerReply, Downloaded,
      WorkerAbort, WorkerPanic, WorkerSend
  <2>2. (Listening' => Listening) /\ (Running' => Running)
    BY <2>1 DEF Listening, Running
  <2>3. PlainStream' /\ (Running' => ~ended')
    BY <1>0, <2>1, <2>2, PlainSilent
  <2> QED
    BY <2>1, <2>3
<1>2. CASE ClientClose \/ HandlerReturned \/ ConnClose
  <2>1. UNCHANGED <<out, ended>> /\ ~Listening' /\ (Running' => Running)
    BY <1>2 DEF ClientClose, HandlerReturned, ConnClose, Listening, Running
  <2> QED
    BY <1>0, <2>1 DEF PlainStream
<1>3. CASE DirectCheck \/ DirectReply \/ DirectPanic \/ DirectSignal
  <2>1. UNCHANGED <<mpc, next, out, ended, dnext, clientGone, reqDone>>
    BY <1>3 DEF DirectCheck, DirectReply, DirectPanic, DirectSignal
  <2>2. (Listening' => Listening) /\ (Running' => Running)
    BY <2>1 DEF Listening, Running
  <2>3. dpc' \in {"finished", "exited"} /\ Listening' =>
          dpc \in {"finished", "exited"} \/ dnext = LeftStart
    <3>1. Listening' => ~reqDone
      BY <1>0, <2>2 DEF PlainStream
    <3>2. CASE DirectCheck
      <4>1. dpc' = "finished" => reqDone \/ dnext >= LeftStart
        BY <3>2 DEF DirectCheck
      <4>2. dpc' # "exited"
        BY <3>2 DEF DirectCheck
      <4>3. dnext >= LeftStart => dnext = LeftStart
        BY <1>0
      <4> QED
        BY <3>1, <4>1, <4>2, <4>3
    <3>3. CASE DirectReply \/ DirectPanic \/ DirectSignal
      BY <3>3 DEF DirectReply, DirectPanic, DirectSignal
    <3> QED
      BY <1>3, <3>2, <3>3
  <2>4. PlainStream' /\ (Running' => ~ended')
    BY <1>0, <2>1, <2>2, <2>3, PlainSilent
  <2> QED
    BY <2>1, <2>4
<1>4. CASE DirectCopy \/ DirectCut
  <2>1. /\ dpc = "copy" /\ ~DirectOver /\ UNCHANGED <<mpc, next, clientGone, reqDone, ended>>
        /\ next = LeftStart /\ mpc # "writing" /\ dnext < LeftStart
    <3>1. dpc = "copy" /\ ~DirectOver /\ UNCHANGED <<mpc, next, clientGone, reqDone, ended>>
      BY <1>4 DEF DirectCopy, DirectCut, DirectOver
    <3> QED
      BY <1>0, <3>1 DEF OrderInv, ReadyToWrite
  <2>2. CASE ~Listening
    <3>1. out' = out /\ ~Listening'
      BY <1>4, <2>1, <2>2 DEF DirectCopy, DirectCut, Sent, Listening
    <3>2. Running' => Running
      BY <2>1 DEF Running
    <3> QED
      BY <1>0, <2>1, <3>1, <3>2 DEF PlainStream
  <2>3. CASE Listening
    <3>1. ~reqDone /\ ~clientGone /\ mpc # "closed"
      BY <1>0, <2>3 DEF PlainStream, Listening
    <3>2. DirectCopy
      BY <1>0, <1>4, <3>1 DEF DirectCut, PlainData
    <3>3. /\ reply = "range" /\ dpc' = "check" /\ dnext' = dnext + 1
          /\ out' = Append(out, Result(dnext, "range"))
      BY <1>0, <2>1, <3>1, <3>2 DEF DirectCopy, Sent, PlainData, ReadyToWrite
    <3>4. Len(out) = dnext /\ dnext \in 0..(NumChunks - 1) /\ dnext + 1 # NumChunks
      BY <1>0, <2>1, <2>3 DEF PlainStream
    <3>5. ~ended
      BY <1>0, <2>1, <2>3 DEF PlainStream
    <3>6. ended' = (dnext + 1 = NumChunks)
      <4>1. ended' = FALSE
        BY <1>b, <2>1, <3>5
      <4> QED
        BY <3>4, <4>1
    <3>7. /\ Delivers /\ Len(out') = dnext + 1
          /\ \A k \in 1..Len(out') : out'[k] = Result(k - 1, "range")
      BY <1>0, <2>3, <3>3, <3>4, <3>5, <3>6, PlainDeliver
    <3>8. PlainStream'
      <4>1. ~reqDone' /\ ~ended' /\ next' # NumChunks
        BY <1>0, <2>1, <3>1, <3>5
      <4>2. dpc' \notin {"finished", "exited"}
        BY <3>3
      <4>3. Len(out') = dnext' + (next' - LeftStart)
        BY <1>0, <2>1, <3>3, <3>4, <3>7
      <4> QED
        BY <3>7, <4>1, <4>2, <4>3 DEF PlainStream, Result
    <3> QED
      BY <2>1, <3>5, <3>7, <3>8
  <2> QED
    BY <2>2, <2>3
<1>5. CASE MainCancelled \/ MainReceive \/ MainFatal \/ MainSpin \/ MainWrite \/ MainWriteFails
  <2>1. UNCHANGED <<out, ended, next, dpc, dnext, reqDone, clientGone>> /\ Running
    BY <1>5 DEF MainCancelled, MainReceive, MainFatal, MainSpin, MainWrite, MainWriteFails,
      Return, Running
  <2>2. Listening' => Listening
    BY <2>1 DEF Listening, Running
  <2>3. PlainStream' /\ (Running' => ~ended')
    BY <1>0, <2>1, <2>2, PlainSilent
  <2> QED
    BY <2>1, <2>3
<1>6. CASE MainWritten
  <2>1. /\ mpc = "writing" /\ next' = next + 1 /\ out' = Sent(next, pending[next])
        /\ UNCHANGED <<dpc, dnext, reqDone, clientGone>>
    BY <1>6 DEF MainWritten
  <2>2. /\ next \in Left /\ pending[next] = "range" /\ DirectOver
        /\ next \in LeftStart..(NumChunks - 1)
    BY <1>0, <2>1 DEF ReadyToWrite, PlainData, OrderInv, Left
  <2>3. ~ended
    BY <1>0, <2>1 DEF Running
  <2>4. CASE Remaining = 1
    <3>1. mpc' = "returned" /\ ended' = ~clientGone /\ next + 1 = NumChunks
      BY <1>0, <1>6, <2>2, <2>4 DEF MainWritten, Return, Remaining
    <3>2. CASE ~Listening
      <4>1. clientGone /\ out' = out
        BY <2>1, <3>2 DEF Listening, Sent
      <4>2. ended' = FALSE /\ ~Listening' /\ ~Running'
        BY <2>1, <3>1, <4>1 DEF Listening, Running
      <4>3. ended = FALSE
        BY <1>b, <2>3
      <4> QED
        BY <4>1, <4>2, <4>3 DEF PlainStream
    <3>3. CASE Listening
      <4>1. ended' = TRUE /\ ~reqDone /\ dpc # "check"
        BY <1>0, <2>2, <3>1, <3>3 DEF PlainStream, Listening, DirectOver
      <4>2. dpc \in {"finished", "exited"} /\ dnext = LeftStart
        BY <1>0, <2>2, <3>3, <4>1 DEF PlainStream, DirectOver
      <4>3. Len(out) = next /\ next \in 0..(NumChunks - 1)
        BY <1>0, <2>2, <3>3, <4>2 DEF PlainStream
      <4>4. out' = Append(out, Result(next, "range")) /\ ended' = (next + 1 = NumChunks)
        BY <2>1, <2>2, <3>1, <3>3, <4>1 DEF Sent, Listening
      <4>5. /\ Delivers /\ Len(out') = next + 1
            /\ \A k \in 1..Len(out') : out'[k] = Result(k - 1, "range")
        BY <1>0, <2>3, <3>3, <4>3, <4>4, PlainDeliver
      <4>6. Len(out') = dnext' + (next' - LeftStart) /\ dnext' = LeftStart
        BY <1>0, <2>1, <2>2, <4>2, <4>5
      <4>7. ~Running'
        BY <3>1 DEF Running
      <4> QED
        BY <2>1, <3>1, <4>1, <4>5, <4>6, <4>7 DEF PlainStream, Result
    <3> QED
      BY <3>2, <3>3
  <2>5. CASE Remaining # 1
    <3>1. mpc' = "select" /\ ended' = ended /\ next + 1 # NumChunks
      BY <1>0, <1>6, <2>2, <2>5 DEF MainWritten, Remaining
    <3>2. CASE ~Listening
      <4>1. out' = out /\ ~Listening'
        BY <2>1, <3>2 DEF Listening, Sent
      <4> QED
        BY <2>3, <3>1, <4>1 DEF PlainStream
    <3>3. CASE Listening
      <4>1. ~reqDone /\ dpc # "check"
        BY <1>0, <2>2, <3>3 DEF PlainStream, DirectOver
      <4>2. dpc \in {"finished", "exited"} /\ dnext = LeftStart
        BY <1>0, <2>2, <3>3, <4>1 DEF PlainStream, DirectOver
      <4>3. Len(out) = next /\ next \in 0..(NumChunks - 1)
        BY <1>0, <2>2, <3>3, <4>2 DEF PlainStream
      <4>4. out' = Append(out, Result(next, "range")) /\ ended' = (next + 1 = NumChunks)
        <5>1. out' = Append(out, Result(next, "range"))
          BY <2>1, <2>2, <3>3 DEF Sent, Listening
        <5>2. ended' = (next + 1 = NumChunks)
          <6>1. ended' = FALSE
            BY <1>b, <2>3, <3>1
          <6> QED
            BY <3>1, <6>1
        <5> QED
          BY <5>1, <5>2
      <4>5. /\ Delivers /\ Len(out') = next + 1
            /\ \A k \in 1..Len(out') : out'[k] = Result(k - 1, "range")
        BY <1>0, <2>3, <3>3, <4>3, <4>4, PlainDeliver
      <4>6. Len(out') = dnext' + (next' - LeftStart) /\ dnext' = LeftStart
        BY <1>0, <2>1, <2>2, <4>2, <4>5
      <4>7. ~ended' /\ next' # NumChunks /\ ~reqDone'
        BY <2>1, <2>3, <3>1, <4>1
      <4> QED
        BY <4>5, <4>6, <4>7 DEF PlainStream, Result
    <3> QED
      BY <3>2, <3>3
  <2> QED
    BY <2>4, <2>5
<1> QED
  BY <1>1, <1>2, <1>3, <1>4, <1>5, <1>6
  DEF Next, Alive, Step, Terminated, Main, DirectLocal, DirectUpstream

(* With upstreams that send the range asked for, or fail, whatever else    *)
(* happens: the client is sent a prefix of the file, and its end with the  *)
(* last chunk. A job implements ChunkStream.                               *)
THEOREM JobImplementsStream == ASSUME PlainReplies PROVE Spec => StreamSpec
<1>1. Init => StreamInv
  <2> SUFFICES ASSUME Init PROVE StreamInv
    OBVIOUS
  <2>1. PlainData
    BY DEF Init, PlainData, NoTask
  <2>2. PlainStream /\ (Running => ~ended)
    BY JobAssumption DEF Init, PlainStream, Listening, PlainReplies
  <2> QED
    BY <2>1, <2>2 DEF StreamInv
<1>2. JobInv /\ OrderInv /\ StreamInv /\ [Next]_vars => StreamInv'
  BY PlainStep
<1>3. Init => Stream!Init
  BY DEF Init, Stream!Init
<1>4. JobInv /\ OrderInv /\ StreamInv /\ [Next]_vars => [Stream!Next]_(Stream!vars)
  <2> SUFFICES ASSUME JobInv, OrderInv, StreamInv, [Next]_vars
               PROVE  [Stream!Next]_(Stream!vars)
    OBVIOUS
  <2>1. CASE UNCHANGED <<out, ended>>
    BY <2>1 DEF Stream!vars
  <2>2. CASE Delivers
    <3> DEFINE F == [k \in 1..NumChunks |-> Result(k - 1, "range")]
    <3>1. out \in Seq(Pieces) /\ Len(out) \in Nat /\ NumChunks \in Nat
      BY JobAssumption DEF JobInv, TypeOK, StreamTypes, Pieces
    <3>2. Len(F) = NumChunks
      BY <3>1
    <3>3. Len(out) < NumChunks => F[Len(out) + 1] = Result(Len(out), "range")
      BY <3>1
    <3>4. Stream!Deliver
      BY <2>2, <3>2, <3>3 DEF Delivers, Stream!Deliver
    <3> QED
      BY <3>4 DEF Stream!Next
  <2> QED
    BY <2>1, <2>2, PlainStep
<1> QED
  BY <1>1, <1>2, <1>3, <1>4, JobInvariant, OrderInvariant, PTL DEF Spec, StreamSpec, Stream!Spec

-----------------------------------------------------------------------------
(***************************************************************************)
(* No job stands still before its end. The argument: a watcher that is     *)
(* over has cancelled jobCtx, which main hears; a direct goroutine that is *)
(* over has cancelled DirectCtx; with every worker idle the next chunk is  *)
(* in no other place than pending (NoChunkLost), and main may write it.    *)
(***************************************************************************)
FlowInv ==
  /\ watch # "waiting" => jobDone
  /\ dpc = "exited" => directDone
  /\ ~Running => jobDone
  /\ Running => next < NumChunks

LEMMA FlowStep == JobInv /\ FlowInv /\ [Next]_vars => FlowInv'
<1> SUFFICES ASSUME JobInv, FlowInv, [Next]_vars PROVE FlowInv'
  OBVIOUS
<1>1. CASE Watcher
  BY <1>1 DEF FlowInv, Running, Watcher, WatchRequest, WatchJob, WatchCancelDirect
<1>2. CASE Feed \/ Closer \/ HandlerReturned \/ ClientClose \/ ClientStall \/ UNCHANGED vars
  BY <1>2 DEF FlowInv, Running, Feed, Closer, CloseResult, CloseTask,
    HandlerReturned, ClientClose, ClientStall
<1>3. CASE DirectLocal \/ DirectUpstream
  BY <1>3 DEF FlowInv, Running, DirectLocal, DirectUpstream, DirectCheck, DirectReply,
    DirectPanic, DirectCopy, DirectCut, DirectSignal
<1>4. ASSUME NEW w \in Workers, WorkerLocal(w) \/ WorkerUpstream(w)
      PROVE  FlowInv'
  <2>1. UNCHANGED <<watch, jobDone, directDone, dpc, mpc, next>>
    BY <1>4 DEF WorkerLocal, WorkerUpstream, WorkerExit, WorkerTake, WorkerReply, WorkerAbort,
      WorkerPanic, WorkerSend, Downloaded
  <2> QED
    BY <2>1 DEF FlowInv, Running
<1>5. CASE Main
  <2>1. CASE MainCancelled \/ MainFatal \/ MainWriteFails
    BY <2>1 DEF FlowInv, Running, MainCancelled, MainFatal, MainWriteFails, Return
  <2>2. CASE MainReceive \/ MainSpin \/ MainWrite \/ ConnClose
    BY <2>2 DEF FlowInv, Running, MainReceive, MainSpin, MainWrite, ConnClose
  <2>3. CASE MainWritten
    <3>1. CASE Remaining = 1
      BY <2>3, <3>1 DEF FlowInv, Running, MainWritten, Return
    <3>2. CASE Remaining # 1
      <4>1. next < NumChunks /\ next \in Int /\ NumChunks \in Int /\ next' = next + 1
        BY <2>3, JobAssumption DEF FlowInv, Running, MainWritten, JobInv, TypeOK, StreamTypes
      <4>2. next' < NumChunks
        BY <3>2, <4>1 DEF Remaining
      <4>3. mpc' = "select" /\ UNCHANGED <<jobDone, directDone, watch, dpc>>
        BY <2>3, <3>2 DEF MainWritten
      <4> QED
        BY <4>2, <4>3, <2>3 DEF FlowInv, Running, MainWritten
    <3> QED
      BY <3>1, <3>2
  <2> QED
    BY <1>5, <2>1, <2>2, <2>3 DEF Main
<1> QED
  BY <1>1, <1>2, <1>3, <1>4, <1>5 DEF Next, Alive, Step, Terminated

LEMMA FlowInvariant == ASSUME LeftStart < NumChunks PROVE Spec => []FlowInv
<1>1. Init => FlowInv
  BY DEF Init, FlowInv, Running
<1> QED
  BY <1>1, FlowStep, JobInvariant, PTL DEF Spec

(* When main waits and everything else does, the next chunk is at hand.    *)
LEMMA NextAtHand ==
  ASSUME JobInv, LostInv, FlowInv, mpc = "select", resultCh = <<>>, handed = NumChunks,
         \A w \in Workers : wpc[w] \in {"select", "exited"}
  PROVE  next \in Left /\ pending[next] # "none"
<1>1. /\ next \in Int /\ NumChunks \in Int /\ LeftStart \in Int
      /\ next >= LeftStart /\ next < NumChunks
  BY JobAssumption DEF FlowInv, Running, JobInv, TypeOK, StreamTypes
<1>2. next \in Left
  BY <1>1 DEF Left
<1>3. Places(next) = 1
  BY <1>2, LostByPlaces DEF LostInv, Running
<1>4. With(next) = {} /\ At(resultCh, next) = {}
  <2>1. \A w \in Workers : held[w].index = -1
    BY DEF LostInv, IdleHoldsNone, NoTask
  <2>2. next # -1
    BY <1>1, JobAssumption
  <2> QED
    BY <2>1, <2>2 DEF With, At
<1>5. Cardinality(With(next)) = 0 /\ Cardinality(At(resultCh, next)) = 0
  BY <1>4, FS_EmptySet
<1>6. Count(next >= handed) = 0 /\ Count(next < next) = 0
  BY <1>1 DEF Count
<1>7. Count(pending[next] # "none") = 1
  <2>1. Count(pending[next] # "none") \in Int
    BY DEF Count
  <2> QED
    BY <1>3, <1>5, <1>6, <2>1 DEF Places
<1> QED
  BY <1>2, <1>7 DEF Count

(* Whatever upstreams and client do, and in whatever order: a job with     *)
(* chunks left to the workers never comes to rest before it has returned   *)
(* and the goroutine that watches the client has ended.                    *)
THEOREM JobNeverStuck == ASSUME LeftStart < NumChunks PROVE Spec => []NobodyStuck
<1>1. ASSUME JobInv, LostInv, FlowInv
      PROVE  NobodyStuck
  <2> SUFFICES ASSUME AtRest, ~Waits PROVE mpc = "closed" /\ watch = "exited"
    BY DEF NobodyStuck
  <2>1. CASE mpc = "closed"
    BY <1>1, <2>1 DEF AtRest, FlowInv, Running
  <2>2. CASE mpc # "closed"
    <3>1. /\ mpc = "select" /\ ~jobDone /\ resultCh = <<>> /\ ~resultClosed
          /\ directDone => ~(next \in Left /\ pending[next] # "none")
      BY <2>2 DEF AtRest
    <3>2. directDone /\ dpc = "exited" /\ fed = NumChunks
      BY <1>1 DEF AtRest, FlowInv
    <3>3. \A w \in Workers : wpc[w] \in {"select", "exited"}
      <4>1. Len(resultCh) = 0 /\ ResultCap > 0 /\ ResultCap \in Nat
        BY <3>1, JobAssumption
      <4>2. \A w \in Workers : wpc[w] # "download" /\ wpc[w] # "send"
        BY <4>1 DEF AtRest
      <4> QED
        BY <1>1, <4>2 DEF JobInv, TypeOK, QueueTypes
    <3>4. PICK w \in Workers : wpc[w] = "select"
      <4>1. ~WaitGroupDone
        BY <3>1 DEF AtRest
      <4> QED
        BY <3>2, <3>3, <4>1 DEF WaitGroupDone
    <3>5. handed = NumChunks
      BY <3>2, <3>4 DEF AtRest
    <3> QED
      BY <1>1, <3>1, <3>2, <3>3, <3>5, NextAtHand
  <2> QED
    BY <2>1, <2>2
<1> QED
  BY <1>1, JobInvariant, LostInvariant, FlowInvariant, PTL

-----------------------------------------------------------------------------
(***************************************************************************)
(* Rest is the end of the file. With upstreams that answer and a client    *)
(* that stays nothing but the last chunk ends the loop; by NoChunkLost no  *)
(* worker and no queue holds anything then, so all the workers can leave.  *)
(***************************************************************************)
Undisturbed ==
  /\ LeftStart < NumChunks /\ Workers # {} /\ "error" \notin WorkerReplies
  /\ ~ClientLeaves /\ ~ClientStalls

AllDelivered ==
  /\ handed = NumChunks /\ resultCh = <<>>
  /\ \A w \in Workers : wpc[w] \in {"select", "exited"}

NothingFailed ==
  /\ ~reqDone /\ ~taskClosed /\ ~resultClosed
  /\ \A w \in Workers : wpc[w] # "exited" /\ held[w].data # "error"
  /\ \A k \in 1..Len(resultCh) : resultCh[k].data # "error"

CleanInv ==
  /\ ~clientGone /\ ~clientStalled
  /\ Running => NothingFailed
  /\ ~Running => ended /\ AllDelivered

(* Behind the last chunk there is none. *)
LEMMA LastIsLast ==
  ASSUME JobInv, LostInv, mpc = "writing", Remaining = 1
  PROVE  AllDelivered
<1>1. /\ next \in Left /\ next + 1 = NumChunks /\ handed \in Int /\ handed <= NumChunks
      /\ NumChunks \in Int /\ next \in Int /\ LeftStart \in Int
      /\ Left = LeftStart..(NumChunks - 1)
  BY JobAssumption DEF JobInv, ReadyToWrite, TypeOK, StreamTypes, QueueTypes, Left, Remaining
<1>2. ASSUME NEW i \in Left
      PROVE  Cardinality(With(i)) = 0 /\ Cardinality(At(resultCh, i)) = 0 /\ ~(i >= handed)
  <2>1. Places(i) = 1
    BY LostByPlaces DEF LostInv, Running
  <2>2. /\ Count(i >= handed) \in {0, 1} /\ Count(pending[i] # "none") \in {0, 1}
        /\ Count(i < next) \in {0, 1} /\ (Count(i >= handed) = 0 => ~(i >= handed))
    BY DEF Count
  <2>3. Cardinality(With(i)) \in Nat /\ Cardinality(At(resultCh, i)) \in Nat
    BY WithFinite, AtFinite DEF JobInv, TypeOK, QueueTypes
  <2>4. Count(pending[i] # "none") = 1 \/ Count(i < next) = 1
    <3>1. i = next \/ i < next
      BY <1>1
    <3>2. pending[next] # "none"
      BY DEF JobInv, ReadyToWrite
    <3> QED
      BY <3>1, <3>2 DEF Count
  <2> QED
    BY <2>1, <2>2, <2>3, <2>4 DEF Places
<1>3. handed = NumChunks
  BY <1>1, <1>2
<1>4. resultCh = <<>>
  <2> SUFFICES ASSUME resultCh # <<>> PROVE FALSE
    OBVIOUS
  <2>1. resultCh \in Seq(Results)
    BY DEF JobInv, TypeOK, QueueTypes
  <2>2. 1 \in 1..Len(resultCh) /\ resultCh[1] \in Results
    BY <2>1
  <2>3. resultCh[1].index \in Left /\ 1 \in At(resultCh, resultCh[1].index)
    BY <2>2 DEF Results, At
  <2>4. Cardinality(At(resultCh, resultCh[1].index)) = 0
    BY <1>2, <2>3
  <2> QED
    BY <2>1, <2>3, <2>4, AtFinite, FS_EmptySet
<1>5. ASSUME NEW w \in Workers PROVE wpc[w] \in {"select", "exited"}
  <2> SUFFICES ASSUME wpc[w] \in {"download", "send"} PROVE FALSE
    BY DEF JobInv, TypeOK, QueueTypes
  <2>1. held[w].index \in Left
    BY DEF JobInv, HeldByPlace, Results
  <2>2. w \in With(held[w].index)
    BY DEF With
  <2>3. Cardinality(With(held[w].index)) = 0
    BY <1>2, <2>1
  <2> QED
    BY <2>2, <2>3, WithFinite, FS_EmptySet
<1> QED
  BY <1>3, <1>4, <1>5 DEF AllDelivered

(* The workers of an undisturbed job fetch every chunk. *)
LEMMA CleanWorker ==
  ASSUME Undisturbed, JobInv, CleanInv, NEW w \in Workers, WorkerLocal(w) \/ WorkerUpstream(w)
  PROVE  CleanInv'
<1>0. /\ wpc \in [Workers -> {"select", "download", "send", "exited"}]
      /\ held \in [Workers -> Results \cup [index : Left, data : {"none"}] \cup {NoTask}]
      /\ resultCh \in Seq(Results) /\ handed \in LeftStart..fed /\ fed \in LeftStart..NumChunks
      /\ LeftStart \in Int /\ NumChunks \in Int
  BY JobAssumption DEF JobInv, TypeOK, QueueTypes
<1>1. UNCHANGED <<reqDone, jobDone, taskClosed, resultClosed, mpc, clientGone, clientStalled,
                  ended>>
  BY DEF WorkerLocal, WorkerUpstream, WorkerExit, WorkerTake, WorkerReply, WorkerAbort,
    WorkerPanic, WorkerSend, Downloaded
<1>2. Running' = Running
  BY <1>1 DEF Running
<1>3. CASE ~Running
  <2>1. AllDelivered /\ ended
    BY <1>3 DEF CleanInv
  <2>2. WorkerExit(w) \/ WorkerPanic(w)
    <3>1. ~(handed < fed)
      BY <1>0, <2>1 DEF AllDelivered
    <3>2. wpc[w] # "download" /\ wpc[w] # "send"
      BY <2>1 DEF AllDelivered
    <3> QED
      BY <3>1, <3>2 DEF WorkerLocal, WorkerUpstream, WorkerTake, WorkerReply, WorkerAbort,
        WorkerSend, Downloaded
  <2>3. AllDelivered'
    BY <1>0, <2>1, <2>2 DEF AllDelivered, WorkerExit, WorkerPanic
  <2> QED
    BY <1>1, <1>2, <1>3, <2>1, <2>3 DEF CleanInv
<1>4. CASE Running
  <2>1. NothingFailed /\ ~jobDone
    BY <1>4 DEF CleanInv, NothingFailed, JobInv, Signals
  <2>2. /\ \A v \in Workers : wpc'[v] # "exited" /\ held'[v].data # "error"
        /\ \A k \in 1..Len(resultCh') : resultCh'[k].data # "error"
    <3>1. CASE WorkerExit(w) \/ WorkerAbort(w)
      BY <2>1, <3>1 DEF WorkerExit, WorkerAbort, NothingFailed
    <3>2. CASE WorkerPanic(w)
      BY <2>1, <3>2 DEF WorkerPanic, NothingFailed
    <3>3. CASE WorkerTake(w)
      BY <1>0, <2>1, <3>3 DEF WorkerTake, NothingFailed, Result
    <3>4. CASE WorkerReply(w)
      <4>1. PICK d \in WorkerReplies \ {"nolength"} : Downloaded(w, d)
        BY <3>4 DEF WorkerReply
      <4>2. /\ held' = [held EXCEPT ![w].data = d] /\ wpc' = [wpc EXCEPT ![w] = "send"]
            /\ resultCh' = resultCh /\ d # "error"
        BY <4>1 DEF Downloaded, Undisturbed
      <4>3. held'[w].data = d /\ \A v \in Workers : v # w => held'[v] = held[v]
        BY <1>0, <4>2 DEF NoTask, Results
      <4>4. \A v \in Workers : wpc'[v] # "exited"
        BY <1>0, <2>1, <4>2 DEF NothingFailed
      <4> QED
        BY <2>1, <4>2, <4>3, <4>4 DEF NothingFailed
    <3>5. CASE WorkerSend(w)
      <4>1. /\ wpc[w] = "send" /\ resultCh' = Append(resultCh, held[w])
            /\ held' = [held EXCEPT ![w] = NoTask] /\ wpc' = [wpc EXCEPT ![w] = "select"]
        BY <3>5 DEF WorkerSend
      <4>2. held[w] \in Results /\ held[w].data # "error"
        BY <2>1, <4>1 DEF NothingFailed, JobInv, HeldByPlace
      <4>3. /\ Len(resultCh) \in Nat /\ Len(resultCh') = Len(resultCh) + 1
            /\ resultCh'[Len(resultCh) + 1] = held[w]
            /\ \A k \in 1..Len(resultCh) : resultCh'[k] = resultCh[k]
        BY <1>0, <4>1, <4>2
      <4>4. ASSUME NEW k \in 1..Len(resultCh') PROVE resultCh'[k].data # "error"
        <5>1. k = Len(resultCh) + 1 \/ k \in 1..Len(resultCh)
          BY <4>3
        <5> QED
          BY <2>1, <4>2, <4>3, <5>1 DEF NothingFailed
      <4> QED
        BY <1>0, <2>1, <4>1, <4>4 DEF NothingFailed, NoTask
    <3> QED
      BY <3>1, <3>2, <3>3, <3>4, <3>5 DEF WorkerLocal, WorkerUpstream
  <2> QED
    BY <1>1, <1>2, <1>4, <2>1, <2>2 DEF CleanInv, NothingFailed
<1> QED
  BY <1>3, <1>4

(* main only leaves the loop behind the last chunk. *)
LEMMA CleanMain ==
  ASSUME Undisturbed, JobInv, LostInv, CleanInv, Main
  PROVE  CleanInv'
<1>0. resultCh \in Seq(Results)
  BY DEF JobInv, TypeOK, QueueTypes
<1>1. UNCHANGED <<reqDone, taskClosed, resultClosed, clientGone, clientStalled, wpc, held, handed>>
  BY DEF Main, MainCancelled, MainReceive, MainFatal, MainSpin, MainWrite, MainWritten,
    MainWriteFails, ConnClose
<1>2. CASE ConnClose
  BY <1>2 DEF ConnClose, CleanInv, Running, AllDelivered
<1>3. CASE ~ConnClose
  <2>1. mpc \in {"select", "writing"}
    BY <1>3 DEF Main, MainCancelled, MainReceive, MainFatal, MainSpin, MainWrite, MainWritten,
      MainWriteFails
  <2>2. NothingFailed /\ ~jobDone /\ ~clientGone
    BY <2>1 DEF CleanInv, Running, NothingFailed, JobInv, Signals
  <2>3. ~MainCancelled /\ ~MainWriteFails
    BY <2>2 DEF MainCancelled, MainWriteFails, NothingFailed
  <2>4. ~MainFatal
    <3>1. resultCh # <<>> => 1 \in 1..Len(resultCh) /\ Head(resultCh) = resultCh[1]
      BY <1>0
    <3> QED
      BY <2>2, <3>1 DEF MainFatal, NothingFailed
  <2>5. CASE MainReceive
    <3>1. /\ resultCh' = Tail(resultCh) /\ resultCh # <<>> /\ mpc' = mpc
      BY <2>5 DEF MainReceive
    <3>2. \A k \in 1..Len(resultCh') : k + 1 \in 1..Len(resultCh) /\ resultCh'[k] = resultCh[k + 1]
      BY <1>0, <3>1
    <3>3. NothingFailed'
      BY <1>1, <2>2, <3>2 DEF NothingFailed
    <3> QED
      BY <1>1, <2>1, <2>2, <3>1, <3>3 DEF CleanInv, Running
  <2>6. CASE MainSpin \/ MainWrite
    <3>1. resultCh' = resultCh /\ mpc' \in {"select", "writing"}
      BY <2>1, <2>6 DEF MainSpin, MainWrite
    <3> QED
      BY <1>1, <2>2, <3>1 DEF CleanInv, Running, NothingFailed
  <2>7. CASE MainWritten
    <3>1. resultCh' = resultCh /\ mpc = "writing"
      BY <2>7 DEF MainWritten
    <3>2. CASE Remaining = 1
      <4>1. AllDelivered
        BY <3>1, <3>2, LastIsLast
      <4>2. mpc' = "returned" /\ ended' = TRUE
        BY <2>2, <2>7, <3>2 DEF MainWritten, Return
      <4>3. AllDelivered'
        BY <1>1, <3>1, <4>1 DEF AllDelivered
      <4> QED
        BY <1>1, <2>2, <4>2, <4>3 DEF CleanInv, Running
    <3>3. CASE Remaining # 1
      <4>1. mpc' = "select"
        BY <2>7, <3>3 DEF MainWritten
      <4> QED
        BY <1>1, <2>2, <3>1, <4>1 DEF CleanInv, Running, NothingFailed
    <3> QED
      BY <3>2, <3>3
  <2> QED
    BY <1>3, <2>3, <2>4, <2>5, <2>6, <2>7 DEF Main
<1> QED
  BY <1>2, <1>3

LEMMA CleanStep ==
  ASSUME Undisturbed
  PROVE  JobInv /\ LostInv /\ CleanInv /\ [Next]_vars => CleanInv'
<1> SUFFICES ASSUME JobInv, LostInv, CleanInv, [Next]_vars PROVE CleanInv'
  OBVIOUS
<1>1. CASE Watcher \/ Feed \/ DirectLocal \/ DirectUpstream \/ UNCHANGED vars
  <2>1. UNCHANGED <<reqDone, taskClosed, resultClosed, clientGone, clientStalled, wpc, held,
                    handed, resultCh, mpc, ended>>
    BY <1>1 DEF Watcher, WatchRequest, WatchJob, WatchCancelDirect, Feed, DirectLocal,
      DirectUpstream, DirectCheck, DirectReply, DirectPanic, DirectCopy, DirectCut, DirectSignal
  <2> QED
    BY <2>1 DEF CleanInv, Running, NothingFailed, AllDelivered
<1>2. CASE Closer
  <2>1. UNCHANGED <<reqDone, clientGone, clientStalled, wpc, held, handed, resultCh, mpc, ended>>
    BY <1>2 DEF Closer, CloseResult, CloseTask
  <2>2. ~Running
    <3> SUFFICES ASSUME Running PROVE FALSE
      OBVIOUS
    <3>1. NothingFailed
      BY DEF CleanInv
    <3>2. PICK w \in Workers : TRUE
      BY DEF Undisturbed
    <3> QED
      BY <1>2, <3>1, <3>2 DEF Closer, CloseResult, CloseTask, WaitGroupDone, NothingFailed
  <2> QED
    BY <2>1, <2>2 DEF CleanInv, Running, AllDelivered
<1>3. CASE HandlerReturned
  BY <1>3 DEF HandlerReturned, CleanInv, Running, AllDelivered
<1>4. ~ClientClose /\ ~ClientStall
  BY DEF ClientClose, ClientStall, Undisturbed
<1> QED
  BY <1>1, <1>2, <1>3, <1>4, CleanWorker, CleanMain DEF Next, Alive, Step, Terminated

(* Upstreams that answer and a client that stays: for any number of        *)
(* workers and chunks and any capacity of resultCh, the one state a job    *)
(* comes to rest in has the end of the file sent, taskCh closed, and every *)
(* goroutine it started has ended.                                         *)
THEOREM JobCompletesAtRest == ASSUME Undisturbed PROVE Spec => []RestIsComplete
<1>1. Init => CleanInv
  <2> SUFFICES ASSUME Init PROVE CleanInv
    OBVIOUS
  <2>1. ~reqDone /\ ~clientGone /\ ~clientStalled
    <3>1. ClientLeaves = FALSE
      BY JobAssumption DEF Undisturbed
    <3> QED
      BY <3>1 DEF Init
  <2> QED
    BY <2>1 DEF Init, CleanInv, Running, NothingFailed, NoTask
<1>2. ASSUME JobInv, FlowInv, CleanInv, NobodyStuck
      PROVE  RestIsComplete
  <2> SUFFICES ASSUME AtRest, panic = "none"
               PROVE  ended /\ taskClosed /\ watch = "exited"
    BY DEF RestIsComplete
  <2>1. mpc = "closed" /\ watch = "exited"
    BY <1>2 DEF NobodyStuck, CleanInv, Waits
  <2>2. ended /\ AllDelivered /\ jobDone
    BY <1>2, <2>1 DEF CleanInv, FlowInv, Running
  <2>3. \A w \in Workers : wpc[w] = "exited"
    BY <2>2 DEF AtRest, AllDelivered
  <2>4. WaitGroupDone
    BY <1>2, <2>3 DEF AtRest, WaitGroupDone, CleanInv, Waits
  <2> QED
    BY <2>1, <2>2, <2>4 DEF AtRest
<1>3. LeftStart < NumChunks
  BY DEF Undisturbed
<1> QED
  BY <1>1, <1>2, <1>3, CleanStep, JobInvariant, LostInvariant, FlowInvariant, JobNeverStuck, PTL
     DEF Spec

-----------------------------------------------------------------------------
(***************************************************************************)
(* No job runs for ever: StepsLeft is a natural number and falls. Its four *)
(* parts are looked at one by one; a step lowers one and raises none.      *)
(***************************************************************************)

(* The workers at a place can be counted. *)
LEMMA InFinite ==
  ASSUME NEW f, NEW p
  PROVE  IsFiniteSet(In(f, p)) /\ Cardinality(In(f, p)) \in Nat
<1>1. In(f, p) \in SUBSET Workers /\ IsFiniteSet(Workers)
  BY JobAssumption DEF In
<1>2. IsFiniteSet(In(f, p))
  BY <1>1, FS_Subset
<1> QED
  BY <1>2, FS_CardinalityType

(* All five parts are natural numbers. *)
NaturalParts ==
  /\ NumChunks - fed \in Nat /\ WorkLeft \in Nat /\ DirectLeft \in Nat
  /\ MainLeft \in Nat /\ EventsLeft \in Nat

LEMMA LeftTypes == JobInv => NaturalParts
<1> SUFFICES ASSUME JobInv PROVE NaturalParts
  OBVIOUS
<1>1. /\ fed \in LeftStart..NumChunks /\ handed \in LeftStart..fed /\ Len(resultCh) \in Nat
      /\ NumChunks \in Nat /\ LeftStart \in Nat
  BY JobAssumption DEF JobInv, TypeOK, QueueTypes
<1>2. NumChunks - handed \in Nat /\ NumChunks - fed \in Nat
  BY <1>1
<1>3. WorkLeft \in Nat
  BY <1>1, <1>2, InFinite DEF WorkLeft
<1>4. /\ dpc \in {"check", "request", "copy", "finished", "exited"} /\ dnext \in 0..LeftStart
      /\ mpc \in {"select", "writing", "returned", "closed"} /\ next \in LeftStart..NumChunks
  BY DEF JobInv, TypeOK, StreamTypes
<1>5. DirectLeft \in Nat
  <2>1. 3 * (LeftStart - dnext) \in Nat
    BY <1>1, <1>4
  <2> QED
    BY <1>4, <2>1 DEF DirectLeft
<1>6. MainLeft \in Nat
  <2>1. 2 * (NumChunks - next) \in Nat
    BY <1>1, <1>4
  <2> QED
    BY <1>4, <2>1 DEF MainLeft
<1>7. \A p : Count(p) \in Nat
  BY DEF Count
<1>8. EventsLeft \in Nat
  BY <1>7 DEF EventsLeft
<1> QED
  BY <1>2, <1>3, <1>5, <1>6, <1>8 DEF NaturalParts

(* Contexts, closed channels, the watcher and a panic do not come back. *)
LEMMA EventsFall ==
  ASSUME JobInv, JobInv',
         reqDone => reqDone', clientGone => clientGone',
         clientStalled => clientStalled', panic # "none" => panic' # "none",
         resultClosed => resultClosed', taskClosed => taskClosed',
         watch = "exited" => watch' = "exited", watch' = "waiting" => watch = "waiting"
  PROVE  /\ EventsLeft' <= EventsLeft
         /\ (~reqDone /\ reqDone') \/ (~clientGone /\ clientGone')
            \/ (~clientStalled /\ clientStalled') \/ (panic = "none" /\ panic' # "none")
            \/ (~resultClosed /\ resultClosed') \/ (~taskClosed /\ taskClosed')
            \/ (watch # "exited" /\ watch' = "exited")
            \/ (watch = "waiting" /\ watch' # "waiting")
            => EventsLeft' < EventsLeft
<1>1. /\ Count(~reqDone) \in Nat /\ Count(~reqDone') \in Nat
      /\ Count(~reqDone') <= Count(~reqDone)
      /\ ~reqDone /\ reqDone' => Count(~reqDone') < Count(~reqDone)
  BY DEF Count
<1>2. /\ Count(~clientGone) \in Nat /\ Count(~clientGone') \in Nat
      /\ Count(~clientGone') <= Count(~clientGone)
      /\ ~clientGone /\ clientGone' => Count(~clientGone') < Count(~clientGone)
  BY DEF Count
<1>3. /\ Count(panic = "none") \in Nat /\ Count(panic' = "none") \in Nat
      /\ Count(panic' = "none") <= Count(panic = "none")
      /\ panic = "none" /\ panic' # "none" => Count(panic' = "none") < Count(panic = "none")
  BY DEF Count
<1>4. /\ Count(~resultClosed) \in Nat /\ Count(~resultClosed') \in Nat
      /\ Count(~resultClosed') <= Count(~resultClosed)
      /\ ~resultClosed /\ resultClosed' => Count(~resultClosed') < Count(~resultClosed)
  BY DEF Count
<1>5. /\ Count(~taskClosed) \in Nat /\ Count(~taskClosed') \in Nat
      /\ Count(~taskClosed') <= Count(~taskClosed)
      /\ ~taskClosed /\ taskClosed' => Count(~taskClosed') < Count(~taskClosed)
  BY DEF Count
<1>6. /\ Count(watch # "exited") \in Nat /\ Count(watch' # "exited") \in Nat
      /\ Count(watch' # "exited") <= Count(watch # "exited")
      /\ watch # "exited" /\ watch' = "exited" => Count(watch' # "exited") < Count(watch # "exited")
  BY DEF Count
<1>7. /\ Count(watch = "waiting") \in Nat /\ Count(watch' = "waiting") \in Nat
      /\ Count(watch' = "waiting") <= Count(watch = "waiting")
      /\ watch = "waiting" /\ watch' # "waiting"
           => Count(watch' = "waiting") < Count(watch = "waiting")
  BY DEF Count
<1>17. /\ Count(~clientStalled) \in Nat /\ Count(~clientStalled') \in Nat
       /\ Count(~clientStalled') <= Count(~clientStalled)
       /\ ~clientStalled /\ clientStalled' => Count(~clientStalled') < Count(~clientStalled)
  BY DEF Count
<1>8. EventsLeft' = Count(~reqDone') + Count(~clientGone') + Count(~clientStalled') + Count(panic' = "none")
        + Count(~resultClosed') + Count(~taskClosed')
        + Count(watch' # "exited") + Count(watch' = "waiting")
  BY DEF EventsLeft, Count
<1>9. EventsLeft' <= EventsLeft
  BY <1>1, <1>2, <1>3, <1>4, <1>5, <1>6, <1>7, <1>17, <1>8 DEF EventsLeft
<1>10. CASE ~reqDone /\ reqDone'
  BY <1>1, <1>2, <1>3, <1>4, <1>5, <1>6, <1>7, <1>17, <1>8, <1>10 DEF EventsLeft
<1>11. CASE ~clientGone /\ clientGone'
  BY <1>1, <1>2, <1>3, <1>4, <1>5, <1>6, <1>7, <1>17, <1>8, <1>11 DEF EventsLeft
<1>12. CASE panic = "none" /\ panic' # "none"
  BY <1>1, <1>2, <1>3, <1>4, <1>5, <1>6, <1>7, <1>17, <1>8, <1>12 DEF EventsLeft
<1>13. CASE ~resultClosed /\ resultClosed'
  BY <1>1, <1>2, <1>3, <1>4, <1>5, <1>6, <1>7, <1>17, <1>8, <1>13 DEF EventsLeft
<1>14. CASE ~taskClosed /\ taskClosed'
  BY <1>1, <1>2, <1>3, <1>4, <1>5, <1>6, <1>7, <1>17, <1>8, <1>14 DEF EventsLeft
<1>15. CASE watch # "exited" /\ watch' = "exited"
  BY <1>1, <1>2, <1>3, <1>4, <1>5, <1>6, <1>7, <1>17, <1>8, <1>15 DEF EventsLeft
<1>16. CASE watch = "waiting" /\ watch' # "waiting"
  BY <1>1, <1>2, <1>3, <1>4, <1>5, <1>6, <1>7, <1>17, <1>8, <1>16 DEF EventsLeft
<1>18. CASE ~clientStalled /\ clientStalled'
  BY <1>1, <1>2, <1>3, <1>4, <1>5, <1>6, <1>7, <1>17, <1>8, <1>18 DEF EventsLeft
<1> QED
  BY <1>9, <1>10, <1>11, <1>18, <1>12, <1>13, <1>14, <1>15, <1>16

(* One part lower and none higher. *)
Lower ==
  \/ NumChunks - fed' < NumChunks - fed
  \/ WorkLeft' < WorkLeft \/ DirectLeft' < DirectLeft
  \/ MainLeft' < MainLeft \/ EventsLeft' < EventsLeft

NoneHigher ==
  /\ NumChunks - fed' <= NumChunks - fed
  /\ WorkLeft' <= WorkLeft /\ DirectLeft' <= DirectLeft
  /\ MainLeft' <= MainLeft /\ EventsLeft' <= EventsLeft

LEMMA PartsFall ==
  ASSUME JobInv, JobInv', NoneHigher, Lower
  PROVE  StepsLeft' < StepsLeft /\ StepsLeft' >= 0
<1> DEFINE f == NumChunks - fed
<1>1. NaturalParts /\ NaturalParts'
  BY LeftTypes, PTL
<1>2. /\ f \in Nat /\ WorkLeft \in Nat /\ DirectLeft \in Nat
      /\ MainLeft \in Nat /\ EventsLeft \in Nat
  BY <1>1 DEF NaturalParts
<1>3. /\ f' \in Nat /\ WorkLeft' \in Nat /\ DirectLeft' \in Nat
      /\ MainLeft' \in Nat /\ EventsLeft' \in Nat
  BY <1>1 DEF NaturalParts
<1>4. /\ f' <= f /\ WorkLeft' <= WorkLeft /\ DirectLeft' <= DirectLeft
      /\ MainLeft' <= MainLeft /\ EventsLeft' <= EventsLeft
  BY DEF NoneHigher
<1>5. /\ StepsLeft = f + WorkLeft + DirectLeft + MainLeft + EventsLeft
      /\ StepsLeft' = f' + WorkLeft' + DirectLeft' + MainLeft' + EventsLeft'
  BY DEF StepsLeft
<1>6. \/ f' < f \/ WorkLeft' < WorkLeft \/ DirectLeft' < DirectLeft
      \/ MainLeft' < MainLeft \/ EventsLeft' < EventsLeft
  BY DEF Lower
<1> HIDE DEF f
<1>7. PICK a, b, c, d, e : a = f /\ b = WorkLeft /\ c = DirectLeft /\ d = MainLeft /\ e = EventsLeft
  OBVIOUS
<1>8. PICK a2, b2, c2, d2, e2 : a2 = f' /\ b2 = WorkLeft' /\ c2 = DirectLeft' /\ d2 = MainLeft' /\ e2 = EventsLeft'
  OBVIOUS
<1>9. /\ a \in Nat /\ b \in Nat /\ c \in Nat /\ d \in Nat /\ e \in Nat
      /\ a2 \in Nat /\ b2 \in Nat /\ c2 \in Nat /\ d2 \in Nat /\ e2 \in Nat
  BY <1>2, <1>3, <1>7, <1>8, Zenon
<1>10. a2 <= a /\ b2 <= b /\ c2 <= c /\ d2 <= d /\ e2 <= e
  BY <1>4, <1>7, <1>8, Zenon
<1>11. a2 < a \/ b2 < b \/ c2 < c \/ d2 < d \/ e2 < e
  BY <1>6, <1>7, <1>8, Zenon
<1>12. a2 + b2 + c2 + d2 + e2 < a + b + c + d + e /\ a2 + b2 + c2 + d2 + e2 >= 0
  BY <1>9, <1>10, <1>11
<1>13. StepsLeft = a + b + c + d + e /\ StepsLeft' = a2 + b2 + c2 + d2 + e2
  BY <1>5, <1>7, <1>8, Zenon
<1> QED
  BY <1>12, <1>13, Zenon

(* What is not touched does not rise, and what is lower is not higher. *)
LEMMA SameParts ==
  ASSUME JobInv, JobInv'
  PROVE  /\ handed' = handed /\ wpc' = wpc /\ resultCh' = resultCh => WorkLeft' <= WorkLeft
         /\ dpc' = dpc /\ dnext' = dnext => DirectLeft' <= DirectLeft
         /\ mpc' = mpc /\ next' = next => MainLeft' <= MainLeft
         /\ fed' = fed => NumChunks - fed' <= NumChunks - fed
         /\ WorkLeft' < WorkLeft => WorkLeft' <= WorkLeft
         /\ DirectLeft' < DirectLeft => DirectLeft' <= DirectLeft
         /\ MainLeft' < MainLeft => MainLeft' <= MainLeft
         /\ EventsLeft' < EventsLeft => EventsLeft' <= EventsLeft
<1>1. NaturalParts /\ NaturalParts'
  BY LeftTypes, PTL
<1>2. handed' = handed /\ wpc' = wpc /\ resultCh' = resultCh => WorkLeft' = WorkLeft
  BY DEF WorkLeft, In
<1>3. dpc' = dpc /\ dnext' = dnext => DirectLeft' = DirectLeft
  BY DEF DirectLeft
<1>4. mpc' = mpc /\ next' = next => MainLeft' = MainLeft
  BY DEF MainLeft
<1>5. fed' = fed => NumChunks - fed' = NumChunks - fed
  OBVIOUS
<1> QED
  BY <1>1, <1>2, <1>3, <1>4, <1>5 DEF NaturalParts

(* A worker that moves is counted at its new place. *)
LEMMA WorkerMoves ==
  ASSUME DOMAIN wpc = Workers, NEW w \in Workers, NEW p, NEW q, wpc[w] = p, p # q,
         wpc' = [wpc EXCEPT ![w] = q]
  PROVE  /\ Cardinality(In(wpc', p)) = Cardinality(In(wpc, p)) - 1
         /\ Cardinality(In(wpc', q)) = Cardinality(In(wpc, q)) + 1
<1>1. In(wpc', p) = In(wpc, p) \ {w} /\ w \in In(wpc, p)
  BY DEF In
<1>2. In(wpc', q) = In(wpc, q) \cup {w} /\ w \notin In(wpc, q)
  BY DEF In
<1>3. IsFiniteSet(In(wpc, p)) /\ IsFiniteSet(In(wpc, q))
  BY InFinite
<1>4. Cardinality(In(wpc, p) \ {w}) = Cardinality(In(wpc, p)) - 1
  BY <1>1, <1>3, FS_RemoveElement
<1>5. Cardinality(In(wpc, q) \cup {w}) = Cardinality(In(wpc, q)) + 1
  BY <1>2, <1>3, FS_AddElement
<1> QED
  BY <1>1, <1>2, <1>4, <1>5, Zenon

(* A worker's step brings its chunk on, or ends the worker. *)
LEMMA WorkerFalls ==
  ASSUME JobInv, JobInv', panic = "none", NEW w \in Workers, WorkerLocal(w) \/ WorkerUpstream(w)
  PROVE  NoneHigher /\ Lower
<1>0. /\ DOMAIN wpc = Workers /\ resultCh \in Seq(Results) /\ Len(resultCh) \in Nat
      /\ handed \in Int /\ NumChunks \in Int
      /\ held \in [Workers -> Results \cup [index : Left, data : {"none"}] \cup {NoTask}]
  BY JobAssumption DEF JobInv, TypeOK, QueueTypes
<1>1. /\ UNCHANGED <<fed, dpc, dnext, mpc, next>>
      /\ UNCHANGED <<reqDone, clientGone, clientStalled, resultClosed, taskClosed, watch>>
  BY DEF WorkerLocal, WorkerUpstream, WorkerExit, WorkerTake, WorkerReply, WorkerAbort,
    WorkerPanic, WorkerSend, Downloaded
<1>2. CASE WorkerPanic(w)
  <2>1. panic' # "none" /\ UNCHANGED <<handed, wpc, resultCh>>
    BY <1>2 DEF WorkerPanic
  <2>2. EventsLeft' < EventsLeft
    BY <1>1, <2>1, EventsFall
  <2> QED
    BY <1>1, <2>1, <2>2, SameParts DEF NoneHigher, Lower
<1>3. CASE ~WorkerPanic(w)
  <2>0. \A p : Cardinality(In(wpc, p)) \in Nat
    BY InFinite
  <2> DEFINE d == Cardinality(In(wpc, "download"))
             n == Cardinality(In(wpc, "send"))
             t == Cardinality(In(wpc, "select"))
             l == Len(resultCh)
  <2>7. WorkLeft = 5 * (NumChunks - handed) + 5 * d + 4 * n + t + 2 * l
    BY DEF WorkLeft
  <2>8. d \in Nat /\ n \in Nat /\ t \in Nat /\ l \in Nat
    BY <1>0, <2>0
  <2> HIDE DEF d, n, t, l
  <2>1. ASSUME WorkerExit(w) PROVE WorkLeft' < WorkLeft
    <3>1. /\ wpc[w] = "select" /\ wpc' = [wpc EXCEPT ![w] = "exited"]
          /\ UNCHANGED <<panic, handed, resultCh>>
      BY <2>1 DEF WorkerExit
    <3>2. /\ Cardinality(In(wpc', "select")) = Cardinality(In(wpc, "select")) - 1
      BY <1>0, <3>1, WorkerMoves, Zenon
    <3>3. In(wpc', "download") = In(wpc, "download") /\ In(wpc', "send") = In(wpc, "send")
      BY <1>0, <3>1 DEF In
    <3>4. WorkLeft' = 5 * (NumChunks - handed) + 5 * d + 4 * n + (t - 1) + 2 * l
      BY <3>1, <3>2, <3>3, Zenon DEF WorkLeft, d, n, t, l
    <3>5. 5 * (NumChunks - handed) + 5 * d + 4 * n + (t - 1) + 2 * l
            < 5 * (NumChunks - handed) + 5 * d + 4 * n + t + 2 * l
      BY <1>0, <2>8
    <3> QED
      BY <2>7, <3>4, <3>5, Zenon
  <2>2. ASSUME WorkerTake(w) PROVE WorkLeft' < WorkLeft
    <3>1. /\ wpc[w] = "select" /\ wpc' = [wpc EXCEPT ![w] = "download"]
          /\ handed' = handed + 1 /\ UNCHANGED <<panic, resultCh>>
      BY <2>2 DEF WorkerTake
    <3>2. /\ Cardinality(In(wpc', "select")) = Cardinality(In(wpc, "select")) - 1
          /\ Cardinality(In(wpc', "download")) = Cardinality(In(wpc, "download")) + 1
      BY <1>0, <3>1, WorkerMoves, Zenon
    <3>3. In(wpc', "send") = In(wpc, "send")
      BY <1>0, <3>1 DEF In
    <3>4. WorkLeft' = 5 * (NumChunks - (handed + 1)) + 5 * (d + 1) + 4 * n + (t - 1) + 2 * l
      BY <3>1, <3>2, <3>3, Zenon DEF WorkLeft, d, n, t, l
    <3>5. 5 * (NumChunks - (handed + 1)) + 5 * (d + 1) + 4 * n + (t - 1) + 2 * l
            < 5 * (NumChunks - handed) + 5 * d + 4 * n + t + 2 * l
      BY <1>0, <2>8
    <3> QED
      BY <2>7, <3>4, <3>5, Zenon
  <2>3. ASSUME WorkerReply(w) \/ WorkerAbort(w) PROVE WorkLeft' < WorkLeft
    <3>1. /\ wpc[w] = "download" /\ wpc' = [wpc EXCEPT ![w] = "send"]
          /\ UNCHANGED <<panic, handed, resultCh>>
      BY <2>3 DEF WorkerReply, WorkerAbort, Downloaded
    <3>2. /\ Cardinality(In(wpc', "download")) = Cardinality(In(wpc, "download")) - 1
          /\ Cardinality(In(wpc', "send")) = Cardinality(In(wpc, "send")) + 1
      BY <1>0, <3>1, WorkerMoves, Zenon
    <3>3. In(wpc', "select") = In(wpc, "select")
      BY <1>0, <3>1 DEF In
    <3>4. WorkLeft' = 5 * (NumChunks - handed) + 5 * (d - 1) + 4 * (n + 1) + t + 2 * l
      BY <3>1, <3>2, <3>3, Zenon DEF WorkLeft, d, n, t, l
    <3>5. 5 * (NumChunks - handed) + 5 * (d - 1) + 4 * (n + 1) + t + 2 * l
            < 5 * (NumChunks - handed) + 5 * d + 4 * n + t + 2 * l
      BY <1>0, <2>8
    <3> QED
      BY <2>7, <3>4, <3>5, Zenon
  <2>4. ASSUME WorkerSend(w) PROVE WorkLeft' < WorkLeft
    <3>1. /\ wpc[w] = "send" /\ wpc' = [wpc EXCEPT ![w] = "select"]
          /\ resultCh' = Append(resultCh, held[w])
          /\ UNCHANGED <<panic, handed>>
      BY <2>4 DEF WorkerSend
    <3>2. /\ Cardinality(In(wpc', "send")) = Cardinality(In(wpc, "send")) - 1
          /\ Cardinality(In(wpc', "select")) = Cardinality(In(wpc, "select")) + 1
      BY <1>0, <3>1, WorkerMoves, Zenon
    <3>3. In(wpc', "download") = In(wpc, "download")
      BY <1>0, <3>1 DEF In
    <3>4. Len(resultCh') = Len(resultCh) + 1
      <4>1. held[w] \in Results
        BY <3>1 DEF JobInv, HeldByPlace
      <4> QED
        BY <1>0, <3>1, <4>1
    <3>5. WorkLeft' = 5 * (NumChunks - handed) + 5 * d + 4 * (n - 1) + (t + 1) + 2 * (l + 1)
      BY <3>1, <3>2, <3>3, <3>4, Zenon DEF WorkLeft, d, n, t, l
    <3>6. 5 * (NumChunks - handed) + 5 * d + 4 * (n - 1) + (t + 1) + 2 * (l + 1)
            < 5 * (NumChunks - handed) + 5 * d + 4 * n + t + 2 * l
      BY <1>0, <2>8
    <3> QED
      BY <2>7, <3>5, <3>6, Zenon
  <2>5. panic' = panic /\ WorkLeft' < WorkLeft
    <3>1. panic' = panic
      BY <1>3 DEF WorkerLocal, WorkerUpstream, WorkerExit, WorkerTake, WorkerReply, WorkerAbort,
        WorkerSend, Downloaded
    <3> QED
      BY <1>3, <2>1, <2>2, <2>3, <2>4, <3>1 DEF WorkerLocal, WorkerUpstream
  <2>6. EventsLeft' <= EventsLeft
    BY <1>1, <2>5, EventsFall
  <2> QED
    BY <1>1, <2>5, <2>6, SameParts DEF NoneHigher, Lower
<1> QED
  BY <1>2, <1>3

(* A cancellation passed on, a channel closed, a side that leaves. *)
LEMMA EventsOnly ==
  ASSUME JobInv, JobInv', Watcher \/ Closer \/ HandlerReturned \/ ClientClose \/ ClientStall
  PROVE  NoneHigher /\ Lower
<1>1. UNCHANGED <<fed, handed, wpc, resultCh, dpc, dnext, mpc, next, panic>>
  BY DEF Watcher, WatchRequest, WatchJob, WatchCancelDirect, Closer, CloseResult, CloseTask,
    HandlerReturned, ClientClose, ClientStall
<1>2. EventsLeft' < EventsLeft
  <2>1. CASE Watcher
    BY <1>1, <2>1, EventsFall DEF Watcher, WatchRequest, WatchJob, WatchCancelDirect
  <2>2. CASE Closer
    BY <1>1, <2>2, EventsFall DEF Closer, CloseResult, CloseTask
  <2>3. CASE HandlerReturned
    BY <1>1, <2>3, EventsFall DEF HandlerReturned
  <2>4. CASE ClientClose
    BY <1>1, <2>4, EventsFall DEF ClientClose
  <2>5. CASE ClientStall
    BY <1>1, <2>5, EventsFall DEF ClientStall
  <2> QED
    BY <2>1, <2>2, <2>3, <2>4, <2>5
<1> QED
  BY <1>1, <1>2, SameParts DEF NoneHigher, Lower

(* The feeder has one task less to put, or its panic ends the process. *)
LEMMA FeedFalls ==
  ASSUME JobInv, JobInv', panic = "none", Feed
  PROVE  NoneHigher /\ Lower
<1>1. /\ UNCHANGED <<handed, wpc, resultCh, dpc, dnext, mpc, next>>
      /\ UNCHANGED <<reqDone, clientGone, clientStalled, resultClosed, taskClosed, watch>>
  BY DEF Feed
<1>2. CASE taskClosed
  <2>1. panic' # "none" /\ fed' = fed
    BY <1>2 DEF Feed
  <2>2. EventsLeft' < EventsLeft
    BY <1>1, <2>1, EventsFall
  <2> QED
    BY <1>1, <2>1, <2>2, SameParts DEF NoneHigher, Lower
<1>3. CASE ~taskClosed
  <2>1. panic' = panic /\ fed' = fed + 1
    BY <1>3 DEF Feed
  <2>2. fed \in Int /\ NumChunks \in Int
    BY JobAssumption DEF JobInv, TypeOK, QueueTypes
  <2>3. NumChunks - fed' < NumChunks - fed /\ NumChunks - fed' <= NumChunks - fed
    BY <2>1, <2>2
  <2>4. EventsLeft' <= EventsLeft
    BY <1>1, <2>1, EventsFall
  <2> QED
    BY <1>1, <2>3, <2>4, SameParts DEF NoneHigher, Lower
<1> QED
  BY <1>2, <1>3

(* The direct goroutine's chunk comes on, or the goroutine nearer its end. *)
LEMMA DirectFalls ==
  ASSUME JobInv, JobInv', panic = "none", DirectLocal \/ DirectUpstream
  PROVE  NoneHigher /\ Lower
<1>1. /\ UNCHANGED <<fed, handed, wpc, resultCh, mpc, next>>
      /\ UNCHANGED <<reqDone, clientGone, clientStalled, resultClosed, taskClosed, watch>>
  BY DEF DirectLocal, DirectUpstream, DirectCheck, DirectReply, DirectPanic, DirectCopy,
    DirectCut, DirectSignal
<1>2. CASE DirectPanic
  <2>1. panic' # "none" /\ UNCHANGED <<dpc, dnext>>
    BY <1>2 DEF DirectPanic
  <2>2. EventsLeft' < EventsLeft
    BY <1>1, <2>1, EventsFall
  <2> QED
    BY <1>1, <2>1, <2>2, SameParts DEF NoneHigher, Lower
<1>3. CASE ~DirectPanic
  <2>0. /\ dnext \in Nat /\ LeftStart \in Nat /\ dnext <= LeftStart
        /\ dpc \in {"request", "copy"} => dnext < LeftStart
    BY JobAssumption DEF JobInv, TypeOK, StreamTypes, ReadyToWrite
  <2>1. ASSUME DirectCheck PROVE DirectLeft' < DirectLeft
    <3>1. /\ dpc = "check" /\ dnext' = dnext
          /\ dpc' = "finished" \/ (dpc' = "request" /\ dnext < LeftStart)
      BY <2>0, <2>1 DEF DirectCheck
    <3>2. DirectLeft = 3 * (LeftStart - dnext) + 2
      BY <3>1 DEF DirectLeft
    <3>3. CASE dpc' = "finished"
      <4>1. DirectLeft' = 1
        BY <3>3 DEF DirectLeft
      <4> QED
        BY <2>0, <3>2, <4>1
    <3>4. CASE dpc' = "request"
      <4>1. DirectLeft' = 3 * (LeftStart - dnext) + 1
        BY <3>1, <3>4 DEF DirectLeft
      <4> QED
        BY <2>0, <3>2, <4>1
    <3> QED
      BY <3>1, <3>3, <3>4
  <2>2. ASSUME DirectReply PROVE DirectLeft' < DirectLeft
    <3>1. dpc = "request" /\ dnext' = dnext /\ dpc' = "copy"
      BY <2>2 DEF DirectReply
    <3>2. /\ DirectLeft = 3 * (LeftStart - dnext) + 1
          /\ DirectLeft' = 3 * (LeftStart - dnext)
      BY <3>1 DEF DirectLeft
    <3> QED
      BY <2>0, <3>2
  <2>3. ASSUME DirectCopy PROVE DirectLeft' < DirectLeft
    <3>1. dpc = "copy" /\ dnext' = dnext + 1 /\ dpc' = "check"
      BY <2>3 DEF DirectCopy
    <3>2. /\ DirectLeft = 3 * (LeftStart - dnext)
          /\ DirectLeft' = 3 * (LeftStart - (dnext + 1)) + 2
      BY <3>1 DEF DirectLeft
    <3> QED
      BY <2>0, <3>2
  <2>4. ASSUME DirectCut PROVE DirectLeft' < DirectLeft
    <3>1. dpc = "copy" /\ dpc' = "finished" /\ dnext < LeftStart
      BY <2>0, <2>4 DEF DirectCut
    <3>2. DirectLeft = 3 * (LeftStart - dnext) /\ DirectLeft' = 1
      BY <3>1 DEF DirectLeft
    <3> QED
      BY <2>0, <3>1, <3>2
  <2>5. ASSUME DirectSignal PROVE DirectLeft' < DirectLeft
    <3>1. dpc = "finished" /\ dpc' = "exited"
      BY <2>5 DEF DirectSignal
    <3>2. DirectLeft = 1 /\ DirectLeft' = 0
      BY <3>1 DEF DirectLeft
    <3> QED
      BY <3>2
  <2>6. DirectLeft' < DirectLeft
    BY <1>3, <2>1, <2>2, <2>3, <2>4, <2>5 DEF DirectLocal, DirectUpstream
  <2>7. panic' = panic
    BY <1>3 DEF DirectLocal, DirectUpstream, DirectCheck, DirectReply, DirectCopy, DirectCut,
      DirectSignal
  <2>8. EventsLeft' <= EventsLeft
    BY <1>1, <2>7, EventsFall
  <2> QED
    BY <1>1, <2>6, <2>8, SameParts DEF NoneHigher, Lower
<1> QED
  BY <1>2, <1>3

(* Main takes a result, begins or ends a chunk, or returns: what it does   *)
(* in its loop without changing anything is MainSpin.                      *)
LEMMA MainFalls ==
  ASSUME JobInv, JobInv', Main, ~UNCHANGED vars
  PROVE  NoneHigher /\ Lower
<1>0. /\ next \in Nat /\ NumChunks \in Nat /\ next <= NumChunks
      /\ next \in Left => next < NumChunks
      /\ mpc = "writing" => next \in Left
  BY JobAssumption DEF JobInv, TypeOK, StreamTypes, ReadyToWrite, Left
<1>1. UNCHANGED <<fed, handed, wpc, dpc, dnext, reqDone, clientGone, clientStalled,
                 resultClosed, taskClosed, watch, panic>>
  BY DEF Main, MainCancelled, MainReceive, MainFatal, MainSpin, MainWrite, MainWritten,
    MainWriteFails, ConnClose, Return
<1>2. EventsLeft' <= EventsLeft
  BY <1>1, EventsFall
<1>3. CASE MainReceive \/ MainFatal
  <2>1. resultCh \in Seq(Results) /\ resultCh # <<>> /\ resultCh' = Tail(resultCh)
    BY <1>3 DEF MainReceive, MainFatal, JobInv, TypeOK, QueueTypes
  <2>2. Len(resultCh) \in Nat /\ Len(resultCh') = Len(resultCh) - 1
    BY <2>1
  <2>3. WorkLeft' < WorkLeft
    <3> DEFINE r == 5 * (NumChunks - handed) + 5 * Cardinality(In(wpc, "download"))
                      + 4 * Cardinality(In(wpc, "send")) + Cardinality(In(wpc, "select"))
               l == Len(resultCh)
    <3>1. r \in Int
      <4>1. handed \in Int
        BY JobAssumption DEF JobInv, TypeOK, QueueTypes
      <4>2. /\ Cardinality(In(wpc, "download")) \in Nat
            /\ Cardinality(In(wpc, "send")) \in Nat
            /\ Cardinality(In(wpc, "select")) \in Nat
        BY InFinite
      <4> QED
        BY <1>0, <4>1, <4>2
    <3>2. WorkLeft = r + 2 * l /\ WorkLeft' = r + 2 * (l - 1)
      BY <1>1, <2>2, Zenon DEF WorkLeft
    <3> HIDE DEF r
    <3>3. r + 2 * (l - 1) < r + 2 * l
      BY <2>2, <3>1
    <3> QED
      BY <3>2, <3>3, Zenon
  <2>4. MainLeft' <= MainLeft
    <3>1. CASE MainReceive
      BY <3>1, SameParts DEF MainReceive
    <3>2. CASE MainFatal
      <4>1. mpc = "select" /\ mpc' = "returned"
        BY <3>2 DEF MainFatal, Return
      <4>2. MainLeft = 2 * (NumChunks - next) + 3 /\ MainLeft' = 1
        BY <4>1 DEF MainLeft
      <4> QED
        BY <1>0, <4>2
    <3> QED
      BY <1>3, <3>1, <3>2
  <2> QED
    BY <1>1, <1>2, <2>3, <2>4, SameParts DEF NoneHigher, Lower
<1>4. CASE MainCancelled \/ MainWrite \/ MainWritten \/ MainWriteFails \/ ConnClose
  <2>1. ASSUME MainCancelled \/ MainWriteFails PROVE MainLeft' < MainLeft
    <3>1. mpc \in {"select", "writing"} /\ mpc' = "returned"
      BY <2>1 DEF MainCancelled, MainWriteFails, Return
    <3>2. MainLeft >= 2 * (NumChunks - next) + 2 /\ MainLeft' = 1
      BY <1>0, <3>1 DEF MainLeft
    <3> QED
      BY <1>0, <3>2, LeftTypes DEF NaturalParts
  <2>2. ASSUME MainWrite PROVE MainLeft' < MainLeft
    <3>1. mpc = "select" /\ mpc' = "writing" /\ next' = next
      BY <2>2 DEF MainWrite
    <3>2. /\ MainLeft = 2 * (NumChunks - next) + 3
          /\ MainLeft' = 2 * (NumChunks - next) + 2
      BY <3>1 DEF MainLeft
    <3> QED
      BY <1>0, <3>2
  <2>3. ASSUME MainWritten PROVE MainLeft' < MainLeft
    <3>1. /\ mpc = "writing" /\ next' = next + 1 /\ next < NumChunks
          /\ mpc' \in {"select", "returned"}
      BY <1>0, <2>3 DEF MainWritten, Return
    <3>2. MainLeft = 2 * (NumChunks - next) + 2
      BY <3>1 DEF MainLeft
    <3>3. MainLeft' = 1 \/ MainLeft' = 2 * (NumChunks - (next + 1)) + 3
      BY <3>1 DEF MainLeft
    <3> QED
      BY <1>0, <3>1, <3>2, <3>3
  <2>4. ASSUME ConnClose PROVE MainLeft' < MainLeft
    <3>1. mpc = "returned" /\ mpc' = "closed"
      BY <2>4 DEF ConnClose
    <3>2. MainLeft = 1 /\ MainLeft' = 0
      BY <3>1 DEF MainLeft
    <3> QED
      BY <3>2
  <2>5. MainLeft' < MainLeft
    BY <1>4, <2>1, <2>2, <2>3, <2>4
  <2>6. resultCh' = resultCh
    BY <1>4 DEF MainCancelled, MainWrite, MainWritten, MainWriteFails, ConnClose
  <2> QED
    BY <1>1, <1>2, <2>5, <2>6, SameParts DEF NoneHigher, Lower
<1>5. ~MainSpin
  BY DEF MainSpin
<1> QED
  BY <1>3, <1>4, <1>5 DEF Main

(* For any number of workers and chunks, any capacity and any behaviour of *)
(* upstreams and client, a job makes finitely many steps: every step but   *)
(* an idle turn of main's loop lowers StepsLeft, which is never negative.  *)
THEOREM JobAlwaysEnds == Spec => JobEnds
<1>1. ASSUME JobInv, JobInv', [Next]_vars
      PROVE  [StepsLeft' < StepsLeft /\ StepsLeft' >= 0]_vars
  <2> SUFFICES ASSUME Next, ~UNCHANGED vars
               PROVE  StepsLeft' < StepsLeft /\ StepsLeft' >= 0
    BY <1>1
  <2>1. panic = "none" /\ Step
    BY DEF Next, Alive, Terminated
  <2>2. NoneHigher /\ Lower
    <3>1. CASE Watcher \/ Closer \/ HandlerReturned \/ ClientClose \/ ClientStall
      BY <1>1, <3>1, EventsOnly
    <3>2. CASE Feed
      BY <1>1, <2>1, <3>2, FeedFalls
    <3>3. CASE DirectLocal \/ DirectUpstream
      BY <1>1, <2>1, <3>3, DirectFalls
    <3>4. CASE Main
      BY <1>1, <3>4, MainFalls
    <3>5. CASE \E w \in Workers : WorkerLocal(w) \/ WorkerUpstream(w)
      BY <1>1, <2>1, <3>5, WorkerFalls
    <3> QED
      BY <2>1, <3>1, <3>2, <3>3, <3>4, <3>5 DEF Step
  <2> QED
    BY <1>1, <2>2, PartsFall
<1> QED
  BY <1>1, JobInvariant, PTL DEF Spec, JobEnds

=============================================================================
