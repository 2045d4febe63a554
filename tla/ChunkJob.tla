------------------------------- MODULE ChunkJob -------------------------------
(***************************************************************************)
(* ChunksDeal after the split: one goroutine (direct) streams the leading  *)
(* chunks to the client, a pool of workers prefetches the others, the      *)
(* handler (main) writes those in order behind the direct ones.            *)
(*                                                                         *)
(* Chunks are numbered 0..NumChunks-1 as in ChunkPlan; 0..LeftStart-1 are  *)
(* the direct ones. A chunk's data is only told apart by what it is:       *)
(* "range" the bytes asked for, "other" another body of the upstream (the  *)
(* status of a reply is never looked at), "cut" a body that broke off.     *)
(***************************************************************************)
EXTENDS Integers, Sequences, FiniteSets

CONSTANTS
  Workers,        \* the chunkWorker goroutines, numWorkers - 1 of them
  NumChunks,      \* lenChunks
  LeftStart,      \* leftStart: number of direct chunks
  ResultCap,      \* capacity of resultCh, 2 * numWorkers
  WorkerReplies,  \* how an upstream may answer a worker
  DirectReplies,  \* how an upstream may answer the direct goroutine
  ClientLeaves,   \* may the client close its connection?
  ClientStalls    \* may it stay and stop reading?

ASSUME JobAssumption ==
  /\ IsFiniteSet(Workers)
  /\ NumChunks \in Nat /\ LeftStart \in 1..NumChunks
  /\ ResultCap \in Nat \ {0}
  /\ WorkerReplies \subseteq {"range", "other", "error", "nolength"}
  /\ DirectReplies \subseteq {"range", "other", "cut", "error"}
  /\ ClientLeaves \in BOOLEAN /\ ClientStalls \in BOOLEAN

VARIABLES
  reqDone, jobDone, directDone, \* r.Context(), jobCtx, DirectCtx are cancelled
  watch,      \* the goroutine that forwards cancellations
  fed,        \* the feeder has put the tasks LeftStart..fed-1 into taskCh
  handed,     \* and the workers took LeftStart..handed-1 out of it
  taskClosed, \* close(taskCh)
  wpc, held,  \* each worker's place, and its task and reply
  resultCh, resultClosed,
  dpc, dnext, reply, \* the direct goroutine's place, chunk and reply
  mpc, next,  \* main's place and the chunk it writes next
  pending,    \* chunks received and not yet written
  out,        \* the chunks the client was sent while it listened, in order
  ended,      \* the final chunk of length 0 was sent
  clientGone, \* the client has closed its connection
  clientStalled, \* the client reads no more and every buffer to it is full
  panic       \* what killed the process

contexts == <<reqDone, jobDone, directDone>>
channels == <<fed, handed, taskClosed, resultCh, resultClosed>>
workers == <<wpc, held>>
direct == <<dpc, dnext, reply>>
main == <<mpc, next, pending>>
client == <<out, ended, clientGone, clientStalled>>
vars == <<contexts, watch, channels, workers, direct, main, client, panic>>

Left == LeftStart..(NumChunks - 1)

(* Mutant of Remaining: the last chunk is not counted. *)
RemainingShort == NumChunks - 1 - next
Remaining == NumChunks - next

NoTask == [index |-> -1, data |-> "none"]
Result(i, d) == [index |-> i, data |-> d]

Init ==
  /\ reqDone \in {FALSE, ClientLeaves} \* the client may have left before Hijack
  /\ jobDone = FALSE /\ directDone = FALSE
  /\ watch = "waiting"
  /\ fed = LeftStart /\ handed = LeftStart /\ taskClosed = FALSE
  /\ wpc = [w \in Workers |-> "select"]
  /\ held = [w \in Workers |-> NoTask]
  /\ resultCh = <<>> /\ resultClosed = FALSE
  /\ dpc = "check" /\ dnext = 0 /\ reply = "none"
  /\ mpc = "select" /\ next = LeftStart
  /\ pending = [i \in Left |-> "none"]
  /\ out = <<>> /\ ended = FALSE
  /\ clientGone = reqDone /\ clientStalled = FALSE
  /\ panic = "none"

-----------------------------------------------------------------------------
(* The context watcher. It looks at one context and cancels the others.    *)

WatchRequest ==
  /\ watch = "waiting" /\ reqDone
  /\ jobDone' = TRUE
  /\ watch' = "cancelDirect"
  /\ UNCHANGED <<reqDone, directDone, channels, workers, direct, main, client, panic>>

WatchJob ==
  /\ watch = "waiting" /\ jobDone
  /\ watch' = "cancelDirect"
  /\ UNCHANGED <<contexts, channels, workers, direct, main, client, panic>>

WatchCancelDirect ==
  /\ watch = "cancelDirect"
  /\ directDone' = TRUE
  /\ watch' = "exited"
  /\ UNCHANGED <<reqDone, jobDone, channels, workers, direct, main, client, panic>>

(* The feeder: taskCh holds lenChunks tasks, so it never waits.            *)
Feed ==
  /\ fed < NumChunks
  /\ IF taskClosed
     THEN panic' = "send on closed channel" /\ UNCHANGED fed
     ELSE fed' = fed + 1 /\ UNCHANGED panic
  /\ UNCHANGED <<contexts, watch, handed, taskClosed, resultCh, resultClosed,
                 workers, direct, main, client>>

-----------------------------------------------------------------------------
(* chunkWorker *)

(* On jobCtx.Done(), or when a closed and empty taskCh yields no task. *)
WorkerExit(w) ==
  /\ wpc[w] = "select"
  /\ jobDone \/ (taskClosed /\ handed = fed)
  /\ wpc' = [wpc EXCEPT ![w] = "exited"]
  /\ UNCHANGED <<contexts, watch, channels, held, direct, main, client, panic>>

(* Mutant of WorkerTake: the task stays in the queue. *)
WorkerPeek(w) ==
  /\ wpc[w] = "select"
  /\ handed < fed
  /\ held' = [held EXCEPT ![w] = Result(handed, "none")]
  /\ wpc' = [wpc EXCEPT ![w] = "download"]
  /\ UNCHANGED <<contexts, watch, channels, direct, main, client, panic>>

WorkerTake(w) ==
  /\ wpc[w] = "select"
  /\ handed < fed
  /\ held' = [held EXCEPT ![w] = Result(handed, "none")]
  /\ handed' = handed + 1
  /\ wpc' = [wpc EXCEPT ![w] = "download"]
  /\ UNCHANGED <<contexts, watch, fed, taskClosed, resultCh, resultClosed,
                 direct, main, client, panic>>

(* downloadOneChunk ends with data d, or with an error. *)
Downloaded(w, d) ==
  /\ wpc[w] = "download"
  /\ held' = [held EXCEPT ![w].data = d]
  /\ wpc' = [wpc EXCEPT ![w] = "send"]
  /\ UNCHANGED <<contexts, watch, channels, direct, main, client, panic>>

(* The upstream answers, fails or breaks off. *)
WorkerReply(w) == \E d \in WorkerReplies \ {"nolength"} : Downloaded(w, d)

(* The cancelled jobCtx ends the download. *)
WorkerAbort(w) == jobDone /\ Downloaded(w, "error")

(* A reply without Content-Length: make([]byte, -1). *)
WorkerPanic(w) ==
  /\ wpc[w] = "download"
  /\ "nolength" \in WorkerReplies
  /\ panic' = "makeslice"
  /\ UNCHANGED <<contexts, watch, channels, workers, direct, main, client>>

(* Mutant of WorkerSend: a queue without capacity limit. *)
WorkerSendUnbounded(w) ==
  /\ wpc[w] = "send"
  /\ resultCh' = Append(resultCh, held[w])
  /\ held' = [held EXCEPT ![w] = NoTask]
  /\ wpc' = [wpc EXCEPT ![w] = "select"]
  /\ UNCHANGED <<contexts, watch, fed, handed, taskClosed, resultClosed,
                 direct, main, client, panic>>

(* The send on resultCh waits for room, whatever is cancelled meanwhile.   *)
WorkerSend(w) ==
  /\ wpc[w] = "send"
  /\ Len(resultCh) < ResultCap
  /\ resultCh' = Append(resultCh, held[w])
  /\ held' = [held EXCEPT ![w] = NoTask]
  /\ wpc' = [wpc EXCEPT ![w] = "select"]
  /\ UNCHANGED <<contexts, watch, fed, handed, taskClosed, resultClosed,
                 direct, main, client, panic>>

-----------------------------------------------------------------------------
(* DirectChunksWok, under r.Context() and not under DirectCtx. *)

(* wg.Done is the entry into "finished". *)
DirectCheck ==
  /\ dpc = "check"
  /\ dpc' = IF reqDone \/ dnext >= LeftStart THEN "finished" ELSE "request"
  /\ UNCHANGED <<contexts, watch, channels, workers, dnext, reply, main, client, panic>>

DirectReply ==
  /\ dpc = "request"
  /\ reply' \in DirectReplies \ {"error"}
  /\ dpc' = "copy"
  /\ UNCHANGED <<contexts, watch, channels, workers, dnext, main, client, panic>>

(* client.Do fails and leaves resp nil; resp.ContentLength is read anyway. *)
DirectPanic ==
  /\ dpc = "request"
  /\ reqDone \/ "error" \in DirectReplies
  /\ panic' = "nil response"
  /\ UNCHANGED <<contexts, watch, channels, workers, direct, main, client>>

(* What reaches the client: nothing more once either side has closed.      *)
Sent(i, d) == IF mpc = "closed" \/ clientGone THEN out ELSE Append(out, Result(i, d))

(* A write to bufrw has no deadline (the server sets none, and Hijack      *)
(* clears what there is): it waits for a client that stays and does not    *)
(* read, until the client leaves or the handler closes the connection.     *)
Waits ==
  /\ clientStalled /\ ~clientGone
  /\ mpc = "writing" \/ (dpc = "copy" /\ mpc # "closed")

(* Mutant of DirectCopy: next++ is missing. *)
DirectCopyAgain ==
  /\ dpc = "copy" /\ ~Waits
  /\ reply # "cut"
  /\ out' = Sent(dnext, reply)
  /\ dpc' = "check"
  /\ reply' = "none"
  /\ UNCHANGED <<contexts, watch, channels, workers, dnext, main, ended, clientGone,
                 clientStalled, panic>>

DirectCopy ==
  /\ dpc = "copy" /\ ~Waits
  /\ reply # "cut"
  /\ out' = Sent(dnext, reply)
  /\ dnext' = dnext + 1
  /\ dpc' = "check"
  /\ reply' = "none"
  /\ UNCHANGED <<contexts, watch, channels, workers, main, ended, clientGone,
                 clientStalled, panic>>

(* The copy breaks off: upstream, request context or client. A short body  *)
(* may end in buffers that still have room.                                *)
DirectCut ==
  /\ dpc = "copy"
  /\ reply = "cut" \/ reqDone \/ clientGone \/ mpc = "closed"
  /\ out' = Sent(dnext, "cut")
  /\ dpc' = "finished"
  /\ reply' = "none"
  /\ UNCHANGED <<contexts, watch, channels, workers, dnext, main, ended, clientGone,
                 clientStalled, panic>>

(* Mutant of DirectSignal: the goroutine ends without DirectCancel. *)
DirectSilent ==
  /\ dpc = "finished"
  /\ dpc' = "exited"
  /\ UNCHANGED <<contexts, watch, channels, workers, dnext, reply, main, client, panic>>

DirectSignal ==
  /\ dpc = "finished"
  /\ directDone' = TRUE
  /\ dpc' = "exited"
  /\ UNCHANGED <<reqDone, jobDone, watch, channels, workers, dnext, reply,
                 main, client, panic>>

(* The closing goroutine, behind wg.Wait. *)
WaitGroupDone ==
  /\ \A w \in Workers : wpc[w] = "exited"
  /\ dpc \in {"finished", "exited"}

CloseResult ==
  /\ WaitGroupDone /\ ~resultClosed
  /\ resultClosed' = TRUE
  /\ UNCHANGED <<contexts, watch, fed, handed, taskClosed, resultCh,
                 workers, direct, main, client, panic>>

CloseTask ==
  /\ resultClosed /\ ~taskClosed
  /\ taskClosed' = TRUE
  /\ UNCHANGED <<contexts, watch, fed, handed, resultCh, resultClosed,
                 workers, direct, main, client, panic>>

-----------------------------------------------------------------------------
(* main: the select loop of ChunksDeal. Its return runs the deferred       *)
(* cancellations.                                                          *)

Return ==
  /\ mpc' = "returned"
  /\ jobDone' = TRUE /\ directDone' = TRUE

(* jobCtx.Done(), or resultCh closed and drained. *)
MainCancelled ==
  /\ mpc = "select"
  /\ jobDone \/ (resultClosed /\ resultCh = <<>>)
  /\ Return
  /\ UNCHANGED <<reqDone, watch, channels, workers, direct, next, pending, client, panic>>

MainReceive ==
  /\ mpc = "select" /\ resultCh # <<>>
  /\ LET res == Head(resultCh)
     IN  /\ res.data # "error"
         /\ pending' = [pending EXCEPT ![res.index] = res.data]
  /\ resultCh' = Tail(resultCh)
  /\ UNCHANGED <<contexts, watch, fed, handed, taskClosed, resultClosed,
                 workers, direct, mpc, next, client, panic>>

(* Mutant of MainFatal: the loop goes on without the failed chunk. *)
MainForgets ==
  /\ mpc = "select" /\ resultCh # <<>>
  /\ Head(resultCh).data = "error"
  /\ resultCh' = Tail(resultCh)
  /\ UNCHANGED <<contexts, watch, fed, handed, taskClosed, resultClosed,
                 workers, direct, main, client, panic>>

(* taskRetryable looks for the prefix "retryable:", which no error that    *)
(* downloadOneChunk returns has: every error is fatal to the job.          *)
MainFatal ==
  /\ mpc = "select" /\ resultCh # <<>>
  /\ Head(resultCh).data = "error"
  /\ resultCh' = Tail(resultCh)
  /\ Return
  /\ UNCHANGED <<reqDone, watch, fed, handed, taskClosed, resultClosed,
                 workers, direct, next, pending, client, panic>>

(* Mutant of MainWrite: main does not wait for the direct goroutine. *)
MainWriteEarly ==
  /\ mpc = "select"
  /\ next \in Left /\ pending[next] # "none"
  /\ mpc' = "writing"
  /\ UNCHANGED <<contexts, watch, channels, workers, direct, next, pending, client, panic>>

MainWrite ==
  /\ mpc = "select" /\ directDone
  /\ next \in Left /\ pending[next] # "none"
  /\ mpc' = "writing"
  /\ UNCHANGED <<contexts, watch, channels, workers, direct, next, pending, client, panic>>

(* DirectCtx is done and stays so: until pending[next] comes the loop spins.*)
MainSpin ==
  /\ mpc = "select" /\ directDone
  /\ ~(next \in Left /\ pending[next] # "none")
  /\ UNCHANGED vars

(* The chunk is flushed; behind the last one goes the final empty chunk.   *)
MainWritten ==
  /\ mpc = "writing" /\ ~Waits
  /\ out' = Sent(next, pending[next])
  /\ pending' = [pending EXCEPT ![next] = "none"]
  /\ next' = next + 1
  /\ IF Remaining = 1
     THEN Return /\ ended' = ~clientGone
     ELSE mpc' = "select" /\ UNCHANGED <<jobDone, directDone, ended>>
  /\ UNCHANGED <<reqDone, watch, channels, workers, direct, clientGone, clientStalled, panic>>

(* Writing or flushing to a client that has left fails. *)
MainWriteFails ==
  /\ mpc = "writing" /\ clientGone
  /\ Return
  /\ UNCHANGED <<reqDone, watch, channels, workers, direct, next, pending, client, panic>>

(* chunksProbe closes the connection. *)
ConnClose ==
  /\ mpc = "returned"
  /\ mpc' = "closed"
  /\ UNCHANGED <<contexts, watch, channels, workers, direct, next, pending, client, panic>>

(* net/http cancels the request's context when the handler has returned.   *)
(* The context of a hijacked request is not cancelled before that.         *)
HandlerReturned ==
  /\ mpc = "closed" /\ ~reqDone
  /\ reqDone' = TRUE
  /\ UNCHANGED <<jobDone, directDone, watch, channels, workers, direct, main, client, panic>>

ClientClose ==
  /\ ClientLeaves /\ ~clientGone
  /\ clientGone' = TRUE
  /\ UNCHANGED <<contexts, watch, channels, workers, direct, main, out, ended,
                 clientStalled, panic>>

(* The client stays connected and reads no more. One that reads on later   *)
(* has only been slow, which is a delay of the steps above.                *)
ClientStall ==
  /\ ClientStalls /\ ~clientGone /\ ~clientStalled
  /\ clientStalled' = TRUE
  /\ UNCHANGED <<contexts, watch, channels, workers, direct, main, out, ended,
                 clientGone, panic>>

-----------------------------------------------------------------------------
Watcher == WatchRequest \/ WatchJob \/ WatchCancelDirect
WorkerLocal(w) == WorkerExit(w) \/ WorkerTake(w) \/ WorkerAbort(w) \/ WorkerSend(w)
WorkerUpstream(w) == WorkerReply(w) \/ WorkerPanic(w)
DirectLocal == DirectCheck \/ DirectSignal \/ (reqDone /\ (DirectPanic \/ DirectCut))
DirectUpstream == DirectReply \/ DirectPanic \/ DirectCopy \/ DirectCut
Closer == CloseResult \/ CloseTask
Main ==
  \/ MainCancelled \/ MainReceive \/ MainFatal
  \/ MainSpin \/ MainWrite \/ MainWritten \/ MainWriteFails \/ ConnClose

Step ==
  \/ Watcher \/ Feed \/ Closer \/ Main
  \/ \E w \in Workers : WorkerLocal(w) \/ WorkerUpstream(w)
  \/ DirectLocal \/ DirectUpstream
  \/ HandlerReturned \/ ClientClose \/ ClientStall

(* The handler is done (its goroutines may have leaked), or the process is.*)
Terminated == (mpc = "closed" \/ panic # "none") /\ UNCHANGED vars

(* A panic of any goroutine ends the process. *)
Alive(A) == panic = "none" /\ A

Next == Alive(Step) \/ Terminated

(* Goroutines keep running; nothing is assumed about the client, so a      *)
(* write that waits for it may wait for ever.                              *)
LocalFairness ==
  /\ WF_vars(Alive(Watcher)) /\ WF_vars(Alive(Feed))
  /\ WF_vars(Alive(Closer)) /\ WF_vars(Alive(Main))
  /\ WF_vars(Alive(DirectLocal)) /\ WF_vars(Alive(HandlerReturned))
  /\ \A w \in Workers : WF_vars(Alive(WorkerLocal(w)))

(* Upstreams answer in the end, with data or with an error: a copy that    *)
(* does not wait for the client goes on or breaks off.                     *)
UpstreamFairness ==
  /\ WF_vars(Alive(~Waits /\ DirectUpstream))
  /\ \A w \in Workers : WF_vars(Alive(WorkerUpstream(w)))

Spec == Init /\ [][Next]_vars
FairSpec == Spec /\ LocalFairness /\ UpstreamFairness

-----------------------------------------------------------------------------
Results == [index : Left, data : {"range", "other", "error"}]

ContextTypes ==
  /\ reqDone \in BOOLEAN /\ jobDone \in BOOLEAN /\ directDone \in BOOLEAN
  /\ watch \in {"waiting", "cancelDirect", "exited"}
  /\ ended \in BOOLEAN /\ clientGone \in BOOLEAN /\ clientStalled \in BOOLEAN
  /\ panic \in {"none", "send on closed channel", "makeslice", "nil response"}

QueueTypes ==
  /\ fed \in LeftStart..NumChunks /\ handed \in LeftStart..fed
  /\ taskClosed \in BOOLEAN /\ resultClosed \in BOOLEAN
  /\ wpc \in [Workers -> {"select", "download", "send", "exited"}]
  /\ held \in [Workers -> Results \cup [index : Left, data : {"none"}] \cup {NoTask}]
  /\ resultCh \in Seq(Results) /\ Len(resultCh) <= ResultCap

StreamTypes ==
  /\ dpc \in {"check", "request", "copy", "finished", "exited"}
  /\ dnext \in 0..LeftStart /\ reply \in {"none", "range", "other", "cut"}
  /\ mpc \in {"select", "writing", "returned", "closed"}
  /\ next \in LeftStart..NumChunks
  /\ pending \in [Left -> {"none", "range", "other"}]
  /\ out \in Seq([index : 0..(NumChunks - 1), data : {"range", "other", "cut"}])

(* Types of the job's contexts, queues, goroutines and stream. *)
TypeOK == ContextTypes /\ QueueTypes /\ StreamTypes

Running == mpc \in {"select", "writing"}

(* While the job runs, every chunk left to the workers is in exactly one   *)
(* place: not handed out, with a worker, in resultCh, pending or written.  *)
(* Nothing is fetched twice, dropped by a channel or overwritten.          *)
Count(condition) == IF condition THEN 1 ELSE 0

NoChunkLost ==
  Running =>
    \A i \in Left :
      Count(i >= handed) + Cardinality({w \in Workers : held[w].index = i})
      + Cardinality({k \in 1..Len(resultCh) : resultCh[k].index = i})
      + Count(pending[i] # "none") + Count(i < next) = 1

(* bufrw has no lock: main must not write while the direct goroutine does, *)
(* although DirectCtx is cancelled by more than the end of that goroutine. *)
WriterExclusion == ~(mpc = "writing" /\ dpc = "copy")

(* The client is sent the direct chunks from 0 on and then the others from *)
(* LeftStart on, each without a gap, whatever order the workers finish in. *)
LeftOrder ==
  \E m \in 0..Len(out) :
    /\ m <= LeftStart
    /\ \A k \in 1..m : out[k].index = k - 1
    /\ \A k \in (m + 1)..Len(out) : out[k].index = LeftStart + (k - m) - 1

(* The final empty chunk tells the client that it has the whole file       *)
(* ("all sent", ChunksDeal.go:289).                                        *)
CompleteWhenEnded ==
  ended => out = [k \in 1..NumChunks |-> Result(k - 1, "range")]

(* No goroutine of a job brings the process down. *)
NoPanic == panic = "none"

(* The client's stream is a prefix of the file that ends when it is whole. *)
Stream == INSTANCE ChunkStream WITH
            File <- [k \in 1..NumChunks |-> Result(k - 1, "range")],
            sent <- out, finished <- ended
StreamSpec == Stream!Spec

(* The handler returns and the connection is closed, whatever fails,       *)
(* unless a write waits for ever for a client that stays and does not read *)
(* (ChunksDeal.go:272, 281, 382).                                          *)
JobReturns == <>(mpc = "closed" \/ panic # "none") \/ <>[]Waits

(* After all workers have finished the result queue is closed            *)
(* (ChunksDeal.go:205): no goroutine of the job stays behind.              *)
ResultQueueCloses == <>(resultClosed \/ panic # "none")

(* A failed download, a client that left or stopped reading, or a panic. *)
Disturbed ==
  clientGone \/ clientStalled \/ panic # "none" \/ \E w \in Workers : held[w].data = "error"

(* Undisturbed, a job sends the whole file and its end, and then every     *)
(* goroutine it has started ends: none waits for another for ever.         *)
Completes == <>(Disturbed \/ (ended /\ taskClosed /\ watch = "exited"))

(* Every goroutine of the job waits for something that no other does, or   *)
(* for the client: none of the guards above is true, apart from MainSpin's *)
(* and those of the client's steps and of a copy that breaks off while it  *)
(* waits. Upstreams have answered.                                         *)
AtRest ==
  /\ watch = "exited" \/ (watch = "waiting" /\ ~reqDone /\ ~jobDone)
  /\ fed = NumChunks
  /\ \A w \in Workers :
       /\ wpc[w] # "download"
       /\ wpc[w] = "select" => ~jobDone /\ handed = fed /\ ~taskClosed
       /\ wpc[w] = "send" => Len(resultCh) >= ResultCap
  /\ dpc = "exited" \/ (dpc = "copy" /\ Waits)
  /\ WaitGroupDone => resultClosed
  /\ resultClosed => taskClosed
  /\ \/ mpc = "closed" /\ reqDone
     \/ mpc = "writing" /\ Waits
     \/ /\ mpc = "select" /\ ~jobDone
        /\ resultCh = <<>> /\ ~resultClosed
        /\ directDone => ~(next \in Left /\ pending[next] # "none")

(* A job that has come to rest has returned and told its watcher, or waits *)
(* for its client: main never waits for a chunk that no worker holds, a    *)
(* worker never for a task or for room while main waits for it             *)
(* (ChunksDeal.go:221-288).                                                *)
NobodyStuck ==
  AtRest /\ panic = "none" => (mpc = "closed" /\ watch = "exited") \/ Waits

(* And when no upstream failed and the client stayed and read, it has sent *)
(* the end of the file, and no goroutine is left behind.                   *)
RestIsComplete ==
  AtRest /\ panic = "none" => ended /\ taskClosed /\ watch = "exited"

(* An upper bound of the steps the job still makes: five for each chunk    *)
(* not handed out, fewer the further a chunk has come.                     *)
In(places, p) == {w \in Workers : places[w] = p}

WorkLeft ==
  5 * (NumChunks - handed) + 5 * Cardinality(In(wpc, "download"))
    + 4 * Cardinality(In(wpc, "send")) + Cardinality(In(wpc, "select")) + 2 * Len(resultCh)

DirectLeft ==
  CASE dpc = "check"    -> 3 * (LeftStart - dnext) + 2
    [] dpc = "request"  -> 3 * (LeftStart - dnext) + 1
    [] dpc = "copy"     -> 3 * (LeftStart - dnext)
    [] dpc = "finished" -> 1
    [] dpc = "exited"   -> 0

MainLeft ==
  CASE mpc = "select"   -> 2 * (NumChunks - next) + 3
    [] mpc = "writing"  -> 2 * (NumChunks - next) + 2
    [] mpc = "returned" -> 1
    [] mpc = "closed"   -> 0

EventsLeft ==
  Count(~reqDone) + Count(~clientGone) + Count(~clientStalled) + Count(panic = "none")
    + Count(~resultClosed) + Count(~taskClosed)
    + Count(watch # "exited") + Count(watch = "waiting")

StepsLeft == (NumChunks - fed) + WorkLeft + DirectLeft + MainLeft + EventsLeft

(* No job runs for ever, whatever upstreams and client do: each step that  *)
(* changes anything brings the end closer. What remains is MainSpin.       *)
JobEnds == [][StepsLeft' < StepsLeft /\ StepsLeft' >= 0]_vars

=============================================================================
