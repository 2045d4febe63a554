------------------------------ MODULE ChunkPlan ------------------------------
(***************************************************************************)
(* How ChunksDeal splits a download: ChunkCalculate walks the scheduler's  *)
(* snapshot and cuts [0, AllSize) into byte ranges, one run of ranges per  *)
(* snapshot entry; ChunksDirectTaskGet then takes the leading ranges that  *)
(* one goroutine streams to the client while the rest is prefetched.       *)
(*                                                                         *)
(* The two loops are a state machine, one step per iteration.              *)
(***************************************************************************)
EXTENDS Integers, Sequences

CONSTANTS
  Snapshots,    \* values NetCardCho.current may hold when the call loads it
  Sizes,        \* values of AllSize
  BestChunks,   \* values of BestChunkSizeRecorder.content, [IP -> Int]
  DefaultChunk, \* the 5 MB used for a card without a measured chunk size
  NumWorkers,   \* numWorkers, the divisor of the direct share
  MaxInt,       \* largest int64; arithmetic wraps beyond it
  MaxTasks      \* bound of the model: the slicing loop stops here

(* int64(x) of a NaN on amd64, the architecture build.bat selects. *)
MinInt == -MaxInt - 1

(* The sum or difference of two int64 values. *)
Wrap(x) == IF x > MaxInt THEN x - 2 * (MaxInt + 1)
           ELSE IF x < MinInt THEN x + 2 * (MaxInt + 1) ELSE x

(* A snapshot's total is NaN as soon as one probability is (see Scheduler  *)
(* in the README); otherwise totals and probabilities are non-negative.    *)
NaN == -1

(* What PeriodCheck and IPHTTPClientAndChoInit store: acc is the running   *)
(* value of accChunks after the entry, the total its last value; no        *)
(* probability is negative, so no running value exceeds the total.         *)
IsSnapshot(s) ==
  /\ s.entries \in Seq([ip : STRING, index : {0, 1}, prob : Nat, acc : Nat])
  /\ \A i \in 1..Len(s.entries) :
       s.entries[i].acc =
         s.entries[i].prob + (IF i = 1 THEN 0 ELSE s.entries[i-1].acc)
  /\ \/ s.total = NaN
     \/ /\ s.total = (IF s.entries = <<>> THEN 0
                      ELSE s.entries[Len(s.entries)].acc)
        /\ \A i \in 1..Len(s.entries) : s.entries[i].acc <= s.total

ASSUME PlanAssumption ==
  /\ \A s \in Snapshots : IsSnapshot(s)
  /\ Sizes \subseteq Nat \ {0}
  /\ DefaultChunk \in Nat /\ DefaultChunk >= 3
  /\ \A b \in BestChunks : \A ip \in DOMAIN b : b[ip] \in Int /\ (b[ip] >= 3 \/ b[ip] <= 0)
  /\ NumWorkers \in Nat \ {0}
  /\ MaxInt \in Nat /\ MaxTasks \in Nat
  /\ \A size \in Sizes : size + 2 * DefaultChunk < MaxInt
  /\ \A size \in Sizes, b \in BestChunks :
       \A ip \in DOMAIN b : size + 2 * b[ip] < MaxInt
  /\ \A s \in Snapshots, b \in BestChunks :
       \A i \in 1..Len(s.entries) : s.entries[i].ip \in DOMAIN b

VARIABLES
  snapshot, allSize, bestChunk,  \* the inputs, loaded once
  pc,        \* "entry", "slice", "direct", "done" or "failed"
  cur,       \* the snapshot entry being sliced
  limit,     \* TaskSizePos, last byte of that entry
  startPos,  \* AllStartPos
  endPos,    \* AllEndPos
  tasks,     \* chunkTasks
  add,       \* Add of ChunksDirectTaskGet
  taken      \* length of chunksDirect

inputs == <<snapshot, allSize, bestChunk>>
vars == <<snapshot, allSize, bestChunk, pc, cur, limit, startPos, endPos, tasks, add, taken>>

-----------------------------------------------------------------------------
Entries == snapshot.entries
Entry == Entries[cur]

(* int64((ProbNum / TotalChunks) * AllSize), over exact fractions; a zero  *)
(* total only comes with zero probabilities, and 0/0 is a NaN.             *)
TaskSize(prob) ==
  IF snapshot.total = NaN \/ snapshot.total = 0
  THEN MinInt
  ELSE (prob * allSize) \div snapshot.total

(* Mutant of Best: a card not measured yet gets its whole share at once. *)
BestWhole(ip) == IF bestChunk[ip] <= 0 THEN allSize ELSE bestChunk[ip]

Best(ip) == IF bestChunk[ip] <= 0 THEN DefaultChunk ELSE bestChunk[ip]

(* Mutant of Task: numbered one too low. *)
TaskBelow(end) == [index |-> Len(tasks) - 1, start |-> startPos, end |-> end,
                   ip |-> Entry.ip, client |-> Entry.index]

Task(end) == [index |-> Len(tasks), start |-> startPos, end |-> end,
              ip |-> Entry.ip, client |-> Entry.index]

Init ==
  /\ snapshot \in Snapshots
  /\ allSize \in Sizes
  /\ bestChunk \in BestChunks
  /\ pc = IF snapshot.entries = <<>> THEN "direct" ELSE "entry"
  /\ cur = 1 /\ limit = 0
  /\ startPos = 0 /\ endPos = 0
  /\ tasks = <<>>
  /\ add = 0 /\ taken = 0

(* The head of the for loop over the entries. *)
BeginEntry ==
  /\ pc = "entry"
  /\ limit' = IF cur = Len(Entries)
              THEN allSize - 1
              ELSE Wrap(Wrap(startPos + TaskSize(Entry.prob)) - 1)
  /\ pc' = "slice"
  /\ UNCHANGED <<inputs, cur, startPos, endPos, tasks, add, taken>>

(* Mutant of FullChunkFits: room is left for two more. *)
ThreeChunksFit == Wrap(Wrap(startPos + 3 * Best(Entry.ip)) - 1) <= limit

(* At least two more chunks fit: cut one of the best size. *)
FullChunkFits == Wrap(Wrap(startPos + 2 * Best(Entry.ip)) - 1) <= limit

(* Mutant of AppendTask: the next chunk begins with the last byte of this. *)
AppendOverlapping(end) ==
  /\ Len(tasks) < MaxTasks
  /\ tasks' = Append(tasks, Task(end))
  /\ startPos' = end
  /\ endPos' = end

AppendTask(end) ==
  /\ Len(tasks) < MaxTasks
  /\ tasks' = Append(tasks, Task(end))
  /\ startPos' = Wrap(end + 1)
  /\ endPos' = Wrap(end + 1)

SliceFull ==
  /\ pc = "slice"
  /\ FullChunkFits
  /\ AppendTask(Wrap(endPos + (Best(Entry.ip) - 1)))
  /\ UNCHANGED <<inputs, pc, cur, limit, add, taken>>

(* Otherwise the rest of the entry is one chunk, up to its last byte. *)
SliceRest ==
  /\ pc = "slice"
  /\ ~FullChunkFits
  /\ AppendTask(limit)
  /\ cur' = cur + 1
  /\ pc' = IF cur = Len(Entries) THEN "direct" ELSE "entry"
  /\ UNCHANGED <<inputs, limit, add, taken>>

(* Mutant of TakeDirect: the share is not divided by the workers. *)
TakeDirectAll ==
  /\ pc = "direct"
  /\ taken < Len(tasks)
  /\ LET t == tasks[taken + 1]
     IN  /\ add' = add + ((t.end - t.start) - 1)
         /\ pc' = IF add' > allSize THEN "done" ELSE pc
  /\ taken' = taken + 1
  /\ UNCHANGED <<inputs, cur, limit, startPos, endPos, tasks>>

(* One iteration of ChunksDirectTaskGet. *)
TakeDirect ==
  /\ pc = "direct"
  /\ taken < Len(tasks)
  /\ LET t == tasks[taken + 1]
     IN  /\ add' = add + ((t.end - t.start) - 1)
         /\ pc' = IF add' > allSize \div NumWorkers THEN "done" ELSE pc
  /\ taken' = taken + 1
  /\ UNCHANGED <<inputs, cur, limit, startPos, endPos, tasks>>

(* The tasks are exhausted below the wanted share: an error. *)
DirectFails ==
  /\ pc = "direct"
  /\ taken = Len(tasks)
  /\ pc' = "failed"
  /\ UNCHANGED <<inputs, cur, limit, startPos, endPos, tasks, add, taken>>

Terminated == pc \in {"done", "failed"} /\ UNCHANGED vars

Next == BeginEntry \/ SliceFull \/ SliceRest \/ TakeDirect \/ DirectFails \/ Terminated

Spec == Init /\ [][Next]_vars /\ WF_vars(Next)

(* Mutant of LeftStart: the last direct chunk is prefetched as well. *)
LeftStartSame == tasks[taken].index

(* The index of the first task left to the prefetching workers. *)
LeftStart == tasks[taken].index + 1

(* What IPHTTPClientAndChoInit stores before any measurement: one entry    *)
(* per card, every probability and the total zero.                         *)
InitialSnapshot(ips) ==
  [entries |-> [k \in 1..Len(ips) |->
                  [ip |-> ips[k], index |-> 0, prob |-> 0, acc |-> 0]],
   total |-> 0]

-----------------------------------------------------------------------------
(* Types of the loop variables (ChunksDeal.go:99-112, 459-460). *)
TypeOK ==
  /\ snapshot \in Snapshots /\ allSize \in Sizes /\ bestChunk \in BestChunks
  /\ pc \in {"entry", "slice", "direct", "done", "failed"}
  /\ cur \in Nat \ {0}
  /\ limit \in Int /\ startPos \in Int /\ endPos \in Int /\ add \in Int
  /\ tasks \in Seq([index : Nat, start : Int, end : Int,
                    ip : STRING, client : {0, 1}])
  /\ taken \in 0..Len(tasks)

(* The shares are numbers: with a NaN total only a single entry, whose end *)
(* is the end of the file, is sliced from real positions.                  *)
Sane == snapshot.total > 0 \/ Len(Entries) <= 1

Planned == pc \in {"direct", "done", "failed"}

(* The ranges ChunkCalculate returns partition the file: numbered from 0,  *)
(* each begins where the one before it ends, the last byte of the last is  *)
(* the last byte of the file. No byte is fetched twice and none is missed. *)
Partition ==
  Sane =>
    /\ \A k \in 1..Len(tasks) :
         /\ tasks[k].index = k - 1
         /\ tasks[k].start = (IF k = 1 THEN 0 ELSE tasks[k-1].end + 1)
    /\ Planned /\ Entries # <<>> =>
         tasks # <<>> /\ tasks[Len(tasks)].end = allSize - 1

(* No range asks for a byte before the file or behind its end, whatever    *)
(* snapshot the scheduler published (ChunksDeal.go:113-141).               *)
WithinFile ==
  \A k \in 1..Len(tasks) :
    /\ 0 <= tasks[k].start
    /\ tasks[k].start <= tasks[k].end + 1
    /\ tasks[k].end < allSize

(* A worker buffers a whole chunk in memory (downloadOneChunk): no chunk   *)
(* reaches twice the best size of the card that fetches it.                *)
ChunkBounded ==
  Sane => \A k \in 1..Len(tasks) :
            tasks[k].end - tasks[k].start + 1 < 2 * Best(tasks[k].ip)

(* An empty range, for which the Range header reads bytes=s-(s-1), is only *)
(* ever produced for an entry whose share rounds to no byte at all.        *)
EmptyOnlyForZeroShare ==
  Sane => \A k \in 1..Len(tasks) :
            tasks[k].end < tasks[k].start =>
              \E e \in 1..Len(Entries) :
                /\ Entries[e].ip = tasks[k].ip
                /\ Entries[e].index = tasks[k].client
                /\ TaskSize(Entries[e].prob) = 0

(* ChunksDirectTaskGet counts two bytes too few per chunk (End-Start-1),   *)
(* and still: the direct chunks hold more than the wanted share, and all   *)
(* but the last of them at most the share plus the two bytes per chunk;    *)
(* LeftStart is the first task that is not direct.                         *)
DirectShare ==
  Sane /\ pc = "done" =>
    /\ LeftStart = taken
    /\ tasks[taken].end + 1 > allSize \div NumWorkers
    /\ tasks[taken].start <= allSize \div NumWorkers + 2 * (taken - 1)

(* The cut is found whenever there are entries: the error return of        *)
(* ChunksDirectTaskGet is left to the empty snapshot. For files that are   *)
(* large against the two bytes each chunk is short-counted by.             *)
CutFound == Sane /\ pc = "failed" => Entries = <<>>

(* What "large" is: no chunk is cut below b bytes, and the file outside    *)
(* the direct share outweighs the two bytes each of its chunks is counted  *)
(* short by. Files of ExceedSize bytes and more meet it with b = 3.        *)
LargeFiles(b) ==
  /\ b \in Nat \ {0} /\ b <= DefaultChunk
  /\ \A c \in BestChunks : \A ip \in DOMAIN c : c[ip] > 0 => b <= c[ip]
  /\ \A size \in Sizes, s \in Snapshots :
       b * (size - size \div NumWorkers) > 2 * size + 2 * b * Len(s.entries)

(* The direct chunks are never all there are: without a chunk left to      *)
(* prefetch the job would never send the end of the stream                 *)
(* (ChunksDeal.go:179). For files that outweigh the direct share and one   *)
(* largest chunk.                                                          *)
WorkToShare == Sane /\ pc = "done" => LeftStart < Len(tasks)

(* As LargeFiles, and no chunk size is above c, of which the last direct   *)
(* chunk may have almost two. Files of ExceedSize bytes meet it with every *)
(* best chunk between 5 MB and 30 MB.                                      *)
MoreThanDirect(b, c) ==
  /\ b \in Nat \ {0} /\ c \in Nat /\ b <= DefaultChunk /\ DefaultChunk <= c
  /\ \A best \in BestChunks : \A ip \in DOMAIN best :
       best[ip] > 0 => b <= best[ip] /\ best[ip] <= c
  /\ \A size \in Sizes, s \in Snapshots :
       b * (size - size \div NumWorkers - 2 * c) > 2 * size + 2 * b * Len(s.entries)

(* An upper bound of the iterations both loops still make. *)
StepsLeft ==
  IF pc \in {"entry", "slice"}
  THEN 2 * (allSize - startPos) + 3 * (Len(Entries) + 1 - cur) + Len(tasks)
         + (IF pc = "entry" THEN 3 ELSE 2)
  ELSE IF pc = "direct" THEN Len(tasks) - taken + 1 ELSE 0

(* The loops end: every iteration brings them closer to it. With two       *)
(* entries of a zero or NaN total the slicing runs away instead, and       *)
(* appends to chunkTasks until the memory is gone (ChunksDeal.go:113-141). *)
LoopsEnd == [][Sane => StepsLeft' < StepsLeft /\ StepsLeft' >= 0]_vars

=============================================================================
