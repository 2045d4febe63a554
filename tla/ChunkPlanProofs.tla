-------------------------- MODULE ChunkPlanProofs --------------------------
(* Proofs about ChunkPlan, for every snapshot, size and chunk size. *)
EXTENDS ChunkPlan, SequenceTheorems, TLAPS

Types ==
  [index : Nat, start : Int, end : Int, ip : STRING, client : {0, 1}]

(* The end of the last range, exclusive. *)
SlicedUpTo == IF tasks = <<>> THEN 0 ELSE tasks[Len(tasks)].end + 1

(* accChunks before the entry being sliced. *)
AccBefore == IF cur = 1 THEN 0 ELSE Entries[cur-1].acc

CurInRange == pc \in {"entry", "slice"} => cur \in 1..Len(Entries)

Numbered ==
  \A k \in 1..Len(tasks) :
    /\ tasks[k].index = k - 1
    /\ tasks[k].start = (IF k = 1 THEN 0 ELSE tasks[k-1].end + 1)
    /\ 0 <= tasks[k].start
    /\ tasks[k].start <= tasks[k].end + 1
    /\ tasks[k].end < allSize

Positions ==
  /\ startPos = SlicedUpTo /\ endPos = startPos
  /\ 0 <= startPos /\ startPos <= allSize

AtEntry ==
  pc = "entry" =>
    startPos * snapshot.total <= AccBefore * allSize

AtSlice ==
  pc = "slice" =>
    /\ startPos - 1 <= limit /\ limit < allSize
    /\ IF cur = Len(Entries) THEN limit = allSize - 1
       ELSE (limit + 1) * snapshot.total <= Entries[cur].acc * allSize

AtEnd ==
  Planned /\ Entries # <<>> => tasks # <<>> /\ startPos = allSize

(* The inductive strengthening of Partition: where the slicing stands      *)
(* against the running sum of the probabilities.                           *)
Slicing == Numbered /\ Positions /\ AtEntry /\ AtSlice /\ AtEnd

SlicingInv == TypeOK /\ CurInRange /\ (Sane => Slicing)

-----------------------------------------------------------------------------
(* A share rounded down still fits below the running sum: after entries    *)
(* with sum a at most a/T of the file is sliced, and after one more entry  *)
(* with probability p at most (a+p)/T of it.                               *)
LEMMA ShareFits ==
  ASSUME NEW s \in Nat, NEW p \in Nat, NEW S \in Nat, NEW T \in Nat \ {0},
         NEW a \in Nat, s * T <= a * S, a + p <= T
  PROVE  /\ (p * S) \div T \in Nat
         /\ (s + (p * S) \div T) * T <= (a + p) * S
         /\ s + (p * S) \div T <= S
<1> DEFINE q == (p * S) \div T
<1>1. p * S \in Nat
  OBVIOUS
<1>2. q \in Nat /\ q * T <= p * S
  BY <1>1, Z3
<1> HIDE DEF q
<1>3. (s + q) * T = s * T + q * T /\ (a + p) * S = a * S + p * S
  BY <1>2
<1>4. (s + q) * T <= (a + p) * S
  BY <1>2, <1>3
<1>5. (a + p) * S <= T * S
  BY SMT
<1>6. s + q <= S
  BY <1>2, <1>4, <1>5, Z3
<1> QED
  BY <1>2, <1>4, <1>6 DEF q

(* A positive factor on both sides can be left out. *)
LEMMA CancelFactor ==
  ASSUME NEW x \in Int, NEW y \in Int, NEW f \in Nat \ {0}, f * x <= y * f
  PROVE  x <= y
<1>1. f * (y - x) >= 0
  OBVIOUS
<1>2. y - x < 0 => f * (y - x) < 0
  BY Z3
<1> QED
  BY <1>1, <1>2

(* What an entry of a loaded snapshot is. *)
LEMMA EntryFacts ==
  ASSUME TypeOK, cur \in 1..Len(Entries)
  PROVE  /\ Len(Entries) \in Nat
         /\ Entry.ip \in STRING /\ Entry.index \in {0, 1} /\ Entry.prob \in Nat
         /\ AccBefore \in Nat
         /\ Entries[cur].acc = AccBefore + Entry.prob
         /\ snapshot.total \in Int
         /\ snapshot.total > 0 => Entries[cur].acc <= snapshot.total
<1>1. IsSnapshot(snapshot)
  BY PlanAssumption DEF TypeOK
<1> DEFINE EntrySet == [ip : STRING, index : {0, 1}, prob : Nat, acc : Nat]
<1>2. Entries \in Seq(EntrySet)
  BY <1>1 DEF IsSnapshot, Entries
<1>3. Len(Entries) \in Nat /\ \A i \in 1..Len(Entries) : Entries[i] \in EntrySet
  <2> HIDE DEF EntrySet
  <2> QED
    BY <1>2, ElementOfSeq, LenProperties
<1>4. Entry \in EntrySet
  BY <1>3 DEF Entry
<1>5. cur # 1 => cur - 1 \in 1..Len(Entries)
  BY <1>3
<1>6. AccBefore \in Nat
  BY <1>3, <1>5 DEF AccBefore
<1>7. Entries[cur].acc = Entry.prob + AccBefore
  BY <1>1 DEF IsSnapshot, Entries, Entry, AccBefore
<1>8. snapshot.total \in Int
  <2>1. CASE snapshot.total = NaN
    BY <2>1 DEF NaN
  <2>2. CASE snapshot.total # NaN
    <3>1. snapshot.total = (IF Entries = <<>> THEN 0 ELSE Entries[Len(Entries)].acc)
      BY <1>1, <2>2 DEF IsSnapshot, Entries
    <3>2. Entries # <<>> => Len(Entries) \in 1..Len(Entries)
      BY <1>2
    <3> QED
      BY <1>3, <3>1, <3>2
  <2> QED
    BY <2>1, <2>2
<1>9. snapshot.total > 0 => Entries[cur].acc <= snapshot.total
  BY <1>1 DEF IsSnapshot, Entries, NaN
<1> QED
  BY <1>3, <1>4, <1>6, <1>7, <1>8, <1>9

(* Two chunks more than the file fit into an int64. *)
LEMMA BestFacts ==
  ASSUME TypeOK, cur \in 1..Len(Entries)
  PROVE  /\ Best(Entry.ip) \in Nat /\ Best(Entry.ip) >= 3
         /\ allSize \in Nat \ {0} /\ MaxInt \in Nat
         /\ allSize + 2 * Best(Entry.ip) < MaxInt
<1>1. Entry.ip \in DOMAIN bestChunk
  BY PlanAssumption DEF TypeOK, Entry, Entries
<1>2. /\ bestChunk[Entry.ip] \in Int
      /\ bestChunk[Entry.ip] >= 3 \/ bestChunk[Entry.ip] <= 0
      /\ allSize + 2 * bestChunk[Entry.ip] < MaxInt
  BY <1>1, PlanAssumption DEF TypeOK
<1>3. /\ allSize \in Nat \ {0} /\ MaxInt \in Nat
      /\ DefaultChunk \in Nat /\ DefaultChunk >= 3
      /\ allSize + 2 * DefaultChunk < MaxInt
  BY PlanAssumption DEF TypeOK
<1> QED
  BY <1>2, <1>3 DEF Best

(* Sums of int64 values are integers. *)
LEMMA WrapType ==
  ASSUME NEW x \in Int
  PROVE  Wrap(x) \in Int /\ (MinInt <= x /\ x <= MaxInt => Wrap(x) = x)
  BY PlanAssumption DEF Wrap, MinInt

(* In a sane plan no sum of the slicing step wraps. *)
LEMMA NoWrap ==
  ASSUME SlicingInv, Sane, pc = "slice"
  PROVE  /\ FullChunkFits <=> startPos + 2 * Best(Entry.ip) - 1 <= limit
         /\ Wrap(endPos + (Best(Entry.ip) - 1)) = startPos + Best(Entry.ip) - 1
         /\ Wrap(startPos + Best(Entry.ip)) = startPos + Best(Entry.ip)
         /\ Wrap(limit + 1) = limit + 1
<1>1. cur \in 1..Len(Entries) /\ TypeOK
  BY DEF SlicingInv, CurInRange
<1>2. /\ startPos \in Int /\ limit \in Int
      /\ endPos = startPos /\ 0 <= startPos /\ startPos <= allSize
      /\ startPos - 1 <= limit /\ limit < allSize
  BY DEF SlicingInv, Slicing, Positions, AtSlice, TypeOK
<1> DEFINE b == Best(Entry.ip)
<1>3. b \in Nat /\ b >= 3 /\ allSize \in Nat /\ MaxInt \in Nat /\ allSize + 2 * b < MaxInt
  BY <1>1, BestFacts
<1> HIDE DEF b
<1>4. \A x \in Int : -1 <= x /\ x <= allSize + 2 * b => Wrap(x) = x
  BY <1>3, WrapType DEF MinInt
<1>5. Wrap(startPos + 2 * b) = startPos + 2 * b
  BY <1>2, <1>3, <1>4
<1>6. Wrap(startPos + 2 * b - 1) = startPos + 2 * b - 1
  BY <1>2, <1>3, <1>4
<1>7. Wrap(endPos + (b - 1)) = startPos + b - 1
  BY <1>2, <1>3, <1>4
<1>8. Wrap(startPos + b) = startPos + b /\ Wrap(limit + 1) = limit + 1
  BY <1>2, <1>3, <1>4
<1>9. Wrap(Wrap(startPos + 2 * b) - 1) = startPos + 2 * b - 1
  BY <1>2, <1>3, <1>5, <1>6
<1> QED
  BY <1>7, <1>8, <1>9 DEF FullChunkFits, b

(* Appending a range that starts where the last one ended. *)
LEMMA AppendNumbered ==
  ASSUME TypeOK, cur \in 1..Len(Entries), Numbered, startPos = SlicedUpTo,
         0 <= startPos, NEW end \in Int, startPos <= end + 1, end < allSize,
         tasks' = Append(tasks, Task(end)), allSize' = allSize
  PROVE  /\ tasks' \in Seq(Types) /\ tasks' # <<>>
         /\ Len(tasks') = Len(tasks) + 1
         /\ Numbered' /\ SlicedUpTo' = end + 1
<1>1. Task(end) \in Types
  BY EntryFacts DEF Types, Task, TypeOK
<1>2. tasks \in Seq(Types)
  BY DEF TypeOK, Types
<1>3. /\ tasks' \in Seq(Types) /\ tasks' # <<>> /\ Len(tasks') = Len(tasks) + 1
      /\ tasks'[Len(tasks')] = Task(end)
      /\ \A k \in 1..Len(tasks) : tasks'[k] = tasks[k]
  BY <1>1, <1>2
<1>4. Task(end).index = Len(tasks) /\ Task(end).start = startPos /\ Task(end).end = end
  BY DEF Task
<1>5. SlicedUpTo' = end + 1
  BY <1>3, <1>4 DEF SlicedUpTo
<1>6. startPos = (IF Len(tasks) = 0 THEN 0 ELSE tasks[Len(tasks)].end + 1)
  BY <1>2 DEF SlicedUpTo
<1>7. Numbered'
  <2> SUFFICES ASSUME NEW k \in 1..Len(tasks')
               PROVE  /\ tasks'[k].index = k - 1
                      /\ tasks'[k].start = (IF k = 1 THEN 0 ELSE tasks'[k-1].end + 1)
                      /\ 0 <= tasks'[k].start
                      /\ tasks'[k].start <= tasks'[k].end + 1
                      /\ tasks'[k].end < allSize
    BY DEF Numbered
  <2>1. CASE k = Len(tasks) + 1
    BY <1>2, <1>3, <1>4, <1>6, <2>1
  <2>2. CASE k \in 1..Len(tasks)
    <3>1. k # 1 => k - 1 \in 1..Len(tasks)
      BY <1>2, <2>2
    <3> QED
      BY <1>3, <2>2, <3>1 DEF Numbered
  <2> QED
    BY <1>2, <1>3, <2>1, <2>2
<1> QED
  BY <1>3, <1>5, <1>7

-----------------------------------------------------------------------------
(* The invariant holds before the first iteration of the slicing loop.     *)
LEMMA SlicingInit == Init => SlicingInv
<1> SUFFICES ASSUME Init PROVE SlicingInv
  OBVIOUS
<1>1. TypeOK
  BY DEF Init, TypeOK
<1>2. IsSnapshot(snapshot)
  BY PlanAssumption DEF Init
<1>3. Entries # <<>> => 1 \in 1..Len(Entries)
  BY <1>2 DEF IsSnapshot, Entries
<1>4. CurInRange
  BY <1>3 DEF Init, CurInRange, Entries
<1>5. allSize \in Nat /\ snapshot.total \in Int
  <2>1. allSize \in Nat
    BY PlanAssumption DEF Init
  <2>2. CASE Entries = <<>>
    <3>1. snapshot.total = NaN \/ snapshot.total = 0
      BY <1>2, <2>2 DEF IsSnapshot, Entries
    <3> QED
      BY <2>1, <3>1 DEF NaN
  <2>3. CASE Entries # <<>>
    <3>1. cur \in 1..Len(Entries)
      BY <1>3, <2>3 DEF Init
    <3> QED
      BY <1>1, <2>1, <3>1, EntryFacts
  <2> QED
    BY <2>1, <2>2, <2>3
<1>6. Positions /\ Numbered
  BY <1>5 DEF Init, Positions, Numbered, SlicedUpTo
<1>7. AtEntry /\ AtSlice /\ AtEnd
  BY <1>5 DEF Init, AtEntry, AtSlice, AtEnd, AccBefore, Planned, Entries
<1> QED
  BY <1>1, <1>4, <1>6, <1>7 DEF SlicingInv, Slicing

(* A new entry: its share keeps the running sum below the total.           *)
LEMMA SlicingBeginEntry == SlicingInv /\ BeginEntry => SlicingInv'
<1> SUFFICES ASSUME SlicingInv, BeginEntry PROVE SlicingInv'
  OBVIOUS
<1>1. /\ pc = "entry" /\ pc' = "slice" /\ cur \in 1..Len(Entries) /\ TypeOK
      /\ UNCHANGED <<inputs, cur, startPos, endPos, tasks, add, taken>>
  BY DEF BeginEntry, SlicingInv, CurInRange
<1>2. /\ Entry.prob \in Nat /\ AccBefore \in Nat /\ snapshot.total \in Int
      /\ Entries[cur].acc = AccBefore + Entry.prob
      /\ snapshot.total > 0 => Entries[cur].acc <= snapshot.total
  BY <1>1, EntryFacts
<1>3. /\ allSize \in Nat \ {0} /\ MaxInt \in Nat /\ allSize < MaxInt
  BY <1>1, BestFacts
<1>4. startPos \in Int
  BY <1>1 DEF TypeOK
<1>5. TaskSize(Entry.prob) \in Int
  <2>1. CASE snapshot.total = NaN \/ snapshot.total = 0
    BY <1>3, <2>1 DEF TaskSize, MinInt
  <2>2. CASE ~(snapshot.total = NaN \/ snapshot.total = 0)
    <3>1. snapshot.total \in Nat \ {0}
      <4>1. IsSnapshot(snapshot)
        BY <1>1, PlanAssumption DEF TypeOK
      <4>2. Entries[cur].acc <= snapshot.total
        BY <2>2, <4>1, <1>1 DEF IsSnapshot, Entries
      <4> QED
        BY <1>2, <2>2, <4>2
    <3>2. Entry.prob * allSize \in Nat
      BY <1>2, <1>3
    <3>3. (Entry.prob * allSize) \div snapshot.total \in Int
      BY <3>1, <3>2
    <3> QED
      BY <2>2, <3>3 DEF TaskSize
  <2> QED
    BY <2>1, <2>2
<1>6. limit' \in Int
  BY <1>3, <1>4, <1>5, WrapType DEF BeginEntry
<1>7. TypeOK' /\ CurInRange'
  BY <1>1, <1>6 DEF TypeOK, CurInRange, inputs, Entries
<1>8. ASSUME Sane'
      PROVE  Slicing'
  <2>1. Sane /\ Slicing
    BY <1>1, <1>8 DEF Sane, SlicingInv, Entries, inputs
  <2>2. 0 <= startPos /\ startPos <= allSize
    BY <2>1 DEF Slicing, Positions
  <2>3. AtSlice'
    <3>1. CASE cur = Len(Entries)
      <4>1. limit' = allSize - 1
        BY <3>1 DEF BeginEntry
      <4> QED
        BY <1>1, <1>3, <1>4, <2>2, <3>1, <4>1 DEF AtSlice, Entries, inputs
    <3>2. CASE cur # Len(Entries)
      <4> DEFINE q == (Entry.prob * allSize) \div snapshot.total
      <4>1. snapshot.total > 0
        BY <1>1, <2>1, <3>2, EntryFacts DEF Sane
      <4>2. startPos * snapshot.total <= AccBefore * allSize
        BY <1>1, <2>1 DEF Slicing, AtEntry
      <4>0. /\ startPos \in Nat /\ allSize \in Nat /\ snapshot.total \in Nat \ {0}
            /\ AccBefore + Entry.prob <= snapshot.total
        BY <1>2, <1>3, <1>4, <2>2, <4>1
      <4>3. /\ q \in Nat
            /\ (startPos + q) * snapshot.total <= (AccBefore + Entry.prob) * allSize
            /\ startPos + q <= allSize
        BY <1>2, <4>0, <4>2, ShareFits
      <4> HIDE DEF q
      <4>4. TaskSize(Entry.prob) = q
        BY <1>2, <4>1 DEF TaskSize, NaN, q
      <4>5. Wrap(startPos + q) = startPos + q
        BY <1>3, <1>4, <2>2, <4>3, WrapType DEF MinInt
      <4>6. Wrap(startPos + q - 1) = startPos + q - 1
        BY <1>3, <1>4, <2>2, <4>3, WrapType DEF MinInt
      <4>7. limit' = startPos + q - 1
        BY <1>4, <3>2, <4>3, <4>4, <4>5, <4>6 DEF BeginEntry
      <4>8. (limit' + 1) * snapshot.total <= Entries[cur].acc * allSize
        <5>1. limit' + 1 = startPos + q
          BY <1>4, <4>3, <4>7
        <5> QED
          BY <1>2, <4>3, <5>1
      <4>9. startPos - 1 <= limit' /\ limit' < allSize
        BY <1>3, <1>4, <4>3, <4>7
      <4> QED
        BY <1>1, <3>2, <4>8, <4>9 DEF AtSlice, Entries, inputs
    <3> QED
      BY <3>1, <3>2
  <2>4. Numbered' /\ Positions' /\ AtEntry' /\ AtEnd'
    BY <1>1, <2>1
    DEF Slicing, Numbered, Positions, SlicedUpTo, AtEntry, AtEnd, Planned, inputs
  <2> QED
    BY <2>3, <2>4 DEF Slicing
<1> QED
  BY <1>7, <1>8 DEF SlicingInv

(* A chunk of the best size ends before the entry does. *)
LEMMA SlicingFull == SlicingInv /\ SliceFull => SlicingInv'
<1> SUFFICES ASSUME SlicingInv, SliceFull PROVE SlicingInv'
  OBVIOUS
<1> DEFINE b == Best(Entry.ip)
           end == Wrap(endPos + (b - 1))
<1>1. /\ pc = "slice" /\ cur \in 1..Len(Entries) /\ TypeOK
      /\ UNCHANGED <<inputs, pc, cur, limit, add, taken>>
      /\ tasks' = Append(tasks, Task(end))
      /\ startPos' = Wrap(end + 1) /\ endPos' = Wrap(end + 1)
  BY DEF SliceFull, AppendTask, SlicingInv, CurInRange
<1>2. b \in Nat /\ b >= 3 /\ allSize \in Nat /\ startPos \in Int /\ endPos \in Int /\ limit \in Int
  BY <1>1, BestFacts DEF TypeOK
<1>3. end \in Int /\ startPos' \in Int /\ endPos' \in Int
  <2>1. endPos + (b - 1) \in Int
    BY <1>2
  <2>2. end \in Int
    BY <2>1, WrapType
  <2> HIDE DEF end
  <2>3. end + 1 \in Int
    BY <2>2
  <2> QED
    BY <1>1, <2>2, <2>3, WrapType
<1>4. TypeOK' /\ CurInRange'
  <2>1. Task(end) \in Types /\ tasks \in Seq(Types)
    BY <1>1, <1>3, EntryFacts DEF Types, Task, TypeOK
  <2>2. tasks' \in Seq(Types) /\ Len(tasks') = Len(tasks) + 1
    BY <1>1, <2>1
  <2>3. taken \in 0..Len(tasks')
    BY <1>1, <2>1, <2>2 DEF TypeOK
  <2> QED
    BY <1>1, <1>3, <2>2, <2>3 DEF TypeOK, Types, CurInRange, inputs, Entries
<1>5. ASSUME Sane'
      PROVE  Slicing'
  <2>1. Sane /\ Slicing
    BY <1>1, <1>5 DEF Sane, SlicingInv, Entries, inputs
  <2>2. /\ startPos + 2 * b - 1 <= limit
        /\ end = startPos + b - 1
        /\ Wrap(startPos + b) = startPos + b
    BY <1>1, <2>1, NoWrap DEF SliceFull
  <2>3. 0 <= startPos /\ limit < allSize /\ startPos = SlicedUpTo
    BY <1>1, <2>1 DEF Slicing, Positions, AtSlice
  <2> HIDE DEF b, end
  <2>4. end + 1 = startPos + b
    BY <1>2, <2>2
  <2>5. /\ startPos' = end + 1 /\ endPos' = end + 1
        /\ startPos <= end + 1 /\ end < allSize /\ end + 1 <= allSize
        /\ startPos' - 1 <= limit /\ 0 <= startPos' /\ startPos' <= allSize
    BY <1>1, <1>2, <1>3, <2>2, <2>3, <2>4
  <2>6. Numbered' /\ SlicedUpTo' = end + 1
    BY <1>1, <1>3, <2>1, <2>3, <2>5, AppendNumbered DEF Slicing, inputs
  <2>7. Positions' /\ AtSlice'
    <3>1. Positions'
      BY <1>1, <2>5, <2>6 DEF Positions, inputs
    <3>2. AtSlice'
      BY <1>1, <2>1, <2>5 DEF Slicing, AtSlice, Entries, inputs
    <3> QED
      BY <3>1, <3>2
  <2>8. AtEntry' /\ AtEnd'
    BY <1>1 DEF AtEntry, AtEnd, Planned
  <2> QED
    BY <2>6, <2>7, <2>8 DEF Slicing
<1> QED
  BY <1>4, <1>5 DEF SlicingInv

(* The last chunk of an entry ends where the entry does. *)
LEMMA SlicingRest == SlicingInv /\ SliceRest => SlicingInv'
<1> SUFFICES ASSUME SlicingInv, SliceRest PROVE SlicingInv'
  OBVIOUS
<1>1. /\ pc = "slice" /\ cur \in 1..Len(Entries) /\ TypeOK
      /\ UNCHANGED <<inputs, limit, add, taken>>
      /\ cur' = cur + 1
      /\ pc' = IF cur = Len(Entries) THEN "direct" ELSE "entry"
      /\ tasks' = Append(tasks, Task(limit))
      /\ startPos' = Wrap(limit + 1) /\ endPos' = Wrap(limit + 1)
  BY DEF SliceRest, AppendTask, SlicingInv, CurInRange
<1>2. /\ allSize \in Nat /\ startPos \in Int /\ limit \in Int /\ Len(Entries) \in Nat
      /\ cur \in Nat /\ snapshot.total \in Int
  BY <1>1, BestFacts, EntryFacts DEF TypeOK
<1>3. startPos' \in Int /\ endPos' \in Int
  BY <1>1, <1>2, WrapType
<1>4. TypeOK' /\ CurInRange'
  <2>1. Task(limit) \in Types /\ tasks \in Seq(Types)
    BY <1>1, <1>2, EntryFacts DEF Types, Task, TypeOK
  <2>2. tasks' \in Seq(Types) /\ Len(tasks') = Len(tasks) + 1
    BY <1>1, <2>1
  <2>3. taken \in 0..Len(tasks')
    BY <1>1, <2>1, <2>2 DEF TypeOK
  <2>4. cur' \in Nat \ {0} /\ CurInRange'
    BY <1>1, <1>2 DEF CurInRange, inputs, Entries
  <2> QED
    BY <1>1, <1>3, <2>2, <2>3, <2>4 DEF TypeOK, Types, inputs
<1>5. ASSUME Sane'
      PROVE  Slicing'
  <2>1. Sane /\ Slicing
    BY <1>1, <1>5 DEF Sane, SlicingInv, Entries, inputs
  <2>2. /\ 0 <= startPos /\ startPos = SlicedUpTo
        /\ startPos - 1 <= limit /\ limit < allSize
        /\ Wrap(limit + 1) = limit + 1
    BY <1>1, <2>1, NoWrap DEF Slicing, Positions, AtSlice
  <2>3. /\ startPos' = limit + 1 /\ endPos' = limit + 1 /\ startPos <= limit + 1
        /\ 0 <= limit + 1 /\ limit + 1 <= allSize
    BY <1>1, <1>2, <2>2
  <2>4. Numbered' /\ SlicedUpTo' = limit + 1 /\ tasks' # <<>>
    BY <1>1, <1>2, <2>1, <2>2, <2>3, AppendNumbered DEF Slicing, inputs
  <2>5. Positions'
    BY <1>1, <2>3, <2>4 DEF Positions, inputs
  <2>6. AtEntry'
    <3>1. ASSUME cur # Len(Entries)
          PROVE  startPos' * snapshot.total <= AccBefore' * allSize
      <4>1. (limit + 1) * snapshot.total <= Entries[cur].acc * allSize
        BY <1>1, <2>1, <3>1 DEF Slicing, AtSlice
      <4>2. AccBefore' = Entries[cur].acc
        BY <1>1, <1>2 DEF AccBefore, Entries, inputs
      <4> QED
        BY <2>3, <4>1, <4>2
    <3> QED
      BY <1>1, <3>1 DEF AtEntry, inputs
  <2>7. AtEnd'
    BY <1>1, <1>2, <2>1, <2>3, <2>4 DEF AtEnd, Planned, Slicing, AtSlice, inputs, Entries
  <2>8. AtSlice'
    BY <1>1 DEF AtSlice
  <2> QED
    BY <2>4, <2>5, <2>6, <2>7, <2>8 DEF Slicing
<1> QED
  BY <1>4, <1>5 DEF SlicingInv

(* Choosing the direct chunks leaves the ranges alone. *)
LEMMA SlicingDirect ==
  SlicingInv /\ (TakeDirect \/ DirectFails \/ UNCHANGED vars) => SlicingInv'
<1> SUFFICES ASSUME SlicingInv, TakeDirect \/ DirectFails \/ UNCHANGED vars
             PROVE  SlicingInv'
  OBVIOUS
<1>1. /\ UNCHANGED <<inputs, cur, limit, startPos, endPos, tasks>>
      /\ pc' = pc \/ (pc = "direct" /\ pc' \in {"direct", "done", "failed"})
  BY DEF TakeDirect, DirectFails, vars, inputs
<1>2. TypeOK'
  <2>1. TypeOK /\ tasks \in Seq(Types)
    BY DEF SlicingInv, TypeOK, Types
  <2>2. Len(tasks) \in Nat
    BY <2>1, LenProperties
  <2>3. CASE TakeDirect
    <3>1. taken + 1 \in 1..Len(tasks)
      BY <2>1, <2>2, <2>3 DEF TakeDirect, TypeOK
    <3>2. tasks[taken+1] \in Types
      BY <2>1, <3>1, ElementOfSeq
    <3>3. add' \in Int
      BY <2>1, <2>3, <3>2 DEF TakeDirect, TypeOK, Types
    <3> QED
      BY <1>1, <2>1, <2>3, <3>1, <3>3 DEF TakeDirect, TypeOK, inputs
  <2>4. CASE DirectFails
    BY <2>1, <2>4 DEF DirectFails, TypeOK, inputs
  <2>5. CASE UNCHANGED vars
    BY <2>1, <2>5 DEF vars, TypeOK
  <2> QED
    BY <2>3, <2>4, <2>5
<1>3. CurInRange'
  BY <1>1 DEF SlicingInv, CurInRange, inputs, Entries
<1>4. Sane' => Slicing'
  BY <1>1 DEF SlicingInv, Slicing, Sane, Numbered, Positions, SlicedUpTo,
              AtEntry, AccBefore, AtSlice, AtEnd, Planned, inputs, Entries
<1> QED
  BY <1>2, <1>3, <1>4 DEF SlicingInv

(* Every state of ChunkCalculate satisfies the slicing invariant.          *)
THEOREM SlicingCorrect == Spec => []SlicingInv
<1>1. SlicingInv /\ [Next]_vars => SlicingInv'
  BY SlicingBeginEntry, SlicingFull, SlicingRest, SlicingDirect DEF Next, Terminated
<1> QED
  BY SlicingInit, <1>1, PTL DEF Spec

(* The loop variables keep their types, for every snapshot and size.       *)
THEOREM PlanTypes == Spec => []TypeOK
<1>1. SlicingInv => TypeOK
  BY DEF SlicingInv
<1> QED
  BY <1>1, SlicingCorrect, PTL

(* For every snapshot with a positive total (or one entry), file size and  *)
(* chunk size, the ranges ChunkCalculate cuts partition the file.          *)
THEOREM PlanPartitions == Spec => []Partition
<1>1. ASSUME SlicingInv
      PROVE  Partition
  <2>1. ASSUME Sane
        PROVE  /\ \A k \in 1..Len(tasks) :
                    /\ tasks[k].index = k - 1
                    /\ tasks[k].start = (IF k = 1 THEN 0 ELSE tasks[k-1].end + 1)
               /\ Planned /\ Entries # <<>> =>
                    tasks # <<>> /\ tasks[Len(tasks)].end = allSize - 1
    <3>1. Numbered /\ Positions /\ AtEnd
      BY <1>1, <2>1 DEF SlicingInv, Slicing
    <3>2. ASSUME Planned, Entries # <<>>
          PROVE  tasks # <<>> /\ tasks[Len(tasks)].end = allSize - 1
      <4>1. tasks # <<>> /\ tasks[Len(tasks)].end + 1 = allSize
        BY <3>1, <3>2 DEF AtEnd, Positions, SlicedUpTo
      <4>2. tasks \in Seq(Types)
        BY <1>1 DEF SlicingInv, TypeOK, Types
      <4>3. tasks[Len(tasks)] \in Types
        BY <4>1, <4>2, EmptySeq, ElementOfSeq
      <4> QED
        BY <4>1, <4>3 DEF Types
    <3> QED
      BY <3>1, <3>2 DEF Numbered
  <2> QED
    BY <2>1 DEF Partition
<1> QED
  BY <1>1, SlicingCorrect, PTL

-----------------------------------------------------------------------------
(* The sizes of the ranges and the choice of the direct ones.              *)

Share == allSize \div NumWorkers

(* Before the first range nothing is sliced; an entry whose end is not     *)
(* behind its beginning has a share of no byte.                            *)
ZeroShares ==
  /\ pc = "entry" /\ cur = 1 => startPos = 0
  /\ pc = "slice" /\ limit < startPos => TaskSize(Entry.prob) = 0
  /\ \A k \in 1..Len(tasks) :
       tasks[k].end < tasks[k].start =>
         \E e \in 1..Len(Entries) :
           /\ Entries[e].ip = tasks[k].ip /\ Entries[e].index = tasks[k].client
           /\ TaskSize(Entries[e].prob) = 0

Bounded ==
  \A k \in 1..Len(tasks) : tasks[k].end - tasks[k].start + 1 < 2 * Best(tasks[k].ip)

(* Each direct chunk is counted two bytes short, so what is counted is the *)
(* end of the last of them less two bytes for each.                        *)
Counted ==
  /\ pc \in {"entry", "slice"} => taken = 0
  /\ add = (IF taken = 0 THEN 0 ELSE tasks[taken].end + 1) - 2 * taken
  /\ pc # "done" => add <= Share
  /\ pc = "done" =>
       /\ taken # 0 /\ add > Share
       /\ tasks[taken].start <= Share + 2 * (taken - 1)
  /\ pc = "failed" => taken = Len(tasks)

PlanInv == SlicingInv /\ (Sane => ZeroShares /\ Bounded /\ Counted)

(* The wanted share is a number of bytes. *)
LEMMA ShareType == ASSUME TypeOK PROVE Share \in Nat
<1>1. allSize \in Nat /\ NumWorkers \in Nat \ {0}
  BY PlanAssumption DEF TypeOK
<1> QED
  BY <1>1 DEF Share

(* Ranges are made of integers. *)
LEMMA TaskFacts ==
  ASSUME TypeOK
  PROVE  /\ Len(tasks) \in Nat
         /\ \A k \in 1..Len(tasks) : tasks[k] \in Types
<1>1. tasks \in Seq(Types)
  BY DEF TypeOK, Types
<1> QED
  BY <1>1, ElementOfSeq, LenProperties

LEMMA PlanInit == Init => PlanInv
<1> SUFFICES ASSUME Init PROVE PlanInv
  OBVIOUS
<1>1. SlicingInv
  BY SlicingInit
<1>2. Share \in Nat
  BY <1>1, ShareType DEF SlicingInv
<1>3. ZeroShares /\ Bounded
  BY DEF Init, ZeroShares, Bounded
<1>4. Counted
  BY <1>2 DEF Init, Counted
<1> QED
  BY <1>1, <1>3, <1>4 DEF PlanInv

(* A new entry that holds no byte has a share that rounds to none. *)
LEMMA PlanBeginEntry == PlanInv /\ BeginEntry => PlanInv'
<1> SUFFICES ASSUME PlanInv, BeginEntry PROVE PlanInv'
  OBVIOUS
<1>1. SlicingInv /\ SlicingInv'
  BY SlicingBeginEntry DEF PlanInv
<1>2. /\ pc = "entry" /\ pc' = "slice" /\ cur \in 1..Len(Entries) /\ TypeOK
      /\ UNCHANGED <<inputs, cur, startPos, endPos, tasks, add, taken>>
  BY <1>1 DEF BeginEntry, SlicingInv, CurInRange
<1> SUFFICES ASSUME Sane' PROVE ZeroShares' /\ Bounded' /\ Counted'
  BY <1>1 DEF PlanInv
<1>3. Sane /\ Slicing /\ ZeroShares /\ Bounded /\ Counted
  BY <1>1, <1>2 DEF Sane, PlanInv, SlicingInv, Entries, inputs
<1>4. Bounded'
  BY <1>2, <1>3 DEF Bounded, Best, inputs
<1>5. Counted'
  BY <1>2, <1>3 DEF Counted, Share, inputs
<1>6. limit' < startPos => TaskSize(Entry.prob) = 0
  <2> SUFFICES ASSUME limit' < startPos PROVE TaskSize(Entry.prob) = 0
    OBVIOUS
  <2>1. /\ Entry.prob \in Nat /\ AccBefore \in Nat /\ snapshot.total \in Int
        /\ Entries[cur].acc = AccBefore + Entry.prob
        /\ snapshot.total > 0 => Entries[cur].acc <= snapshot.total
        /\ allSize \in Nat \ {0} /\ MaxInt \in Nat /\ allSize < MaxInt
    BY <1>2, EntryFacts, BestFacts
  <2>2. /\ startPos \in Nat /\ startPos <= allSize
        /\ startPos * snapshot.total <= AccBefore * allSize
    BY <1>2, <1>3 DEF Slicing, Positions, AtEntry, TypeOK
  <2>3. CASE cur = Len(Entries)
    <3>1. limit' = allSize - 1
      BY <2>3 DEF BeginEntry
    <3>2. startPos = allSize
      BY <2>1, <2>2, <3>1
    <3>3. snapshot.total > 0
      <4>1. cur # 1
        BY <1>2, <1>3, <2>1, <3>2 DEF ZeroShares
      <4> QED
        BY <1>2, <1>3, <2>3, <4>1, EntryFacts DEF Sane
    <3>4. snapshot.total <= AccBefore
      BY <2>1, <2>2, <3>2, <3>3, CancelFactor
    <3>5. Entry.prob = 0
      BY <2>1, <3>3, <3>4
    <3>6. (0 * allSize) \div snapshot.total = 0
      BY <2>1, <3>3
    <3> QED
      BY <2>1, <3>3, <3>5, <3>6 DEF TaskSize, NaN
  <2>4. CASE cur # Len(Entries)
    <3> DEFINE q == (Entry.prob * allSize) \div snapshot.total
    <3>1. snapshot.total > 0
      BY <1>2, <1>3, <2>4, EntryFacts DEF Sane
    <3>2. q \in Nat /\ startPos + q <= allSize
      <4>1. /\ allSize \in Nat /\ snapshot.total \in Nat \ {0}
            /\ AccBefore + Entry.prob <= snapshot.total
        BY <2>1, <3>1
      <4> QED
        BY <2>1, <2>2, <4>1, ShareFits
    <3> HIDE DEF q
    <3>3. TaskSize(Entry.prob) = q
      BY <2>1, <3>1 DEF TaskSize, NaN, q
    <3>4. Wrap(startPos + q) = startPos + q
      BY <2>1, <2>2, <3>2, WrapType DEF MinInt
    <3>5. Wrap(startPos + q - 1) = startPos + q - 1
      BY <2>1, <2>2, <3>2, WrapType DEF MinInt
    <3>6. limit' = startPos + q - 1
      BY <2>2, <2>4, <3>2, <3>3, <3>4, <3>5 DEF BeginEntry
    <3> QED
      BY <2>2, <3>2, <3>3, <3>6
  <2> QED
    BY <2>3, <2>4
<1>7. ZeroShares'
  <2>1. \A p : TaskSize(p)' = TaskSize(p)
    BY <1>2 DEF TaskSize, inputs
  <2>2. Entry' = Entry /\ Entries' = Entries
    BY <1>2 DEF Entry, Entries, inputs
  <2>3. pc' = "slice" /\ limit' < startPos' => TaskSize(Entry.prob)' = 0
    BY <1>2, <1>6, <2>1, <2>2 DEF TaskSize, Entry, Entries, inputs
  <2>4. \A k \in 1..Len(tasks') :
          tasks'[k].end < tasks'[k].start =>
            \E e \in 1..Len(Entries') :
              /\ Entries'[e].ip = tasks'[k].ip /\ Entries'[e].index = tasks'[k].client
              /\ TaskSize(Entries[e].prob)' = 0
    BY <1>2, <1>3, <2>1, <2>2 DEF ZeroShares, TaskSize, Entries, inputs
  <2> QED
    BY <1>2, <2>3, <2>4 DEF ZeroShares
<1> QED
  BY <1>4, <1>5, <1>7

(* A range appended to ranges that have these properties. *)
LEMMA PlanAppend ==
  ASSUME TypeOK, cur \in 1..Len(Entries), Sane, ZeroShares, Bounded, Counted,
         pc = "slice", NEW end \in Int, tasks' = Append(tasks, Task(end)),
         UNCHANGED <<inputs, add, taken>>, pc' \in {"entry", "slice", "direct"},
         end - startPos + 1 < 2 * Best(Entry.ip),
         end < startPos => TaskSize(Entry.prob) = 0
  PROVE  /\ Bounded' /\ Counted'
         /\ \A k \in 1..Len(tasks') :
              tasks'[k].end < tasks'[k].start =>
                \E e \in 1..Len(Entries') :
                  /\ Entries'[e].ip = tasks'[k].ip /\ Entries'[e].index = tasks'[k].client
                  /\ TaskSize(Entries[e].prob)' = 0
<1>1. Task(end) \in Types /\ tasks \in Seq(Types)
  BY EntryFacts DEF Types, Task, TypeOK
<1>2. /\ Len(tasks) \in Nat /\ Len(tasks') = Len(tasks) + 1
      /\ tasks'[Len(tasks')] = Task(end)
      /\ \A k \in 1..Len(tasks) : tasks'[k] = tasks[k]
  BY <1>1
<1>3. /\ Task(end).start = startPos /\ Task(end).end = end
      /\ Task(end).ip = Entry.ip /\ Task(end).client = Entry.index
  BY DEF Task
<1>4. Entries' = Entries /\ bestChunk' = bestChunk /\ snapshot' = snapshot /\ allSize' = allSize
  BY DEF Entries, inputs
<1>5. Bounded'
  <2>1. ASSUME NEW k \in 1..Len(tasks')
        PROVE  tasks'[k].end - tasks'[k].start + 1 < 2 * Best(tasks'[k].ip)
    <3>1. CASE k = Len(tasks')
      BY <1>2, <1>3, <3>1
    <3>2. CASE k \in 1..Len(tasks)
      BY <1>2, <3>2 DEF Bounded
    <3> QED
      BY <1>2, <3>1, <3>2
  <2> QED
    BY <1>4, <2>1 DEF Bounded, Best
<1>6. Counted'
  <2>1. taken' = 0 /\ add' = add /\ Share' = Share
    BY <1>4 DEF Counted, Share
  <2>2. add = 0 /\ add <= Share
    BY DEF Counted
  <2> QED
    BY <2>1, <2>2 DEF Counted
<1>7. ASSUME NEW k \in 1..Len(tasks'), tasks'[k].end < tasks'[k].start
      PROVE  \E e \in 1..Len(Entries) :
               /\ Entries[e].ip = tasks'[k].ip /\ Entries[e].index = tasks'[k].client
               /\ TaskSize(Entries[e].prob) = 0
  <2>1. CASE k = Len(tasks')
    BY <1>2, <1>3, <1>7, <2>1 DEF Entry
  <2>2. CASE k \in 1..Len(tasks)
    BY <1>2, <1>7, <2>2 DEF ZeroShares
  <2> QED
    BY <1>2, <2>1, <2>2
<1>8. \A k \in 1..Len(tasks') :
        tasks'[k].end < tasks'[k].start =>
          \E e \in 1..Len(Entries') :
            /\ Entries'[e].ip = tasks'[k].ip /\ Entries'[e].index = tasks'[k].client
            /\ TaskSize(Entries[e].prob)' = 0
  BY <1>4, <1>7 DEF TaskSize
<1> QED
  BY <1>5, <1>6, <1>8

(* A full chunk is shorter than two and leaves the entry something. *)
LEMMA PlanFull == PlanInv /\ SliceFull => PlanInv'
<1> SUFFICES ASSUME PlanInv, SliceFull PROVE PlanInv'
  OBVIOUS
<1> DEFINE b == Best(Entry.ip)
           end == Wrap(endPos + (b - 1))
<1>1. SlicingInv /\ SlicingInv'
  BY SlicingFull DEF PlanInv
<1>2. /\ pc = "slice" /\ cur \in 1..Len(Entries) /\ TypeOK
      /\ UNCHANGED <<inputs, pc, cur, limit, add, taken>>
      /\ tasks' = Append(tasks, Task(end))
      /\ startPos' = Wrap(end + 1)
  BY <1>1 DEF SliceFull, AppendTask, SlicingInv, CurInRange
<1> SUFFICES ASSUME Sane' PROVE ZeroShares' /\ Bounded' /\ Counted'
  BY <1>1 DEF PlanInv
<1>3. Sane /\ Slicing /\ ZeroShares /\ Bounded /\ Counted
  BY <1>1, <1>2 DEF Sane, PlanInv, SlicingInv, Entries, inputs
<1>4. /\ startPos + 2 * b - 1 <= limit
      /\ end = startPos + b - 1
      /\ Wrap(startPos + b) = startPos + b
  BY <1>1, <1>2, <1>3, NoWrap DEF SliceFull
<1>5. b \in Nat /\ b >= 3 /\ startPos \in Int /\ limit \in Int
  BY <1>2, BestFacts DEF TypeOK
<1> HIDE DEF b, end
<1>6. end \in Int /\ end - startPos + 1 < 2 * b /\ startPos <= end /\ end + 1 = startPos + b
  BY <1>4, <1>5
<1>7. startPos' <= limit'
  BY <1>2, <1>4, <1>5, <1>6
<1>8. /\ Bounded' /\ Counted'
      /\ \A k \in 1..Len(tasks') :
           tasks'[k].end < tasks'[k].start =>
             \E e \in 1..Len(Entries') :
               /\ Entries'[e].ip = tasks'[k].ip /\ Entries'[e].index = tasks'[k].client
               /\ TaskSize(Entries[e].prob)' = 0
  <2>1. ~(end < startPos)
    BY <1>5, <1>6
  <2> QED
    BY <1>2, <1>3, <1>6, <2>1, PlanAppend DEF b
<1>9. ~(limit' < startPos')
  <2>1. limit' \in Int /\ startPos' \in Int
    BY <1>1 DEF SlicingInv, TypeOK
  <2> QED
    BY <1>7, <2>1
<1>10. ZeroShares'
  BY <1>2, <1>8, <1>9 DEF ZeroShares
<1> QED
  BY <1>8, <1>10

(* The rest of an entry is shorter than two chunks. *)
LEMMA PlanRest == PlanInv /\ SliceRest => PlanInv'
<1> SUFFICES ASSUME PlanInv, SliceRest PROVE PlanInv'
  OBVIOUS
<1> DEFINE b == Best(Entry.ip)
<1>1. SlicingInv /\ SlicingInv'
  BY SlicingRest DEF PlanInv
<1>2. /\ pc = "slice" /\ cur \in 1..Len(Entries) /\ TypeOK /\ ~FullChunkFits
      /\ UNCHANGED <<inputs, limit, add, taken>>
      /\ cur' = cur + 1 /\ pc' \in {"direct", "entry"}
      /\ tasks' = Append(tasks, Task(limit))
  BY <1>1 DEF SliceRest, AppendTask, SlicingInv, CurInRange
<1> SUFFICES ASSUME Sane' PROVE ZeroShares' /\ Bounded' /\ Counted'
  BY <1>1 DEF PlanInv
<1>3. Sane /\ Slicing /\ ZeroShares /\ Bounded /\ Counted
  BY <1>1, <1>2 DEF Sane, PlanInv, SlicingInv, Entries, inputs
<1>4. b \in Nat /\ startPos \in Int /\ limit \in Int
  BY <1>2, BestFacts DEF TypeOK
<1>5. limit - startPos + 1 < 2 * b
  <2>1. ~(startPos + 2 * b - 1 <= limit)
    BY <1>1, <1>2, <1>3, NoWrap
  <2> HIDE DEF b
  <2> QED
    BY <1>4, <2>1
<1>6. limit < startPos => TaskSize(Entry.prob) = 0
  BY <1>2, <1>3 DEF ZeroShares
<1>7. /\ Bounded' /\ Counted'
      /\ \A k \in 1..Len(tasks') :
           tasks'[k].end < tasks'[k].start =>
             \E e \in 1..Len(Entries') :
               /\ Entries'[e].ip = tasks'[k].ip /\ Entries'[e].index = tasks'[k].client
               /\ TaskSize(Entries[e].prob)' = 0
  BY <1>2, <1>3, <1>4, <1>5, <1>6, PlanAppend
<1>8. cur' # 1
  BY <1>2
<1> QED
  BY <1>2, <1>7, <1>8 DEF ZeroShares

(* One more direct chunk, counted two bytes short. *)
LEMMA PlanDirect == PlanInv /\ TakeDirect => PlanInv'
<1> SUFFICES ASSUME PlanInv, TakeDirect PROVE PlanInv'
  OBVIOUS
<1> DEFINE t == tasks[taken + 1]
<1>1. SlicingInv /\ SlicingInv'
  BY SlicingDirect DEF PlanInv
<1>2. /\ pc = "direct" /\ taken < Len(tasks) /\ taken' = taken + 1
      /\ add' = add + ((t.end - t.start) - 1)
      /\ pc' = IF add' > Share THEN "done" ELSE pc
      /\ UNCHANGED <<inputs, cur, limit, startPos, endPos, tasks>>
      /\ TypeOK
  BY <1>1 DEF TakeDirect, SlicingInv, Share
<1> SUFFICES ASSUME Sane' PROVE ZeroShares' /\ Bounded' /\ Counted'
  BY <1>1 DEF PlanInv
<1>3. Sane /\ Slicing /\ ZeroShares /\ Bounded /\ Counted
  BY <1>1, <1>2 DEF Sane, PlanInv, SlicingInv, Entries, inputs
<1>4. Bounded'
  BY <1>2, <1>3 DEF Bounded, Best, inputs
<1>5. ZeroShares'
  BY <1>2, <1>3 DEF ZeroShares, TaskSize, Entries, inputs
<1>6. /\ Len(tasks) \in Nat /\ taken \in Nat /\ taken + 1 \in 1..Len(tasks)
      /\ taken # 0 => taken \in 1..Len(tasks)
  <2>1. Len(tasks) \in Nat /\ taken \in 0..Len(tasks) /\ taken < Len(tasks)
    BY <1>2, TaskFacts DEF TypeOK
  <2> QED
    BY <2>1
<1>7. /\ t.end \in Int /\ t.start \in Int /\ add \in Int /\ Share \in Nat
      /\ taken # 0 => tasks[taken].end \in Int
  BY <1>2, <1>6, TaskFacts, ShareType DEF TypeOK, Types
<1>8. t.start = (IF taken = 0 THEN 0 ELSE tasks[taken].end + 1)
  <2>1. t.start = (IF taken + 1 = 1 THEN 0 ELSE tasks[(taken + 1) - 1].end + 1)
    BY <1>3, <1>6 DEF Slicing, Numbered
  <2> QED
    BY <1>6, <2>1
<1>9. /\ add = t.start - 2 * taken /\ add <= Share
  BY <1>2, <1>3, <1>8 DEF Counted
<1> HIDE DEF t
<1>10. add' = t.end + 1 - 2 * taken' /\ t.start <= Share + 2 * (taken' - 1)
  BY <1>2, <1>6, <1>7, <1>9
<1>11. tasks'[taken'] = t /\ taken' # 0 /\ Share' = Share /\ add' \in Int
  BY <1>2, <1>6, <1>7, <1>10 DEF t, Share, inputs
<1>12. CASE add' > Share
  <2>1. pc' = "done" /\ tasks' = tasks
    BY <1>2, <1>12
  <2>2. add' = (IF taken' = 0 THEN 0 ELSE tasks'[taken'].end + 1) - 2 * taken'
    BY <1>2, <1>6, <1>7, <1>10, <1>11, <2>1
  <2>3. tasks'[taken'].start <= Share' + 2 * (taken' - 1)
    BY <1>2, <1>6, <1>7, <1>10, <1>11, <2>1
  <2>4. pc' \notin {"entry", "slice"} /\ pc' # "failed"
    BY <2>1
  <2> QED
    BY <1>4, <1>5, <1>11, <1>12, <2>1, <2>2, <2>3, <2>4, Zenon DEF Counted
<1>13. CASE ~(add' > Share)
  <2>1. add' <= Share /\ pc' = "direct" /\ tasks' = tasks
    BY <1>2, <1>7, <1>11, <1>13
  <2>2. add' = (IF taken' = 0 THEN 0 ELSE tasks'[taken'].end + 1) - 2 * taken'
    BY <1>2, <1>6, <1>7, <1>10, <1>11, <2>1
  <2>3. pc' \notin {"entry", "slice"} /\ pc' # "failed" /\ pc' # "done"
    BY <2>1
  <2> QED
    BY <1>4, <1>5, <1>11, <2>1, <2>2, <2>3, Zenon DEF Counted
<1> QED
  BY <1>12, <1>13

(* The search for the cut ends without one, or nothing happens. *)
LEMMA PlanStays == PlanInv /\ (DirectFails \/ UNCHANGED vars) => PlanInv'
<1> SUFFICES ASSUME PlanInv, DirectFails \/ UNCHANGED vars PROVE PlanInv'
  OBVIOUS
<1>1. SlicingInv /\ SlicingInv'
  BY SlicingDirect DEF PlanInv
<1>2. /\ UNCHANGED <<inputs, cur, limit, startPos, endPos, tasks, add, taken>>
      /\ pc' = pc \/ (pc = "direct" /\ pc' = "failed" /\ taken = Len(tasks))
  BY DEF DirectFails, vars, inputs
<1> SUFFICES ASSUME Sane' PROVE ZeroShares' /\ Bounded' /\ Counted'
  BY <1>1 DEF PlanInv
<1>3. ZeroShares /\ Bounded /\ Counted
  BY <1>2 DEF Sane, PlanInv, Entries, inputs
<1>4. Bounded'
  BY <1>2, <1>3 DEF Bounded, Best, inputs
<1>5. ZeroShares'
  BY <1>2, <1>3 DEF ZeroShares, TaskSize, Entry, Entries, inputs
<1>6. Counted'
  BY <1>2, <1>3 DEF Counted, Share, inputs
<1> QED
  BY <1>4, <1>5, <1>6

(* Every state of both loops satisfies the strengthened invariant.         *)
THEOREM PlanInvariant == Spec => []PlanInv
<1>1. PlanInv /\ [Next]_vars => PlanInv'
  BY PlanBeginEntry, PlanFull, PlanRest, PlanDirect, PlanStays DEF Next, Terminated
<1> QED
  BY PlanInit, <1>1, PTL DEF Spec

(* No chunk reaches twice its card's best size.                            *)
THEOREM PlanChunksBounded == Spec => []ChunkBounded
<1>1. PlanInv => ChunkBounded
  BY DEF PlanInv, Bounded, ChunkBounded
<1> QED
  BY <1>1, PlanInvariant, PTL

(* Only an entry whose share rounds to no byte gets an empty range.        *)
THEOREM PlanEmptyRanges == Spec => []EmptyOnlyForZeroShare
<1>1. PlanInv => EmptyOnlyForZeroShare
  BY DEF PlanInv, ZeroShares, EmptyOnlyForZeroShare
<1> QED
  BY <1>1, PlanInvariant, PTL

(* The direct chunks hold the wanted share, and hardly more.               *)
THEOREM PlanDirectShare == Spec => []DirectShare
<1>1. ASSUME PlanInv
      PROVE  DirectShare
  <2> SUFFICES ASSUME Sane, pc = "done"
               PROVE  /\ LeftStart = taken
                      /\ tasks[taken].end + 1 > Share
                      /\ tasks[taken].start <= Share + 2 * (taken - 1)
    BY DEF DirectShare, Share
  <2>1. TypeOK /\ Numbered /\ Counted
    BY <1>1 DEF PlanInv, SlicingInv, Slicing
  <2>2. /\ taken # 0 /\ add > Share /\ add = (tasks[taken].end + 1) - 2 * taken
        /\ tasks[taken].start <= Share + 2 * (taken - 1)
    <3>1. taken # 0
      BY <2>1 DEF Counted
    <3> QED
      BY <2>1, <3>1 DEF Counted
  <2>3. taken \in 1..Len(tasks) /\ taken \in Nat /\ Share \in Nat
    BY <2>1, <2>2, TaskFacts, ShareType DEF TypeOK
  <2>4. tasks[taken].end \in Int /\ tasks[taken].index = taken - 1
    BY <2>1, <2>3, TaskFacts DEF Numbered, Types
  <2>5. LeftStart = taken
    BY <2>3, <2>4 DEF LeftStart
  <2>6. tasks[taken].end + 1 > Share
    BY <2>2, <2>3, <2>4
  <2> QED
    BY <2>2, <2>5, <2>6
<1> QED
  BY <1>1, PlanInvariant, PTL

(* ChunksDirectTaskGet only fails on a snapshot with entries when the two  *)
(* bytes it drops per chunk outweigh all but the wanted share of the file. *)
THEOREM PlanCutFails ==
  Spec => [](Sane /\ pc = "failed" /\ Entries # <<>> =>
               allSize <= Share + 2 * Len(tasks))
<1>1. ASSUME PlanInv, Sane, pc = "failed", Entries # <<>>
      PROVE  allSize <= Share + 2 * Len(tasks)
  <2>1. TypeOK /\ Positions /\ AtEnd /\ Counted
    BY <1>1 DEF PlanInv, SlicingInv, Slicing
  <2>2. tasks # <<>> /\ tasks[Len(tasks)].end + 1 = allSize
    BY <1>1, <2>1 DEF AtEnd, Planned, Positions, SlicedUpTo
  <2>3. taken = Len(tasks) /\ add <= Share
    BY <1>1, <2>1 DEF Counted
  <2>4. Len(tasks) \in Nat /\ Len(tasks) # 0 /\ allSize \in Nat /\ Share \in Nat
    BY <2>1, <2>2, TaskFacts, ShareType, PlanAssumption DEF TypeOK
  <2>5. add = allSize - 2 * Len(tasks)
    BY <2>1, <2>2, <2>3, <2>4 DEF Counted
  <2> QED
    BY <2>3, <2>4, <2>5
<1> QED
  BY <1>1, PlanInvariant, PTL

-----------------------------------------------------------------------------
(* How many chunks there are, and how many iterations are left.            *)

(* Every full chunk takes b bytes of the file; each entry adds its rest.   *)
Packed(b) ==
  Sane =>
    /\ pc \in {"entry", "slice"} => b * Len(tasks) <= startPos + b * (cur - 1)
    /\ Planned => b * Len(tasks) <= startPos + b * Len(Entries)

(* Entries are counted, bytes are numbers, positions stay in the file.     *)
Counts ==
  /\ Len(Entries) \in Nat /\ Len(tasks) \in Nat
  /\ allSize \in Nat /\ cur \in Nat /\ startPos \in Int
  /\ taken \in 0..Len(tasks)
  /\ Sane => 0 <= startPos /\ startPos <= allSize
  /\ pc \in {"entry", "slice"} => cur \in 1..Len(Entries)

LEMMA PlanNumbers == SlicingInv => Counts
<1> SUFFICES ASSUME SlicingInv PROVE Counts
  OBVIOUS
<1>1. IsSnapshot(snapshot) /\ TypeOK
  BY PlanAssumption DEF SlicingInv, TypeOK
<1>2. Len(Entries) \in Nat
  BY <1>1, LenProperties DEF IsSnapshot, Entries
<1> QED
  BY <1>1, <1>2, TaskFacts, PlanAssumption
     DEF Counts, TypeOK, SlicingInv, Slicing, Positions, CurInRange

(* A full chunk takes the card's best size off the file.                   *)
LEMMA FullTakes ==
  ASSUME SlicingInv, Sane, SliceFull
  PROVE  /\ pc = "slice" /\ pc' = "slice" /\ cur' = cur
         /\ Len(tasks') = Len(tasks) + 1
         /\ Best(Entry.ip) \in Nat /\ Best(Entry.ip) >= 3
         /\ startPos' = startPos + Best(Entry.ip)
<1>1. /\ pc = "slice" /\ pc' = "slice" /\ cur' = cur
      /\ startPos' = Wrap(Wrap(endPos + (Best(Entry.ip) - 1)) + 1)
      /\ tasks' = Append(tasks, Task(Wrap(endPos + (Best(Entry.ip) - 1))))
  BY DEF SliceFull, AppendTask
<1>2. cur \in 1..Len(Entries) /\ TypeOK
  BY <1>1, PlanNumbers DEF Counts, SlicingInv
<1> DEFINE b == Best(Entry.ip)
<1>3. b \in Nat /\ b >= 3 /\ startPos \in Int
  BY <1>2, BestFacts DEF TypeOK
<1>4. Wrap(endPos + (b - 1)) = startPos + b - 1 /\ Wrap(startPos + b) = startPos + b
  BY <1>1, NoWrap
<1> HIDE DEF b
<1>5. (startPos + b - 1) + 1 = startPos + b
  BY <1>3
<1>6. startPos' = startPos + b
  BY <1>1, <1>4, <1>5 DEF b
<1>7. tasks \in Seq(Types)
  BY <1>2 DEF TypeOK, Types
<1>8. Len(tasks') = Len(tasks) + 1
  BY <1>1, <1>7
<1> QED
  BY <1>1, <1>3, <1>6, <1>8 DEF b

(* The rest of an entry takes what is left of it, which may be nothing.    *)
LEMMA RestTakes ==
  ASSUME SlicingInv, Sane, SliceRest
  PROVE  /\ pc = "slice" /\ cur' = cur + 1
         /\ pc' = (IF cur = Len(Entries) THEN "direct" ELSE "entry")
         /\ Len(tasks') = Len(tasks) + 1 /\ taken' = taken
         /\ startPos' \in Int /\ startPos <= startPos'
<1>1. /\ pc = "slice" /\ cur' = cur + 1 /\ taken' = taken
      /\ pc' = (IF cur = Len(Entries) THEN "direct" ELSE "entry")
      /\ startPos' = Wrap(limit + 1)
      /\ tasks' = Append(tasks, Task(limit))
  BY DEF SliceRest, AppendTask
<1>2. /\ TypeOK /\ Wrap(limit + 1) = limit + 1 /\ startPos - 1 <= limit
  BY <1>1, NoWrap DEF SlicingInv, Slicing, AtSlice
<1>3. tasks \in Seq(Types) /\ limit \in Int /\ startPos \in Int
  BY <1>2 DEF TypeOK, Types
<1>4. Len(tasks') = Len(tasks) + 1
  BY <1>1, <1>3
<1> QED
  BY <1>1, <1>2, <1>3, <1>4

(* Every step keeps the number of chunks below what the file has room for. *)
LEMMA PackedStep ==
  ASSUME NEW b \in Nat \ {0}, SlicingInv, SlicingInv', Packed(b), [Next]_vars,
         b <= DefaultChunk,
         \A c \in BestChunks : \A ip \in DOMAIN c : c[ip] > 0 => b <= c[ip]
  PROVE  Packed(b)'
<1> SUFFICES ASSUME Sane' PROVE
      /\ pc' \in {"entry", "slice"} => b * Len(tasks') <= startPos' + b * (cur' - 1)
      /\ Planned' => b * Len(tasks') <= startPos' + b * Len(Entries')
  BY DEF Packed
<1>1. Entries' = Entries /\ Sane
  BY DEF Next, BeginEntry, SliceFull, SliceRest, TakeDirect, DirectFails, Terminated,
         vars, inputs, Entries, Sane
<1>2. /\ Len(Entries) \in Nat /\ Len(tasks) \in Nat /\ cur \in Nat /\ startPos \in Int
      /\ pc \in {"entry", "slice"} => cur \in 1..Len(Entries)
  BY PlanNumbers DEF Counts
<1>3. CASE BeginEntry
  BY <1>1, <1>3 DEF BeginEntry, Packed, Planned
<1>4. CASE SliceFull
  <2>1. /\ pc = "slice" /\ pc' = "slice" /\ cur' = cur /\ Len(tasks') = Len(tasks) + 1
        /\ startPos' = startPos + Best(Entry.ip) /\ Best(Entry.ip) \in Nat
    BY <1>1, <1>4, FullTakes
  <2>2. b <= Best(Entry.ip)
    <3>1. Entry.ip \in DOMAIN bestChunk /\ bestChunk \in BestChunks
      BY <1>2, <2>1, PlanAssumption DEF SlicingInv, TypeOK, Entry, Entries
    <3>2. bestChunk[Entry.ip] \in Int /\ DefaultChunk \in Nat
      BY <3>1, PlanAssumption
    <3> QED
      BY <3>1, <3>2 DEF Best
  <2>3. b * Len(tasks) <= startPos + b * (cur - 1)
    BY <1>1, <2>1 DEF Packed
  <2>4. b * Len(tasks') = b * Len(tasks) + b
    BY <1>2, <2>1
  <2>5. b * (cur - 1) \in Int /\ b * Len(tasks) \in Int
    BY <1>2
  <2>6. b * Len(tasks') <= startPos' + b * (cur' - 1)
    BY <1>2, <2>1, <2>2, <2>3, <2>4, <2>5
  <2> QED
    BY <2>1, <2>6 DEF Planned
<1>5. CASE SliceRest
  <2>1. /\ pc = "slice" /\ cur' = cur + 1 /\ Len(tasks') = Len(tasks) + 1
        /\ pc' = (IF cur = Len(Entries) THEN "direct" ELSE "entry")
        /\ startPos' \in Int /\ startPos <= startPos'
    BY <1>1, <1>5, RestTakes
  <2>2. b * Len(tasks) <= startPos + b * (cur - 1)
    BY <1>1, <2>1 DEF Packed
  <2>3. b * Len(tasks') = b * Len(tasks) + b /\ b * (cur' - 1) = b * (cur - 1) + b
    BY <1>2, <2>1
  <2>4. b * (cur - 1) \in Int /\ b * Len(tasks) \in Int
    BY <1>2
  <2>5. b * Len(tasks') <= startPos' + b * (cur' - 1)
    BY <1>2, <2>1, <2>2, <2>3, <2>4
  <2>6. Planned' => cur' - 1 = Len(Entries)
    BY <1>2, <2>1 DEF Planned
  <2> QED
    BY <1>1, <2>5, <2>6
<1>6. CASE TakeDirect \/ DirectFails
  <2>1. /\ pc = "direct" /\ UNCHANGED <<startPos, tasks>>
        /\ pc' \in {"direct", "done", "failed"}
    BY <1>6 DEF TakeDirect, DirectFails
  <2> QED
    BY <1>1, <2>1 DEF Packed, Planned
<1>7. CASE Terminated \/ UNCHANGED vars
  BY <1>1, <1>7 DEF Terminated, vars, Packed, Planned
<1> QED
  BY <1>3, <1>4, <1>5, <1>6, <1>7 DEF Next

(* Chunks are never smaller than b bytes, so a file holds so many of them. *)
LEMMA PackedAlways ==
  ASSUME NEW b \in Nat \ {0}, b <= DefaultChunk,
         \A c \in BestChunks : \A ip \in DOMAIN c : c[ip] > 0 => b <= c[ip]
  PROVE  Spec => []Packed(b)
<1>1. Init => Packed(b)
  <2> SUFFICES ASSUME Init PROVE Packed(b)
    OBVIOUS
  <2>1. SlicingInv
    BY SlicingInit
  <2>2. Len(Entries) \in Nat /\ tasks = <<>> /\ startPos = 0 /\ cur = 1
    BY <2>1, PlanNumbers DEF Counts, Init
  <2>3. b * Len(tasks) = 0 /\ b * Len(Entries) >= 0 /\ b * (cur - 1) = 0
    BY <2>2
  <2> QED
    BY <2>2, <2>3 DEF Packed
<1>2. SlicingInv /\ SlicingInv' /\ Packed(b) /\ [Next]_vars => Packed(b)'
  BY PackedStep
<1> QED
  BY <1>1, <1>2, SlicingCorrect, PTL DEF Spec

(* Every chunk is some entry's. *)
Owned ==
  \A k \in 1..Len(tasks) : \E e \in 1..Len(Entries) : tasks[k].ip = Entries[e].ip

LEMMA OwnedAlways == Spec => []Owned
<1>1. Init => Owned
  BY DEF Init, Owned
<1>2. ASSUME SlicingInv, Owned, [Next]_vars
      PROVE  Owned'
  <2>1. Entries' = Entries
    BY <1>2 DEF Next, BeginEntry, SliceFull, SliceRest, TakeDirect, DirectFails, Terminated,
           vars, inputs, Entries
  <2>2. CASE tasks' = tasks
    BY <1>2, <2>1, <2>2 DEF Owned
  <2>3. CASE \E end \in Int : tasks' = Append(tasks, Task(end)) /\ pc = "slice"
    <3>1. PICK end \in Int : tasks' = Append(tasks, Task(end))
      BY <2>3
    <3>2. TypeOK /\ cur \in 1..Len(Entries)
      BY <1>2, <2>3 DEF SlicingInv, CurInRange
    <3>3. tasks \in Seq(Types) /\ Task(end).ip = Entries[cur].ip /\ Task(end) \in Types
      BY <3>2, EntryFacts DEF TypeOK, Types, Task, Entry
    <3>4. /\ Len(tasks') = Len(tasks) + 1 /\ tasks'[Len(tasks')] = Task(end)
          /\ \A k \in 1..Len(tasks) : tasks'[k] = tasks[k]
          /\ Len(tasks) \in Nat
      BY <3>1, <3>3
    <3>5. ASSUME NEW k \in 1..Len(tasks')
          PROVE  \E e \in 1..Len(Entries) : tasks'[k].ip = Entries[e].ip
      <4>1. CASE k = Len(tasks')
        BY <3>2, <3>3, <3>4, <4>1
      <4>2. CASE k \in 1..Len(tasks)
        BY <1>2, <3>4, <4>2 DEF Owned
      <4> QED
        BY <3>4, <4>1, <4>2
    <3> QED
      BY <2>1, <3>5 DEF Owned
  <2>4. ASSUME SliceFull \/ SliceRest
        PROVE  \E end \in Int : tasks' = Append(tasks, Task(end)) /\ pc = "slice"
    <3>1. TypeOK /\ (pc = "slice" => cur \in 1..Len(Entries))
      BY <1>2 DEF SlicingInv, CurInRange
    <3>2. CASE SliceFull
      <4>1. Wrap(endPos + (Best(Entry.ip) - 1)) \in Int
        <5>1. endPos \in Int /\ Best(Entry.ip) \in Int
          BY <3>1, <3>2, BestFacts DEF TypeOK, SliceFull
        <5> QED
          BY <5>1, WrapType
      <4> QED
        BY <3>2, <4>1 DEF SliceFull, AppendTask
    <3>3. CASE SliceRest
      BY <3>1, <3>3 DEF SliceRest, AppendTask, TypeOK
    <3> QED
      BY <2>4, <3>2, <3>3
  <2> QED
    BY <1>2, <2>2, <2>3, <2>4 DEF Next, BeginEntry, TakeDirect, DirectFails, Terminated, vars
<1> QED
  BY <1>1, <1>2, SlicingCorrect, PTL DEF Spec

(* n chunks of b bytes and e rests fill at most S bytes, of which D is the *)
(* direct share: what is not direct is more than two bytes for each chunk. *)
LEMMA RestOutweighs ==
  ASSUME NEW b \in Nat \ {0}, NEW S \in Nat, NEW D \in Nat, NEW n \in Nat, NEW e \in Nat,
         NEW c \in Nat,
         b * n <= S + b * e, b * (S - D - 2 * c) > 2 * S + 2 * b * e
  PROVE  S > D + 2 * c + 2 * n
<1> SUFFICES ASSUME S - D - 2 * c <= 2 * n PROVE FALSE
  OBVIOUS
<1>1. b * (S - D - 2 * c) <= b * (2 * n)
  <2>1. S - D - 2 * c \in Int
    OBVIOUS
  <2> DEFINE x == S - D - 2 * c
  <2> HIDE DEF x
  <2>2. ASSUME x \in Int, x <= 2 * n PROVE b * x <= b * (2 * n)
    BY <2>2
  <2> QED
    BY <2>1, <2>2 DEF x
<1>2. b * (2 * n) = 2 * (b * n) /\ 2 * b * e = 2 * (b * e) /\ b * n \in Int /\ b * e \in Int
  OBVIOUS
<1>3. b * (S - D - 2 * c) \in Int
  OBVIOUS
<1> DEFINE u == b * (S - D - 2 * c)
           v == b * n
           w == b * e
<1>4. u \in Int /\ v \in Int /\ w \in Int /\ v <= S + w /\ u > 2 * S + 2 * w /\ u <= 2 * v
  BY <1>1, <1>2, <1>3
<1> HIDE DEF u, v, w
<1> QED
  BY <1>4

(* For large files the error return of ChunksDirectTaskGet is left to the  *)
(* empty snapshot: the chunks that go short two bytes each are too few to  *)
(* lose what the prefetched part of the file holds.                        *)
THEOREM PlanCutFound ==
  ASSUME NEW b \in Nat, LargeFiles(b)
  PROVE  Spec => []CutFound
<1>1. /\ b \in Nat \ {0} /\ b <= DefaultChunk
      /\ \A c \in BestChunks : \A ip \in DOMAIN c : c[ip] > 0 => b <= c[ip]
      /\ \A size \in Sizes, s \in Snapshots :
           b * (size - size \div NumWorkers) > 2 * size + 2 * b * Len(s.entries)
  BY DEF LargeFiles
<1> DEFINE Outweighed ==
      Sane /\ pc = "failed" /\ Entries # <<>> => allSize <= Share + 2 * Len(tasks)
<1>2. SlicingInv /\ Packed(b) /\ Outweighed => CutFound
  <2> SUFFICES ASSUME SlicingInv, Packed(b), Outweighed, Sane, pc = "failed", Entries # <<>>
               PROVE  FALSE
    BY DEF CutFound
  <2>1. /\ Len(Entries) \in Nat /\ Len(tasks) \in Nat /\ allSize \in Nat
        /\ startPos \in Int /\ startPos <= allSize
    BY PlanNumbers DEF Counts
  <2>2. /\ allSize <= Share + 2 * Len(tasks)
        /\ b * Len(tasks) <= startPos + b * Len(Entries)
    BY DEF Packed, Planned
  <2>3. Share \in Nat
    BY ShareType DEF SlicingInv
  <2>4. b * (allSize - Share) > 2 * allSize + 2 * b * Len(Entries)
    BY <1>1 DEF SlicingInv, TypeOK, Share, Entries
  <2>5. PICK n \in Nat, e \in Nat, D \in Nat : n = Len(tasks) /\ e = Len(Entries) /\ D = Share
    BY <2>1, <2>3
  <2>6. b * n <= allSize + b * e
    <3>1. b * n \in Int /\ b * e \in Int
      BY <1>1
    <3> QED
      BY <2>1, <2>2, <2>5, <3>1
  <2>7. b * (allSize - D - 2 * 0) > 2 * allSize + 2 * b * e
    <3>1. allSize - D - 2 * 0 = allSize - D
      BY <2>1
    <3> QED
      BY <2>4, <2>5, <3>1, Zenon
  <2>8. allSize > D + 2 * 0 + 2 * n
    BY <1>1, <2>1, <2>6, <2>7, RestOutweighs
  <2> QED
    BY <2>1, <2>2, <2>5, <2>8
<1>3. Spec => []Outweighed
  BY PlanCutFails
<1>4. Spec => []Packed(b)
  BY <1>1, PackedAlways
<1> HIDE DEF Outweighed
<1> QED
  BY <1>2, <1>3, <1>4, SlicingCorrect, PTL

(* A file that outweighs its direct share and one largest chunk leaves     *)
(* work to prefetch: the job ChunkJob models then has LeftStart <          *)
(* NumChunks, on which that nobody waits for ever depends there.           *)
THEOREM PlanSharesWork ==
  ASSUME NEW b \in Nat, NEW c \in Nat, MoreThanDirect(b, c)
  PROVE  Spec => []WorkToShare
<1>1. /\ b \in Nat \ {0} /\ b <= DefaultChunk /\ DefaultChunk <= c
      /\ \A best \in BestChunks : \A ip \in DOMAIN best :
           best[ip] > 0 => b <= best[ip] /\ best[ip] <= c
      /\ \A size \in Sizes, s \in Snapshots :
           b * (size - size \div NumWorkers - 2 * c) > 2 * size + 2 * b * Len(s.entries)
  BY DEF MoreThanDirect
<1>2. PlanInv /\ Packed(b) /\ Owned => WorkToShare
  <2> SUFFICES ASSUME PlanInv, Packed(b), Owned, Sane, pc = "done", LeftStart >= Len(tasks)
               PROVE  FALSE
    <3>1. PlanInv /\ Sane /\ pc = "done" => LeftStart \in Int /\ Len(tasks) \in Int
      <4> SUFFICES ASSUME PlanInv, Sane, pc = "done" PROVE LeftStart \in Int /\ Len(tasks) \in Int
        OBVIOUS
      <4>1. TypeOK /\ taken # 0
        BY DEF PlanInv, SlicingInv, Counted
      <4>2. taken \in 1..Len(tasks) /\ Len(tasks) \in Nat
        BY <4>1, TaskFacts DEF TypeOK
      <4>3. tasks[taken].index \in Nat
        BY <4>1, <4>2, TaskFacts DEF Types
      <4> QED
        BY <4>2, <4>3 DEF LeftStart
    <3> QED
      BY <3>1 DEF WorkToShare
  <2>1. SlicingInv /\ TypeOK /\ Numbered /\ Positions /\ AtEnd /\ Counted /\ Bounded
    BY DEF PlanInv, SlicingInv, Slicing
  <2>2. /\ Len(Entries) \in Nat /\ Len(tasks) \in Nat /\ allSize \in Nat
        /\ startPos \in Int /\ startPos <= allSize /\ taken \in 0..Len(tasks)
    BY <2>1, PlanNumbers DEF Counts
  <2>3. taken # 0 /\ tasks[taken].start <= Share + 2 * (taken - 1) /\ Share \in Nat
    BY <2>1, ShareType DEF Counted
  <2>4. taken \in 1..Len(tasks) /\ tasks[taken].index = taken - 1 /\ tasks[taken] \in Types
    BY <2>1, <2>2, <2>3, TaskFacts DEF Numbered
  <2>5. taken = Len(tasks)
    BY <2>2, <2>4 DEF LeftStart
  <2>6. tasks[taken].end + 1 = allSize
    <3>1. Entries # <<>>
      BY <2>2, <2>4 DEF Owned
    <3> QED
      BY <2>1, <2>4, <2>5, <3>1 DEF AtEnd, Planned, Positions, SlicedUpTo
  <2>7. tasks[taken].end - tasks[taken].start + 1 < 2 * c
    <3> DEFINE ip == tasks[taken].ip
    <3>1. tasks[taken].end - tasks[taken].start + 1 < 2 * Best(ip)
      BY <2>1, <2>4 DEF Bounded
    <3>2. ip \in DOMAIN bestChunk /\ bestChunk \in BestChunks
      BY <2>1, <2>4, PlanAssumption DEF Owned, TypeOK, Entries
    <3>3. bestChunk[ip] \in Int /\ DefaultChunk \in Nat
      BY <3>2, PlanAssumption
    <3>4. Best(ip) \in Nat /\ Best(ip) <= c
      BY <1>1, <3>2, <3>3 DEF Best
    <3> HIDE DEF ip
    <3> QED
      BY <1>1, <2>4, <3>1, <3>4 DEF Types
  <2>8. b * Len(tasks) <= startPos + b * Len(Entries)
    BY DEF Packed, Planned
  <2>9. b * (allSize - Share - 2 * c) > 2 * allSize + 2 * b * Len(Entries)
    BY <1>1, <2>1 DEF TypeOK, Share, Entries
  <2>10. PICK n \in Nat, e \in Nat, D \in Nat : n = Len(tasks) /\ e = Len(Entries) /\ D = Share
    BY <2>2, <2>3
  <2>11. b * n <= allSize + b * e
    <3>1. b * n \in Int /\ b * e \in Int
      BY <1>1
    <3> QED
      BY <2>2, <2>8, <2>10, <3>1
  <2>12. b * (allSize - D - 2 * c) > 2 * allSize + 2 * b * e
    BY <2>9, <2>10, Zenon
  <2>13. allSize > D + 2 * c + 2 * n
    BY <1>1, <2>2, <2>11, <2>12, RestOutweighs
  <2>14. allSize < 2 * c + D + 2 * (n - 1)
    BY <2>2, <2>3, <2>4, <2>5, <2>6, <2>7, <2>10 DEF Types
  <2> QED
    BY <2>2, <2>10, <2>13, <2>14
<1>3. Spec => []Packed(b)
  BY <1>1, PackedAlways
<1> QED
  BY <1>2, <1>3, OwnedAlways, PlanInvariant, PTL

(* What is left of the file once more of it is sliced. *)
LEMMA LessLeft ==
  ASSUME NEW S \in Nat, NEW s \in Int, NEW t \in Int, s <= t, t <= S
  PROVE  S - s \in Nat /\ S - t \in Nat /\ S - t <= S - s
  OBVIOUS

(* The arithmetic of one slicing step: n chunks, c entries left, x bytes. *)
Bound(x, c, n) == 2 * x + 3 * c + n

LEMMA Falls ==
  ASSUME NEW x \in Nat, NEW y \in Nat, NEW c \in Nat \ {0}, NEW n \in Nat, NEW k \in 0..n,
         y <= x
  PROVE  /\ y + 3 <= x => Bound(y, c, n + 1) + 2 < Bound(x, c, n) + 2
         /\ Bound(y, c - 1, n + 1) + 3 < Bound(x, c, n) + 2
         /\ (n + 1) - k + 1 < Bound(x, c, n) + 2 /\ (n + 1) - k + 1 >= 0
         /\ Bound(y, c, n + 1) + 2 >= 0 /\ Bound(y, c - 1, n + 1) + 3 >= 0
  BY DEF Bound

(* Both loops end: every iteration lowers the bound on those still to      *)
(* come, so a sane plan is ready after at most that many.                  *)
THEOREM PlanLoopsEnd == Spec => LoopsEnd
<1>1. ASSUME SlicingInv, SlicingInv', [Next]_vars
      PROVE  [Sane => StepsLeft' < StepsLeft /\ StepsLeft' >= 0]_vars
  <2> SUFFICES ASSUME Next, Sane, ~UNCHANGED vars
               PROVE  StepsLeft' < StepsLeft /\ StepsLeft' >= 0
    BY <1>1
  <2>1. /\ Entries' = Entries /\ allSize' = allSize /\ Sane'
    BY DEF Next, BeginEntry, SliceFull, SliceRest, TakeDirect, DirectFails, Terminated,
           vars, inputs, Entries, Sane
  <2>2. /\ Len(Entries) \in Nat /\ Len(tasks) \in Nat /\ allSize \in Nat
        /\ cur \in Nat /\ startPos \in Int /\ taken \in 0..Len(tasks)
        /\ startPos <= allSize
        /\ pc \in {"entry", "slice"} => cur \in 1..Len(Entries)
    BY <1>1, PlanNumbers DEF Counts
  <2>3. /\ Len(tasks') \in Nat /\ cur' \in Nat /\ startPos' \in Int
        /\ startPos' <= allSize /\ taken' \in 0..Len(tasks')
        /\ pc' \in {"entry", "slice"} => cur' \in 1..Len(Entries)
    <3>1. Counts'
      BY <1>1, PlanNumbers, PTL
    <3> QED
      BY <2>1, <3>1 DEF Counts
  <2>4. CASE BeginEntry
    <3>1. /\ pc = "entry" /\ pc' = "slice" /\ UNCHANGED <<cur, startPos, tasks, taken>>
      BY <2>4 DEF BeginEntry
    <3> QED
      BY <2>1, <2>2, <3>1 DEF StepsLeft
  <2>5. CASE SliceFull
    <3>1. /\ pc = "slice" /\ pc' = "slice" /\ cur' = cur /\ Len(tasks') = Len(tasks) + 1
          /\ startPos' = startPos + Best(Entry.ip)
          /\ Best(Entry.ip) \in Nat /\ Best(Entry.ip) >= 3
      BY <1>1, <2>5, FullTakes
    <3>2. /\ allSize - startPos \in Nat /\ allSize - startPos' \in Nat
          /\ (allSize - startPos') + 3 <= allSize - startPos
          /\ Len(Entries) + 1 - cur \in Nat \ {0}
      BY <2>2, <2>3, <3>1
    <3>3. /\ StepsLeft = Bound(allSize - startPos, Len(Entries) + 1 - cur, Len(tasks)) + 2
          /\ StepsLeft' = Bound(allSize - startPos', Len(Entries) + 1 - cur, Len(tasks) + 1) + 2
      BY <2>1, <3>1, Zenon DEF StepsLeft, Bound
    <3>4. Len(tasks) \in Nat /\ 0 \in 0..Len(tasks)
      BY <2>2
    <3>5. /\ Bound(allSize - startPos', Len(Entries) + 1 - cur, Len(tasks) + 1) + 2
             < Bound(allSize - startPos, Len(Entries) + 1 - cur, Len(tasks)) + 2
          /\ Bound(allSize - startPos', Len(Entries) + 1 - cur, Len(tasks) + 1) + 2 >= 0
      <4> HIDE DEF Bound
      <4>1. allSize - startPos' <= allSize - startPos
        BY <3>2
      <4> QED
        BY <3>2, <3>4, <4>1, Falls
    <3> QED
      BY <3>3, <3>5, Zenon
  <2>6. CASE SliceRest
    <3>1. /\ pc = "slice" /\ cur' = cur + 1 /\ Len(tasks') = Len(tasks) + 1
          /\ pc' = (IF cur = Len(Entries) THEN "direct" ELSE "entry")
          /\ taken' = taken /\ startPos' \in Int /\ startPos <= startPos'
      BY <1>1, <2>6, RestTakes
    <3>2. /\ allSize - startPos \in Nat /\ allSize - startPos' \in Nat
          /\ allSize - startPos' <= allSize - startPos
          /\ Len(Entries) + 1 - cur \in Nat \ {0}
          /\ Len(Entries) + 1 - (cur + 1) = (Len(Entries) + 1 - cur) - 1
      <4>1. cur <= Len(Entries) /\ cur \in Nat /\ Len(Entries) \in Nat
        BY <2>2, <3>1
      <4>2. /\ allSize \in Nat /\ startPos \in Int /\ startPos' \in Int
            /\ startPos <= startPos' /\ startPos' <= allSize
        BY <2>2, <2>3, <3>1
      <4>3. Len(Entries) + 1 - cur \in Nat \ {0}
        BY <4>1
      <4>4. Len(Entries) + 1 - (cur + 1) = (Len(Entries) + 1 - cur) - 1
        BY <4>1
      <4> QED
        BY <4>2, <4>3, <4>4, LessLeft
    <3>3. StepsLeft = Bound(allSize - startPos, Len(Entries) + 1 - cur, Len(tasks)) + 2
      BY <3>1, Zenon DEF StepsLeft, Bound
    <3>4. CASE cur = Len(Entries)
      <4>1. pc' = "direct"
        BY <3>1, <3>4
      <4>2. StepsLeft' = (Len(tasks) + 1) - taken + 1
        BY <3>1, <4>1, Zenon DEF StepsLeft
      <4> QED
        BY <2>2, <3>2, <3>3, <4>2, Falls
    <3>5. CASE cur # Len(Entries)
      <4>1. pc' = "entry"
        BY <3>1, <3>5
      <4>2. StepsLeft' =
              Bound(allSize - startPos', Len(Entries) + 1 - (cur + 1), Len(tasks) + 1) + 3
        BY <2>1, <3>1, <4>1, Zenon DEF StepsLeft, Bound
      <4> QED
        BY <2>2, <3>2, <3>3, <4>2, Falls
    <3> QED
      BY <3>4, <3>5
  <2>7. CASE TakeDirect
    <3>1. /\ pc = "direct" /\ taken < Len(tasks) /\ taken' = taken + 1 /\ tasks' = tasks
          /\ pc' \in {"direct", "done"}
      BY <2>7 DEF TakeDirect
    <3> QED
      BY <2>2, <3>1 DEF StepsLeft
  <2>8. CASE DirectFails
    <3>1. pc = "direct" /\ pc' = "failed"
      BY <2>8 DEF DirectFails
    <3> QED
      BY <2>2, <3>1 DEF StepsLeft
  <2> QED
    BY <2>4, <2>5, <2>6, <2>7, <2>8 DEF Next, Terminated
<1> QED
  BY <1>1, SlicingCorrect, PTL DEF Spec, LoopsEnd

=============================================================================
