------------------------------ MODULE CardsProofs ------------------------------
(* Proofs about Cards: for any number of cards and readers, any speeds and *)
(* loads.                                                                  *)
EXTENDS Cards, SchedulerProofs, SequenceTheorems, FunctionTheorems

USE SpeedTestAssumption, SchedulerAssumption, NoCardAssumption

Bags == [low : Nat, fastest : Nat, standard : Nat, best : 0..MaxBytes]

(* What the sampler has found is a result, and it shows it before it       *)
(* cancels the readers.                                                    *)
Results ==
  /\ sampler # "sleep" => found.standard > 0 /\ found.best >= MinBytes
  /\ sampler \in {"sleep", "write"} => outputBag = EmptyBag
  /\ sampler \in {"cancel", "returned"} => outputBag = found
  /\ running => totalBytes >= MinBytes
  /\ stopped => sampler = "returned"
  /\ \A r \in Readers : reader[r] = "stopped" => stopped

TestTypes ==
  /\ reader \in [Readers -> {"request", "read", "eof", "stopped"}]
  /\ totalBytes \in 0..MaxBytes
  /\ running \in BOOLEAN /\ stopped \in BOOLEAN /\ crashed \in BOOLEAN
  /\ sampler \in {"sleep", "write", "cancel", "returned"}
  /\ outputBag \in Bags /\ found \in Bags

SampleTypes ==
  /\ samples \in Seq(0..MaxBytes) /\ Len(samples) <= 4
  /\ count \in 0..MinSamples + 1

TestInv == TestTypes /\ SampleTypes /\ Results

LEMMA FirstTest == TestInit => TestInv
<1> SUFFICES ASSUME TestInit PROVE TestInv
  OBVIOUS
<1>1. EmptyBag \in Bags
  BY DEF EmptyBag, Bags
<1>2. reader \in [Readers -> {"request", "read", "eof", "stopped"}] /\ totalBytes \in 0..MaxBytes
  BY DEF TestInit
<1>3. SampleTypes
  BY DEF TestInit, SampleTypes
<1>4. Results
  BY DEF TestInit, Results
<1>5. running \in BOOLEAN /\ stopped \in BOOLEAN /\ crashed \in BOOLEAN
  BY DEF TestInit
<1> QED
  BY <1>1, <1>2, <1>3, <1>4, <1>5 DEF TestInit, TestTypes, TestInv

LEMMA NextTest == TestRestart => TestInv'
<1> SUFFICES ASSUME TestRestart PROVE TestInv'
  OBVIOUS
<1>1. EmptyBag \in Bags
  BY DEF EmptyBag, Bags
<1>2. (reader \in [Readers -> {"request", "read", "eof", "stopped"}] /\ totalBytes \in 0..MaxBytes)'
  BY DEF TestRestart
<1>3. SampleTypes'
  BY DEF TestRestart, SampleTypes
<1>4. Results'
  BY DEF TestRestart, Results
<1>5. (running \in BOOLEAN /\ stopped \in BOOLEAN /\ crashed \in BOOLEAN)'
  BY DEF TestRestart
<1> QED
  BY <1>1, <1>2, <1>3, <1>4, <1>5 DEF TestRestart, TestTypes, TestInv

(* A reader downloads, fails or ends. *)
LEMMA ReaderTest == TestInv /\ ReaderStep => TestInv'
<1> SUFFICES ASSUME TestInv, NEW r \in Readers, Respond(r) \/ RequestFails(r) \/ SeeStop(r) \/ Read(r) PROVE TestInv'
  BY DEF ReaderStep
<1>0. TestTypes /\ SampleTypes /\ Results
  BY DEF TestInv
<1>1. UNCHANGED <<samples, count, running, sampler, outputBag, found, stopped>>
  BY DEF Respond, RequestFails, SeeStop, Read
<1>2. totalBytes' \in 0..MaxBytes /\ totalBytes' >= totalBytes
  BY <1>0 DEF TestTypes, Respond, RequestFails, SeeStop, Read
<1>3. \E at \in {"request", "read", "eof", "stopped"} :
        /\ reader' = [reader EXCEPT ![r] = at] \/ reader' = reader
        /\ at = "stopped" => stopped
  BY DEF Respond, RequestFails, SeeStop, Read
<1>4. reader' \in [Readers -> {"request", "read", "eof", "stopped"}]
      /\ \A q \in Readers : reader'[q] = "stopped" => stopped
  BY <1>0, <1>3 DEF TestTypes, Results
<1>5. crashed' \in BOOLEAN
  BY <1>0 DEF TestTypes, Respond, RequestFails, SeeStop, Read
<1>6. TestTypes' /\ SampleTypes'
  BY <1>0, <1>1, <1>2, <1>4, <1>5 DEF TestTypes, SampleTypes
<1>7. Results'
  BY <1>0, <1>1, <1>2, <1>4 DEF Results, TestTypes
<1> QED
  BY <1>6, <1>7 DEF TestInv

(* The last four samples are samples. *)
LEMMA FourSamples ==
  ASSUME NEW S, NEW list \in Seq(S), NEW x \in S
  PROVE  LastFour(Append(list, x)) \in Seq(S) /\ Len(LastFour(Append(list, x))) <= 4
<1> DEFINE new == Append(list, x)
<1>1. new \in Seq(S) /\ Len(new) \in Nat /\ Len(new) >= 1
  OBVIOUS
<1> HIDE DEF new
<1>2. CASE Len(new) > 4
  BY <1>1, <1>2 DEF LastFour
<1>3. CASE ~(Len(new) > 4)
  BY <1>1, <1>3 DEF LastFour
<1> QED
  BY <1>2, <1>3 DEF new

(* The sampler samples, writes or cancels. *)
LEMMA SamplerTest == TestInv /\ SamplerStep => TestInv'
<1> SUFFICES ASSUME TestInv, SamplerStep PROVE TestInv'
  OBVIOUS
<1>0. TestTypes /\ SampleTypes /\ Results
  BY DEF TestInv
<1>1. CASE Sample
  <2>1. SampleTypes'
    <3>1. samples' = LastFour(Append(samples, totalBytes)) /\ count' = IF count > MinSamples THEN count ELSE count + 1
      BY <1>1 DEF Sample
    <3>2. samples' \in Seq(0..MaxBytes) /\ Len(samples') <= 4
      BY <1>0, <3>1, FourSamples DEF SampleTypes, TestTypes
    <3>3. count' \in 0..MinSamples + 1
      BY <1>0, <3>1 DEF SampleTypes
    <3> QED
      BY <3>2, <3>3 DEF SampleTypes
  <2>2. UNCHANGED <<reader, totalBytes, outputBag, stopped, crashed>> /\ sampler = "sleep"
    BY <1>1 DEF Sample
  <2>3. CASE running /\ sampler' = "write" /\ running' = running
             /\ \E m \in Measured : found' = [low |-> m.low, fastest |-> m.fastest, standard |-> m.standard, best |-> totalBytes]
    <3>1. PICK m \in Measured : found' = [low |-> m.low, fastest |-> m.fastest, standard |-> m.standard, best |-> totalBytes]
      BY <2>3
    <3>2. m \in [low : Nat \ {0}, fastest : Nat, standard : Nat] /\ m.standard > 0
      <4>1. m \in [low : Nat \ {0}, fastest : Nat, standard : Nat] /\ m.low <= m.standard
        OBVIOUS
      <4> QED
        BY <4>1
    <3>3. found' \in Bags /\ found'.standard > 0 /\ found'.best = totalBytes
      BY <1>0, <3>1, <3>2 DEF Bags, TestTypes
    <3>4. TestTypes'
      BY <1>0, <2>2, <2>3, <3>3 DEF TestTypes
    <3>5. Results'
      BY <1>0, <2>2, <2>3, <3>3 DEF Results, TestTypes
    <3> QED
      BY <2>1, <3>4, <3>5 DEF TestInv
  <2>4. CASE running' = (running \/ totalBytes >= MinBytes) /\ UNCHANGED <<sampler, found>>
    <3>1. running' \in BOOLEAN
      BY <2>4
    <3>2. TestTypes'
      BY <1>0, <2>2, <2>4, <3>1 DEF TestTypes
    <3>3. Results'
      BY <1>0, <2>2, <2>4 DEF Results
    <3> QED
      BY <2>1, <3>2, <3>3 DEF TestInv
  <2> QED
    BY <1>1, <2>3, <2>4 DEF Sample
<1>2. CASE Write
  <2>1. TestTypes' /\ SampleTypes'
    BY <1>0, <1>2 DEF Write, TestTypes, SampleTypes
  <2>2. Results'
    BY <1>0, <1>2 DEF Write, Results
  <2> QED
    BY <2>1, <2>2 DEF TestInv
<1>3. CASE CancelReaders
  <2>1. TestTypes' /\ SampleTypes'
    BY <1>0, <1>3 DEF CancelReaders, TestTypes, SampleTypes
  <2>2. Results'
    BY <1>0, <1>3 DEF CancelReaders, Results
  <2> QED
    BY <2>1, <2>2 DEF TestInv
<1> QED
  BY <1>1, <1>2, <1>3 DEF SamplerStep

(* A result half written is still one. *)
LEMMA OutcomeTypes ==
  ASSUME TestInv, NEW bag \in Outcomes
  PROVE  bag \in Bags /\ (bag.best = 0 \/ bag.best >= MinBytes)
<1>0. TestTypes /\ Results
  BY DEF TestInv
<1>1. outputBag.best = 0 \/ outputBag.best >= MinBytes
  BY <1>0 DEF Results, TestTypes, EmptyBag
<1>2. CASE sampler # "write"
  BY <1>0, <1>1, <1>2 DEF Outcomes, TestTypes
<1>3. CASE sampler = "write"
  <2>1. PICK written : bag = [f \in DOMAIN EmptyBag |-> IF f \in written THEN found[f] ELSE outputBag[f]]
    BY <1>3 DEF Outcomes
  <2>2. DOMAIN EmptyBag = {"low", "fastest", "standard", "best"}
    BY DEF EmptyBag
  <2>3. found \in Bags /\ outputBag \in Bags /\ found.best >= MinBytes
    BY <1>0, <1>3 DEF TestTypes, Results
  <2>4. bag = [low |-> bag["low"], fastest |-> bag["fastest"], standard |-> bag["standard"], best |-> bag["best"]]
    BY <2>1, <2>2
  <2>5. bag["low"] \in Nat /\ bag["fastest"] \in Nat /\ bag["standard"] \in Nat /\ bag["best"] \in 0..MaxBytes
    BY <2>1, <2>2, <2>3 DEF Bags
  <2>6. bag["best"] = 0 \/ bag["best"] >= MinBytes
    BY <1>1, <2>1, <2>2, <2>3
  <2> QED
    BY <2>4, <2>5, <2>6 DEF Bags
<1> QED
  BY <1>2, <1>3

-----------------------------------------------------------------------------
(* The snapshot in use is that of the last turn, with some walk's order.   *)
CurrentWeights == [c \in Cards |-> Weights(standard[c], load[c])]

SchedTypes ==
  /\ low \in [Cards -> Nat] /\ fastest \in [Cards -> Nat]
  /\ standard \in [Cards -> Nat \cup {Lost}]
  /\ timed \subseteq Cards
  /\ load \in [Cards -> Loads \cup {Idle}]

Weighed ==
  \/ /\ timed = {}
     /\ snapshot \in {Snapshot(o, NoWeights) : o \in Orders}
  \/ /\ timed = Cards /\ phase = "turns"
     /\ snapshot \in {Snapshot(o, CurrentWeights) : o \in Orders}

Phases ==
  /\ phase \in {"test", "turns"}
  /\ testing \in Cards \cup {NoCard} /\ untested \subseteq Cards
  /\ multiSpeed \in [Cards -> Nat]
  /\ phase = "turns" => testing = NoCard

SchedInv == SchedTypes /\ Weighed /\ Phases /\ StandardInRange

LEMMA LoadTypes ==
  ASSUME NEW l \in Loads \cup {Idle}
  PROVE  l \in [probe : Nat, chunk0 : Nat, chunk1 : Nat] /\ SpeedNetCard(l) \in Nat
<1>1. l \in [probe : Nat, chunk0 : Nat, chunk1 : Nat]
  BY DEF Idle
<1> QED
  BY <1>1 DEF SpeedNetCard

LEMMA FirstSched == Init => SchedInv
<1> SUFFICES ASSUME Init PROVE SchedInv
  OBVIOUS
<1>1. SchedTypes
  BY DEF Init, SchedInit, SchedTypes
<1>2. Weighed
  BY DEF Init, SchedInit, Weighed
<1>3. Phases
  BY DEF Init, Phases
<1>4. StandardInRange
  BY DEF Init, SchedInit, StandardInRange
<1> QED
  BY <1>1, <1>2, <1>3, <1>4 DEF SchedInv

(* A turn of PeriodCheck. *)
LEMMA TurnSched == SchedInv /\ PeriodCheck => SchedInv'
<1> SUFFICES ASSUME SchedInv, PeriodCheck PROVE SchedInv'
  OBVIOUS
<1>0. SchedTypes /\ Weighed /\ Phases /\ StandardInRange
  BY DEF SchedInv
<1>1. PICK l \in Choices([c \in Cards |-> IF c \in timed THEN Loads ELSE {Idle}]) :
        /\ load' = l /\ timed' = Cards
        /\ fastest' = [c \in Cards |-> HighSpeed(c, SpeedNetCard(l[c]))]
        /\ standard' \in Choices([c \in Cards |-> NextStandard(c, SpeedNetCard(l[c]))])
        /\ LET w == [c \in Cards |-> Weights(standard'[c], l[c])]
           IN  snapshot' \in {Snapshot(o, w) : o \in Orders}
        /\ UNCHANGED low
  BY DEF PeriodCheck, Turn
<1>2. l \in [Cards -> Loads \cup {Idle}]
  <2>1. /\ l \in [Cards -> UNION {IF c \in timed THEN Loads ELSE {Idle} : c \in Cards}]
        /\ \A c \in Cards : l[c] \in IF c \in timed THEN Loads ELSE {Idle}
    BY <1>1 DEF Choices
  <2> QED
    BY <2>1
<1>3. standard' \in [Cards -> UNION {NextStandard(c, SpeedNetCard(l[c])) : c \in Cards}]
      /\ \A c \in Cards : standard'[c] \in NextStandard(c, SpeedNetCard(l[c]))
  BY <1>1 DEF Choices
<1>4. ASSUME NEW c \in Cards
      PROVE  /\ fastest'[c] \in Nat /\ fastest'[c] >= fastest[c]
             /\ standard'[c] \in Nat \cup {Lost}
             /\ standard'[c] # Lost =>
                  /\ standard[c] # Lost
                  /\ standard'[c] >= standard[c] \/ standard'[c] >= low[c]
                  /\ standard'[c] <= standard[c] \/ standard'[c] <= low[c] \/ standard'[c] <= fastest'[c]
  <2>1. SpeedNetCard(l[c]) \in Nat
    BY <1>2, LoadTypes
  <2>2. standard'[c] \in NextStandard(c, SpeedNetCard(l[c])) /\ fastest'[c] = HighSpeed(c, SpeedNetCard(l[c]))
    BY <1>1, <1>3
  <2>3. low[c] \in Nat /\ fastest[c] \in Nat /\ standard[c] \in Nat \cup {Lost}
    BY <1>0 DEF SchedTypes
  <2> QED
    BY <2>1, <2>2, <2>3, NextStandardRange
<1>5. SchedTypes'
  <2>1. fastest' \in [Cards -> Nat]
    <3>1. \A c \in Cards : HighSpeed(c, SpeedNetCard(l[c])) \in Nat
      BY <1>1, <1>4
    <3> QED
      BY <1>1, <3>1
  <2>2. standard' \in [Cards -> Nat \cup {Lost}]
    BY <1>3, <1>4
  <2> QED
    BY <1>0, <1>1, <1>2, <2>1, <2>2 DEF SchedTypes
<1>6. Weighed'
  <2>1. CurrentWeights' = [c \in Cards |-> Weights(standard'[c], l[c])]
    BY <1>1 DEF CurrentWeights, Weights, SpareWeights, FullWeights, SpeedNetCard, Weight
  <2>2. phase' = "turns"
    BY DEF PeriodCheck, cardVars
  <2> QED
    BY <1>1, <2>1, <2>2 DEF Weighed
<1>7. Phases' /\ UNCHANGED multiSpeed
  BY <1>0 DEF PeriodCheck, cardVars, Phases
<1>8. StandardInRange'
  <2> SUFFICES ASSUME NEW c \in Cards, standard'[c] # Lost
               PROVE  /\ standard'[c] >= multiSpeed[c] \/ standard'[c] >= low[c]
                      /\ standard'[c] <= multiSpeed[c] \/ standard'[c] <= fastest'[c] \/ standard'[c] <= low[c]
    BY <1>1, <1>7 DEF StandardInRange
  <2>1. /\ standard[c] # Lost
        /\ standard'[c] >= standard[c] \/ standard'[c] >= low[c]
        /\ standard'[c] <= standard[c] \/ standard'[c] <= low[c] \/ standard'[c] <= fastest'[c]
        /\ fastest'[c] >= fastest[c]
    BY <1>4
  <2>2. /\ standard[c] >= multiSpeed[c] \/ standard[c] >= low[c]
        /\ standard[c] <= multiSpeed[c] \/ standard[c] <= fastest[c] \/ standard[c] <= low[c]
    BY <1>0, <2>1 DEF StandardInRange
  <2>3. /\ standard[c] \in Int /\ standard'[c] \in Int /\ multiSpeed[c] \in Int
        /\ low[c] \in Int /\ fastest[c] \in Int /\ fastest'[c] \in Int
    BY <1>0, <1>4 DEF SchedTypes, Phases, Lost
  <2> QED
    BY <2>1, <2>2, <2>3
<1> QED
  BY <1>5, <1>6, <1>7, <1>8 DEF SchedInv

(* The start-up: only the end of a test touches the scheduler's state. *)
LEMMA StartSched ==
  SchedInv /\ (BeginTest \/ RunTest \/ EndTests \/ Crashed \/ UNCHANGED vars) => SchedInv'
<1> SUFFICES ASSUME SchedInv, BeginTest \/ RunTest \/ EndTests \/ Crashed \/ UNCHANGED vars PROVE SchedInv'
  OBVIOUS
<1>1. UNCHANGED <<low, fastest, standard, timed, load, snapshot, multiSpeed>>
  BY DEF BeginTest, RunTest, EndTests, Crashed, vars, schedVars, cardVars
<1>2. Phases'
  BY DEF SchedInv, Phases, BeginTest, RunTest, EndTests, Crashed, vars, cardVars
<1>3. phase = "turns" => phase' = "turns"
  BY DEF BeginTest, RunTest, EndTests, Crashed, vars, cardVars
<1>4. Weighed'
  BY <1>1, <1>3 DEF SchedInv, Weighed, CurrentWeights
<1> QED
  BY <1>1, <1>2, <1>4 DEF SchedInv, SchedTypes, StandardInRange

LEMMA EndTestSched == TestInv /\ SchedInv /\ EndTest => SchedInv'
<1> SUFFICES ASSUME TestInv, SchedInv, EndTest PROVE SchedInv'
  OBVIOUS
<1>0. SchedTypes /\ Weighed /\ Phases /\ StandardInRange
  BY DEF SchedInv
<1>1. PICK bag \in Outcomes : Measure(testing, bag) /\ multiSpeed' = [multiSpeed EXCEPT ![testing] = bag.standard]
  BY DEF EndTest
<1>2. bag \in Bags
  BY OutcomeTypes
<1>3. bag.low \in Nat /\ bag.fastest \in Nat /\ bag.standard \in Nat
  BY <1>2 DEF Bags
<1>4. testing \in Cards /\ phase = "test" /\ UNCHANGED <<phase, untested>> /\ testing' = NoCard
  BY <1>0 DEF EndTest, Phases
<1>5. SchedTypes' /\ Phases'
  BY <1>0, <1>1, <1>3, <1>4 DEF SchedTypes, Phases, Measure
<1>6. Weighed'
  <2>1. timed = {} /\ UNCHANGED <<timed, snapshot>>
    BY <1>0, <1>1, <1>4 DEF Weighed, Measure
  <2> QED
    BY <1>0, <1>4, <2>1 DEF Weighed
<1>7. StandardInRange'
  BY <1>0, <1>1, <1>3 DEF SchedTypes, Phases, Measure, StandardInRange
<1> QED
  BY <1>5, <1>6, <1>7 DEF SchedInv

(* The invariant of start-up and turns: a test shows a whole result to the *)
(* readers it stops, and the snapshot is that of the current speeds.       *)
THEOREM CardsInvariant == Spec => [](TestInv /\ SchedInv)
<1>1. TestInv /\ SchedInv /\ [Next]_vars => (TestInv /\ SchedInv)'
  <2> SUFFICES ASSUME TestInv, SchedInv, [Next]_vars PROVE TestInv' /\ SchedInv'
    OBVIOUS
  <2>1. CASE RunTest
    BY <2>1, ReaderTest, SamplerTest, StartSched DEF RunTest
  <2>2. CASE EndTest
    BY <2>2, NextTest, EndTestSched DEF EndTest
  <2>3. CASE PeriodCheck
    <3>1. UNCHANGED testVars
      BY <2>3 DEF PeriodCheck
    <3>2. TestInv'
      BY <3>1 DEF testVars, TestInv, TestTypes, SampleTypes, Results
    <3> QED
      BY <2>3, <3>2, TurnSched
  <2>4. CASE BeginTest \/ EndTests \/ Crashed \/ UNCHANGED vars
    <3>1. UNCHANGED testVars
      BY <2>4 DEF BeginTest, EndTests, Crashed, vars
    <3>2. TestInv'
      BY <3>1 DEF testVars, TestInv, TestTypes, SampleTypes, Results
    <3> QED
      BY <2>4, <3>2, StartSched
  <2> QED
    BY <2>1, <2>2, <2>3, <2>4 DEF Next
<1>2. Init => TestInv /\ SchedInv
  BY FirstTest, FirstSched DEF Init
<1> QED
  BY <1>1, <1>2, PTL DEF Spec

-----------------------------------------------------------------------------
(* Every card has its place in the walk's order. *)
LEMMA OrderCovers ==
  ASSUME NEW o \in Orders
  PROVE  o \in Seq(Cards) /\ Len(o) = Cardinality(Cards) /\ \A c \in Cards : \E k \in 1..Len(o) : o[k] = c
<1> DEFINE n == Cardinality(Cards)
<1>1. n \in Nat /\ IsFiniteSet(1..n) /\ Cardinality(1..n) = n
  BY FS_CardinalityType, FS_Interval
<1>2. o \in [1..n -> Cards] /\ o \in Injection(1..n, Cards)
  BY Fun_IsInj DEF Orders, Injection, IsInjective
<1>3. o \in Surjection(1..n, Cards)
  BY <1>1, <1>2, FS_Injection
<1>4. \A c \in Cards : \E k \in 1..n : o[k] = c
  BY <1>3 DEF Surjection
<1>5. o \in Seq(Cards) /\ Len(o) = n
  BY <1>1, <1>2, SeqDef, LenProperties
<1> QED
  BY <1>4, <1>5

(* What a published snapshot holds, for any card with spare capacity. *)
LEMMA SpareWeightsPublished ==
  ASSUME SchedInv, Published
  PROVE  /\ phase = "turns" /\ Cards # {}
         /\ \E o \in Orders : snapshot = Snapshot(o, CurrentWeights)
         /\ snapshot.weights = CurrentWeights
         /\ \A c \in Cards : Spare(c) =>
              /\ snapshot.weights[c] = SpareWeights(standard[c], load[c])
              /\ standard[c] \in Nat
              /\ load[c] \in [probe : Nat, chunk0 : Nat, chunk1 : Nat]
<1>1. \E o \in Orders : snapshot = Snapshot(o, CurrentWeights)
  BY DEF SchedInv, Weighed, Published
<1>2. phase = "turns" /\ Cards # {}
  BY DEF SchedInv, Weighed, Published
<1>3. snapshot.weights = CurrentWeights
  BY <1>1 DEF Snapshot
<1>4. ASSUME NEW c \in Cards, Spare(c)
      PROVE  /\ snapshot.weights[c] = SpareWeights(standard[c], load[c])
             /\ standard[c] \in Nat
             /\ load[c] \in [probe : Nat, chunk0 : Nat, chunk1 : Nat]
  <2>1. load[c] \in [probe : Nat, chunk0 : Nat, chunk1 : Nat] /\ SpeedNetCard(load[c]) \in Nat
    BY LoadTypes DEF SchedInv, SchedTypes
  <2>2. standard[c] > SpeedNetCard(load[c])
    BY <1>4 DEF Spare
  <2>3. standard[c] \in Nat
    BY <2>1, <2>2 DEF SchedInv, SchedTypes, Lost
  <2>4. snapshot.weights[c] = Weights(standard[c], load[c])
    BY <1>3 DEF CurrentWeights
  <2> QED
    BY <2>1, <2>2, <2>3, <2>4 DEF Weights
<1> QED
  BY <1>1, <1>2, <1>3, <1>4

-----------------------------------------------------------------------------
(* Start-up and scheduler have their types.                                *)
THEOREM CardsTypes == Spec => []TypeOK
<1>1. TestInv => TestTypeOK
  <2> SUFFICES ASSUME TestInv PROVE TestTypeOK
    OBVIOUS
  <2>1. TestTypes /\ SampleTypes
    BY DEF TestInv
  <2>2. \A bag \in {outputBag, found} : bag \in [low : Nat, fastest : Nat, standard : Nat, best : 0..MaxBytes]
    BY <2>1 DEF TestTypes, Bags
  <2> QED
    BY <2>1, <2>2 DEF TestTypes, SampleTypes, TestTypeOK
<1>2. SchedInv => SchedTypeOK
  <2> SUFFICES ASSUME SchedInv PROVE SchedTypeOK
    OBVIOUS
  <2>1. SchedTypes
    BY DEF SchedInv
  <2>2. \E o \in Orders : \E w : snapshot = Snapshot(o, w)
    BY DEF SchedInv, Weighed
  <2>3. snapshot.order \in Orders
    BY <2>2 DEF Snapshot
  <2>4. /\ snapshot.totalChunks \in {"nan", "inf", "zero", "positive"}
        /\ snapshot.totalProbe \in {"nan", "inf", "zero", "positive"}
    BY <2>2, TotalTypes DEF Snapshot
  <2> QED
    BY <2>1, <2>3, <2>4 DEF SchedTypes, SchedTypeOK
<1>3. TestInv /\ SchedInv => TypeOK
  BY <1>1, <1>2 DEF SchedInv, Phases, TypeOK
<1> QED
  BY <1>3, CardsInvariant, PTL

(* A chunk size that was measured is above the 10 MB, even if it is read   *)
(* while the sampler writes it (SpeedTest, 187-204).                       *)
THEOREM ChunkSizesLarge == Spec => []BestChunkLarge
<1>1. TestInv => BestChunkLarge
  BY OutcomeTypes DEF BestChunkLarge
<1> QED
  BY <1>1, CardsInvariant, PTL

(* A test ended by its sampler returns the whole result (SpeedTest,        *)
(* 187-195).                                                               *)
THEOREM ResultsComplete == Spec => []CompleteWhenStopped
<1>1. TestInv => CompleteWhenStopped
  BY DEF TestInv, TestTypes, Results, CompleteWhenStopped, Outcomes
<1> QED
  BY <1>1, CardsInvariant, PTL

(* A standard speed stays between the slowest and the fastest speed its    *)
(* card was measured at, or is lost to 0/0 (PeriodCheck, 334-357).         *)
THEOREM StandardsInRange == Spec => []StandardInRange
<1>1. SchedInv => StandardInRange
  BY DEF SchedInv
<1> QED
  BY <1>1, CardsInvariant, PTL

(* With every card's capacity to spare both totals are positive numbers,   *)
(* so that shares are (PeriodCheck, 369-388; ChunkCalculate, 114).         *)
THEOREM SharesAreUsable == Spec => []SharesUsable
<1>1. SchedInv => SharesUsable
  <2> SUFFICES ASSUME SchedInv, Published, \A c \in Cards : Spare(c)
               PROVE  snapshot.totalChunks = "positive" /\ snapshot.totalProbe = "positive"
    BY DEF SharesUsable
  <2> DEFINE w == CurrentWeights
  <2>1. PICK o \in Orders : snapshot = Snapshot(o, w)
    BY SpareWeightsPublished
  <2>2. ASSUME NEW c \in Cards
        PROVE  \A x \in {w[c].probe, w[c].chunk0, w[c].chunk1} : Positive(x) /\ Finite(x)
    <3>1. w[c] = SpareWeights(standard[c], load[c]) /\ standard[c] \in Nat
          /\ load[c] \in [probe : Nat, chunk0 : Nat, chunk1 : Nat] /\ standard[c] > SpeedNetCard(load[c])
      BY SpareWeightsPublished DEF Spare
    <3> QED
      BY <3>1, SpareCard
  <2>3. Cards # {}
    BY DEF Published
  <2> HIDE DEF w
  <2>4. ChunkWeights(w) # {} /\ \A x \in ChunkWeights(w) : Positive(x) /\ Finite(x)
    BY <2>2, <2>3 DEF ChunkWeights
  <2>5. ProbeWeights(w) # {} /\ \A x \in ProbeWeights(w) : Positive(x) /\ Finite(x)
    BY <2>2, <2>3 DEF ProbeWeights
  <2>6. Total(ChunkWeights(w)) = "positive" /\ Total(ProbeWeights(w)) = "positive"
    BY <2>4, <2>5, PositiveTotal
  <2> QED
    BY <2>1, <2>6 DEF Snapshot
<1> QED
  BY <1>1, CardsInvariant, PTL

(* A card with capacity to spare has weights, more for its less loaded     *)
(* chunk client, and may be dealt a probe (PeriodCheck, 369-384;           *)
(* getProbeClientP).                                                       *)
THEOREM SpareCardsServe == Spec => []SpareCardServes
<1>1. SchedInv => SpareCardServes
  <2> SUFFICES ASSUME SchedInv, Published, NEW c \in Cards, Spare(c)
               PROVE  /\ Positive(snapshot.weights[c].chunk0) /\ Positive(snapshot.weights[c].chunk1)
                      /\ load[c].chunk0 < load[c].chunk1 => Less(snapshot.weights[c].chunk1, snapshot.weights[c].chunk0)
                      /\ load[c].chunk1 < load[c].chunk0 => Less(snapshot.weights[c].chunk0, snapshot.weights[c].chunk1)
                      /\ snapshot.totalProbe = "positive" => c \in ProbeChoices
    BY DEF SpareCardServes
  <2>1. /\ snapshot.weights[c] = SpareWeights(standard[c], load[c]) /\ standard[c] \in Nat
        /\ load[c] \in [probe : Nat, chunk0 : Nat, chunk1 : Nat] /\ standard[c] > SpeedNetCard(load[c])
    BY SpareWeightsPublished DEF Spare
  <2>2. /\ Positive(snapshot.weights[c].probe)
        /\ Positive(snapshot.weights[c].chunk0) /\ Positive(snapshot.weights[c].chunk1)
        /\ load[c].chunk0 < load[c].chunk1 => Less(snapshot.weights[c].chunk1, snapshot.weights[c].chunk0)
        /\ load[c].chunk1 < load[c].chunk0 => Less(snapshot.weights[c].chunk0, snapshot.weights[c].chunk1)
    BY <2>1, SpareCard
  <2>3. ASSUME snapshot.totalProbe = "positive" PROVE c \in ProbeChoices
    <3>1. snapshot.order \in Orders
      BY SpareWeightsPublished DEF Snapshot
    <3>2. PICK k \in 1..Len(snapshot.order) : snapshot.order[k] = c
      BY <3>1, OrderCovers
    <3>3. Positive(ProbeEntry(k))
      BY <2>2, <3>2 DEF ProbeEntry
    <3> QED
      BY <2>3, <3>2, <3>3 DEF ProbeChoices
  <2> QED
    BY <2>2, <2>3
<1> QED
  BY <1>1, CardsInvariant, PTL

-----------------------------------------------------------------------------
(* The start-up's end comes nearer. *)

(* Between two tests the readers are those of the next one. *)
Fresh == testing = NoCard => reader = [r \in Readers |-> "request"] /\ totalBytes = 0

LEMMA FreshStep == Phases /\ Fresh /\ [Next]_vars => Fresh'
<1> SUFFICES ASSUME Phases, Fresh, [Next]_vars PROVE Fresh'
  OBVIOUS
<1>1. CASE RunTest
  BY <1>1 DEF RunTest, cardVars, Fresh
<1>2. CASE BeginTest
  <2>1. testing' # NoCard
    BY <1>2 DEF BeginTest, Phases
  <2> QED
    BY <2>1 DEF Fresh
<1>3. CASE EndTest
  BY <1>3 DEF EndTest, TestRestart, Fresh
<1>4. CASE EndTests \/ PeriodCheck \/ Crashed \/ UNCHANGED vars
  BY <1>4 DEF EndTests, PeriodCheck, Crashed, vars, testVars, cardVars, Fresh
<1> QED
  BY <1>1, <1>2, <1>3, <1>4 DEF Next

LEMMA ReadersFinite ==
  /\ \A place : IsFiniteSet(ReadersAt(place)) /\ Cardinality(ReadersAt(place)) \in Nat
  /\ Cardinality(Readers) \in Nat
<1>1. ASSUME NEW place PROVE IsFiniteSet(ReadersAt(place))
  BY FS_Subset DEF ReadersAt
<1> QED
  BY <1>1, FS_CardinalityType

LeftTyped == ReadersLeft \in Nat

LEMMA LeftIsNat == TestTypes => LeftTyped
<1> SUFFICES ASSUME TestTypes PROVE ReadersLeft \in Nat
  BY DEF LeftTyped
<1>1. totalBytes \in 0..MaxBytes
  BY DEF TestTypes
<1>2. PICK q \in Nat, d \in Nat : Cardinality(ReadersAt("request")) = q /\ Cardinality(ReadersAt("read")) = d
  BY ReadersFinite
<1>3. ReadersLeft = 2 * q + d + (MaxBytes - totalBytes)
  BY <1>2 DEF ReadersLeft
<1> QED
  BY <1>1, <1>3

(* A reader that goes from one place to another. *)
LEMMA ReaderGoes ==
  ASSUME TestTypes, NEW r \in Readers, NEW from, NEW to, reader[r] = from, from # to, reader' = [reader EXCEPT ![r] = to]
  PROVE  /\ Cardinality(ReadersAt(from)') = Cardinality(ReadersAt(from)) - 1
         /\ Cardinality(ReadersAt(to)') = Cardinality(ReadersAt(to)) + 1
         /\ \A place : place \notin {from, to} => ReadersAt(place)' = ReadersAt(place)
<1>1. reader \in [Readers -> {"request", "read", "eof", "stopped"}]
  BY DEF TestTypes
<1>2. ReadersAt(from)' = ReadersAt(from) \ {r} /\ r \in ReadersAt(from)
  BY <1>1 DEF ReadersAt
<1>3. ReadersAt(to)' = ReadersAt(to) \cup {r} /\ r \notin ReadersAt(to)
  BY <1>1 DEF ReadersAt
<1>5. ASSUME NEW place, place \notin {from, to} PROVE ReadersAt(place)' = ReadersAt(place)
  BY <1>1, <1>5 DEF ReadersAt
<1>6. Cardinality(ReadersAt(from)') = Cardinality(ReadersAt(from)) - 1
  BY <1>2, ReadersFinite, FS_RemoveElement
<1>7. Cardinality(ReadersAt(to)') = Cardinality(ReadersAt(to)) + 1
  BY <1>3, ReadersFinite, FS_AddElement
<1> QED
  BY <1>5, <1>6, <1>7

(* Every step of a reader that is not its last one of all is one of those  *)
(* that are left.                                                          *)
LEMMA ReaderAdvances ==
  ASSUME TestTypes, ReaderStep
  PROVE  /\ ReadersLeft' <= ReadersLeft
         /\ <<reader, totalBytes>>' # <<reader, totalBytes>> => ReadersLeft' < ReadersLeft
<1>0. PICK r \in Readers : Respond(r) \/ RequestFails(r) \/ SeeStop(r) \/ Read(r)
  BY DEF ReaderStep
<1>1. totalBytes \in 0..MaxBytes /\ ReadersLeft \in Nat
  BY LeftIsNat DEF TestTypes, LeftTyped
<1>2. PICK q \in Nat, d \in Nat : Cardinality(ReadersAt("request")) = q /\ Cardinality(ReadersAt("read")) = d
  BY ReadersFinite
<1>3. ReadersLeft = 2 * q + d + (MaxBytes - totalBytes)
  BY <1>2 DEF ReadersLeft
<1>4. CASE Respond(r)
  <2>1. reader[r] = "request" /\ reader' = [reader EXCEPT ![r] = "read"] /\ totalBytes' = totalBytes
    BY <1>4 DEF Respond
  <2>2. Cardinality(ReadersAt("request")') = q - 1 /\ Cardinality(ReadersAt("read")') = d + 1
    BY <1>2, <2>1, ReaderGoes
  <2>3. ReadersLeft' = 2 * (q - 1) + (d + 1) + (MaxBytes - totalBytes)
    BY <2>1, <2>2 DEF ReadersLeft
  <2> QED
    BY <1>1, <1>3, <2>3
<1>5. CASE \E to \in {"stopped", "eof"} : reader[r] = "read" /\ reader' = [reader EXCEPT ![r] = to] /\ totalBytes' = totalBytes
  <2>1. PICK to \in {"stopped", "eof"} : reader[r] = "read" /\ reader' = [reader EXCEPT ![r] = to] /\ totalBytes' = totalBytes
    BY <1>5
  <2>2. Cardinality(ReadersAt("read")') = d - 1 /\ ReadersAt("request")' = ReadersAt("request")
    BY <1>2, <2>1, ReaderGoes
  <2>3. ReadersLeft' = 2 * q + (d - 1) + (MaxBytes - totalBytes)
    BY <1>2, <2>1, <2>2 DEF ReadersLeft
  <2> QED
    BY <1>1, <1>3, <2>3
<1>6. CASE reader' = reader /\ totalBytes < MaxBytes /\ totalBytes' = totalBytes + 1
  <2>1. ReadersAt("read")' = ReadersAt("read") /\ ReadersAt("request")' = ReadersAt("request")
    BY <1>6 DEF ReadersAt
  <2>2. ReadersLeft' = 2 * q + d + (MaxBytes - (totalBytes + 1))
    BY <1>2, <1>6, <2>1 DEF ReadersLeft
  <2> QED
    BY <1>1, <1>3, <2>2
<1>7. CASE RequestFails(r)
  <2>1. reader' = reader /\ totalBytes' = totalBytes
    BY <1>7 DEF RequestFails
  <2>2. ReadersLeft' = ReadersLeft
    BY <2>1 DEF ReadersLeft, ReadersAt
  <2> QED
    BY <1>1, <2>1, <2>2
<1> QED
  BY <1>0, <1>4, <1>5, <1>6, <1>7 DEF SeeStop, Read

LEMMA OneTestLess == ASSUME NEW n \in Nat, NEW l \in Nat PROVE (n - 1) * l = n * l - l /\ n * l \in Nat
OBVIOUS

(* The start-up nears its end with every step but the samplers' own        *)
(* (TCPSpeedTest, SpeedTest).                                              *)
THEOREM StartUpGoesOn == Spec => StartUpAdvances
<1> DEFINE Nearer == /\ StartUpLeft' <= StartUpLeft
                     /\ <<phase, testing, reader, totalBytes>>' # <<phase, testing, reader, totalBytes>> =>
                          StartUpLeft' < StartUpLeft
<1>1. TestInv /\ SchedInv /\ Fresh /\ [Next]_vars => [phase = "test" => Nearer]_vars
  <2> SUFFICES ASSUME TestInv, SchedInv, Fresh, Next, phase = "test" PROVE Nearer
    OBVIOUS
  <2>0. TestTypes /\ Phases
    BY DEF TestInv, SchedInv
  <2>1. PICK n \in Nat, l \in Nat, left \in Nat :
          Cardinality(untested) = n /\ TestLength = l /\ ReadersLeft = left
    <3>1. IsFiniteSet(untested)
      BY <2>0, FS_Subset DEF Phases
    <3>2. Cardinality(Readers) \in Nat /\ MaxBytes \in Nat
      BY ReadersFinite
    <3>3. TestLength \in Nat
      BY <3>2 DEF TestLength
    <3> QED
      BY <2>0, <3>1, <3>3, LeftIsNat, FS_CardinalityType DEF LeftTyped
  <2>2. n * l \in Nat /\ (n - 1) * l = n * l - l
    BY OneTestLess
  <2>3. CASE BeginTest
    <3>1. /\ testing = NoCard /\ testing' # NoCard /\ testing' \in untested
          /\ untested' = untested \ {testing'} /\ UNCHANGED <<phase, reader, totalBytes>>
      BY <2>0, <2>3 DEF BeginTest, testVars, Phases
    <3>2. Cardinality(untested') = n - 1
      BY <2>0, <2>1, <3>1, FS_Subset, FS_RemoveElement DEF Phases
    <3>3. left = 2 * Cardinality(Readers) + MaxBytes
      <4>1. ReadersAt("request") = Readers /\ ReadersAt("read") = {} /\ totalBytes = 0
        BY <3>1 DEF Fresh, ReadersAt
      <4>2. PICK k \in Nat : Cardinality(Readers) = k
        BY ReadersFinite
      <4>3. ReadersLeft = 2 * k + 0 + (MaxBytes - 0)
        BY <4>1, <4>2, FS_EmptySet DEF ReadersLeft
      <4> QED
        BY <2>1, <4>2, <4>3
    <3>4. l = left + 2
      <4>1. PICK k \in Nat : Cardinality(Readers) = k
        BY ReadersFinite
      <4> QED
        BY <2>1, <3>3, <4>1 DEF TestLength
    <3>5. ReadersLeft' = left /\ TestLength' = l
      BY <2>1, <3>1 DEF ReadersLeft, ReadersAt, TestLength
    <3>6. StartUpLeft = n * l + 0 + 1
      BY <2>1, <3>1 DEF StartUpLeft
    <3>7. StartUpLeft' = (n - 1) * l + (1 + left) + 1
      BY <3>1, <3>2, <3>5 DEF StartUpLeft
    <3> QED
      BY <2>2, <3>4, <3>6, <3>7
  <2>4. CASE RunTest
    <3>1. testing # NoCard /\ UNCHANGED <<phase, testing, untested>>
      BY <2>4 DEF RunTest, cardVars
    <3>2. ReadersLeft' <= ReadersLeft
          /\ (<<reader, totalBytes>>' # <<reader, totalBytes>> => ReadersLeft' < ReadersLeft)
      <4>1. CASE ReaderStep
        BY <2>0, <4>1, ReaderAdvances
      <4>2. CASE SamplerStep
        <5>1. UNCHANGED <<reader, totalBytes>>
          BY <4>2 DEF SamplerStep, Sample, Write, CancelReaders
        <5>2. ReadersLeft' = ReadersLeft
          BY <5>1 DEF ReadersLeft, ReadersAt
        <5> QED
          BY <2>1, <5>1, <5>2
      <4> QED
        BY <2>4, <4>1, <4>2 DEF RunTest
    <3>3. TestTypes'
      BY <2>4, ReaderTest, SamplerTest DEF RunTest, TestInv
    <3>4. PICK left1 \in Nat : ReadersLeft' = left1
      <4>1. LeftTyped'
        BY <3>3, LeftIsNat, PTL
      <4> QED
        BY <4>1 DEF LeftTyped
    <3>5. StartUpLeft = n * l + (1 + left) + 1
      BY <2>1, <3>1 DEF StartUpLeft
    <3>6. StartUpLeft' = n * l + (1 + left1) + 1
      BY <2>1, <3>1, <3>4 DEF StartUpLeft, TestLength
    <3>7. left1 <= left /\ (<<reader, totalBytes>>' # <<reader, totalBytes>> => left1 < left)
      BY <2>1, <3>2, <3>4
    <3>8. StartUpLeft' <= StartUpLeft
      BY <2>2, <3>5, <3>6, <3>7
    <3>9. left1 < left => StartUpLeft' < StartUpLeft
      BY <2>2, <3>5, <3>6
    <3> QED
      BY <3>1, <3>7, <3>8, <3>9
  <2>5. CASE EndTest
    <3>1. testing # NoCard /\ testing' = NoCard /\ UNCHANGED <<phase, untested>>
      BY <2>5 DEF EndTest
    <3>2. StartUpLeft = n * l + (1 + left) + 1
      BY <2>1, <3>1 DEF StartUpLeft
    <3>3. StartUpLeft' = n * l + 0 + 1
      BY <2>1, <3>1 DEF StartUpLeft, TestLength
    <3> QED
      BY <2>2, <3>2, <3>3
  <2>6. CASE EndTests
    <3>1. testing = NoCard /\ phase' = "turns" /\ UNCHANGED <<testing, untested>>
      BY <2>6 DEF EndTests
    <3>2. StartUpLeft = n * l + 0 + 1
      BY <2>1, <3>1 DEF StartUpLeft
    <3>3. StartUpLeft' = n * l + 0 + 0
      BY <2>1, <3>1 DEF StartUpLeft, TestLength
    <3> QED
      BY <2>2, <3>2, <3>3
  <2>7. CASE Crashed
    <3>1. UNCHANGED <<phase, testing, reader, totalBytes, untested>>
      BY <2>7 DEF Crashed, vars, testVars, cardVars
    <3>2. StartUpLeft' = StartUpLeft
      BY <3>1 DEF StartUpLeft, TestLength, ReadersLeft, ReadersAt
    <3>3. StartUpLeft \in Int
      <4>1. \E t \in Nat, p \in Nat : StartUpLeft = n * l + t + p
        <5>1. (IF testing = NoCard THEN 0 ELSE 1 + ReadersLeft) \in Nat
          BY <2>1
        <5> QED
          BY <2>1, <5>1 DEF StartUpLeft
      <4> QED
        BY <2>2, <4>1
    <3> QED
      BY <3>1, <3>2, <3>3
  <2> QED
    BY <2>3, <2>4, <2>5, <2>6, <2>7 DEF Next, PeriodCheck
<1>2. Init => Fresh
  BY DEF Init, TestInit, Fresh
<1>3. SchedInv => Phases
  BY DEF SchedInv
<1> QED
  BY <1>1, <1>2, <1>3, FreshStep, CardsInvariant, PTL DEF Spec, StartUpAdvances

=============================================================================
