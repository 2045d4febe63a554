------------------------------ MODULE Scheduler ------------------------------
(***************************************************************************)
(* NetCardMonitor.go: twice a second PeriodCheck turns the speeds of every *)
(* card's three clients into the weights by which probes and chunks are    *)
(* dealt to the cards, and publishes them as a snapshot; getProbeClientP   *)
(* and ChunkCalculate (ChunkPlan) read the last one published.             *)
(***************************************************************************)
EXTENDS Floats, Sequences, FiniteSets

CONSTANTS
  Cards,   \* NetCardInfo.Content's keys
  Loads    \* speeds of a card's clients in one interval

ASSUME SchedulerAssumption ==
  /\ IsFiniteSet(Cards)
  /\ Loads \subseteq [probe : Nat, chunk0 : Nat, chunk1 : Nat]

(* A standard speed that has become 0/0. *)
Lost == -1

VARIABLES
  low, fastest, standard,  \* LowAvgSpeed, FastestSpeed and StandardSpeed
  timed,    \* the cards whose Time a turn has set
  load,     \* the speeds of the last turn
  snapshot  \* NetCardCho.current

schedVars == <<low, fastest, standard, timed, load, snapshot>>

Idle == [probe |-> 0, chunk0 |-> 0, chunk1 |-> 0]

SpeedNetCard(l) == l.probe + l.chunk0 + l.chunk1

-----------------------------------------------------------------------------
(* Mutant of Towards: alpha is 2.                                          *)
TowardsPast(s, target) == {s + 2 * (target - s)}

(* One card's standard speed. It moves towards its target by a part that   *)
(* lies in [0, alpha] (x is in (-1, 0]); how far is left open, but it does *)
(* not get there.                                                          *)
Towards(s, target) ==
  {s} \cup {v \in s..target : v < target} \cup {v \in target..s : v > target}

HighSpeed(c, total) == IF fastest[c] < total THEN total ELSE fastest[c]

(* Mutant of NextStandard: the quotient's target is the measured speed.    *)
NextStandardOver(c, total) ==
  LET s == standard[c]
  IN  IF 3 * total <= low[c] THEN {s}
      ELSE IF s > total THEN Towards(s, low[c])
      ELSE IF s = Lost \/ s = HighSpeed(c, total) THEN {Lost}
      ELSE s .. (HighSpeed(c, total) + total)

NextStandard(c, total) ==
  LET s == standard[c]
  IN  IF 3 * total <= low[c] THEN {s}
      ELSE IF s > total THEN Towards(s, low[c])
      ELSE IF s = Lost \/ s = HighSpeed(c, total) THEN {Lost}
      ELSE Towards(s, HighSpeed(c, total))

(* StandardSpeed * (1 - part/rest) * (1 - part/rest) *)
Weight(s, part, rest) ==
  IF s = Lost THEN NotANumber
  ELSE Times(Num(s), Square(Minus(Num(1), Over(Num(part), rest))))

(* Mutant of SpareWeights: each client's own speed is taken off as well.   *)
SpareWeightsAll(s, l) ==
  LET rest == Num(s - SpeedNetCard(l))
  IN  [probe  |-> Weight(s, l.probe, rest),
       chunk0 |-> Weight(s, l.chunk0, rest),
       chunk1 |-> Weight(s, l.chunk1, rest)]

(* The card has capacity to spare: StandardSpeed > SpeedNetCard. *)
SpareWeights(s, l) ==
  [probe  |-> Weight(s, l.probe, Num(s - l.chunk0 - l.chunk1)),
   chunk0 |-> Weight(s, l.chunk0, Num(s - l.chunk1 - l.probe)),
   chunk1 |-> Weight(s, l.chunk1, Num(s - l.probe - l.chunk0))]

(* Otherwise the measured speed stands for the standard one, and what is   *)
(* taken off are the weights Chunks1P, still 0, and Chunks0P.              *)
FullWeights(s, l) ==
  LET total == SpeedNetCard(l)
      chunk0 == Weight(s, l.chunk0, Num(total - 0 - l.probe))
  IN  [probe  |-> Weight(s, l.probe, Num(total - l.chunk0 - 0)),
       chunk0 |-> chunk0,
       chunk1 |-> Weight(s, l.chunk1, Minus(Num(total - l.probe), chunk0))]

(* Mutant of Weights: as if every card were full. *)
WeightsFull(s, l) == FullWeights(s, l)

Weights(s, l) == IF s > SpeedNetCard(l) THEN SpareWeights(s, l) ELSE FullWeights(s, l)

-----------------------------------------------------------------------------
(* Snapshots. A map is walked in any order. *)
Orders == {o \in [1..Cardinality(Cards) -> Cards] :
             \A i, j \in DOMAIN o : o[i] = o[j] => i = j}

(* A total, as far as its readers can tell: no weight is negative, so it   *)
(* is NaN, infinite or positive as soon as one of its terms is.            *)
Total(weights) ==
  IF \E w \in weights : IsNaN(w) THEN "nan"
  ELSE IF \E w \in weights : IsInf(w) THEN "inf"
  ELSE IF \E w \in weights : Positive(w) THEN "positive"
  ELSE "zero"

ChunkWeights(w) == UNION {{w[c].chunk0, w[c].chunk1} : c \in Cards}
ProbeWeights(w) == {w[c].probe : c \in Cards}

(* Entries in the order of the walk; each card has one probe entry and the *)
(* chunk entries of its clients.                                           *)
Snapshot(o, w) ==
  [order |-> o, weights |-> w,
   totalChunks |-> Total(ChunkWeights(w)), totalProbe |-> Total(ProbeWeights(w))]

(* IPHTTPClientAndChoInit stores entries without a weight, only for the    *)
(* first client of each card.                                              *)
NoWeights == [c \in Cards |-> [probe |-> Num(0), chunk0 |-> Num(0), chunk1 |-> Num(0)]]

(* NetCardInfo as TransportPoolCreate leaves it. *)
SchedInit ==
  /\ low = [c \in Cards |-> 0] /\ fastest = [c \in Cards |-> 0]
  /\ standard = [c \in Cards |-> 0]
  /\ timed = {}
  /\ load = [c \in Cards |-> Idle]
  /\ snapshot \in {Snapshot(o, NoWeights) : o \in Orders}

(* TCPSpeedTest stores a card's measured speeds. *)
Measure(c, bag) ==
  /\ low' = [low EXCEPT ![c] = bag.low]
  /\ fastest' = [fastest EXCEPT ![c] = bag.fastest]
  /\ standard' = [standard EXCEPT ![c] = bag.standard]
  /\ UNCHANGED <<timed, load, snapshot>>

(* A member of every set of a family. *)
Choices(sets) ==
  {f \in [DOMAIN sets -> UNION {sets[x] : x \in DOMAIN sets}] : \A x \in DOMAIN sets : f[x] \in sets[x]}

(* A turn of PeriodCheck, BroadcastUpdate and the sleep left to Lifecycle. *)
(* A card's first interval begins at the zero time: its speeds round to 0. *)
Turn ==
  \E l \in Choices([c \in Cards |-> IF c \in timed THEN Loads ELSE {Idle}]) :
    /\ load' = l /\ timed' = Cards
    /\ fastest' = [c \in Cards |-> HighSpeed(c, SpeedNetCard(l[c]))]
    /\ standard' \in Choices([c \in Cards |-> NextStandard(c, SpeedNetCard(l[c]))])
    /\ LET w == [c \in Cards |-> Weights(standard'[c], l[c])]
       IN  snapshot' \in {Snapshot(o, w) : o \in Orders}
    /\ UNCHANGED low

-----------------------------------------------------------------------------
ProbeEntry(k) == snapshot.weights[snapshot.order[k]].probe

(* The cards getProbeClientP may answer: target < acc first holds at an    *)
(* entry that adds to acc. Against a NaN, an infinite target or a target   *)
(* of 0 with no weights it never does and the last entry is taken; behind  *)
(* a NaN entry the same, but a total is then NaN too.                      *)
ProbeChoices ==
  LET n == Len(snapshot.order)
  IN  {snapshot.order[k] : k \in
         (IF snapshot.totalProbe = "positive"
          THEN {k \in 1..n : Positive(ProbeEntry(k))} ELSE {n})}

-----------------------------------------------------------------------------
(* Types of the scheduler's state. *)
SchedTypeOK ==
  /\ low \in [Cards -> Nat] /\ fastest \in [Cards -> Nat]
  /\ standard \in [Cards -> Nat \cup {Lost}]
  /\ timed \subseteq Cards
  /\ load \in [Cards -> Loads \cup {Idle}]
  /\ snapshot.order \in Orders
  /\ snapshot.totalChunks \in {"nan", "inf", "zero", "positive"}
  /\ snapshot.totalProbe \in {"nan", "inf", "zero", "positive"}

Published == Cards # {} /\ timed = Cards
Spare(c) == standard[c] > SpeedNetCard(load[c])

(* ChunkCalculate divides by TotalChunks, and cuts ranges outside the file *)
(* unless it is a positive number (ChunkPlan's Sane). It is one whenever   *)
(* every card has been measured and has capacity to spare (369-388).       *)
SharesUsable ==
  Published /\ (\A c \in Cards : Spare(c)) =>
    snapshot.totalChunks = "positive" /\ snapshot.totalProbe = "positive"

(* A card with capacity to spare is never shut out: its clients have       *)
(* weights, the chunk client that carries less the larger one, and it may  *)
(* be dealt a probe, unless another card's weights are no numbers          *)
(* (369-384, 255-271).                                                     *)
SpareCardServes ==
  Published => \A c \in Cards : Spare(c) =>
    /\ Positive(snapshot.weights[c].chunk0) /\ Positive(snapshot.weights[c].chunk1)
    /\ load[c].chunk0 < load[c].chunk1 => Less(snapshot.weights[c].chunk1, snapshot.weights[c].chunk0)
    /\ load[c].chunk1 < load[c].chunk0 => Less(snapshot.weights[c].chunk0, snapshot.weights[c].chunk1)
    /\ snapshot.totalProbe = "positive" => c \in ProbeChoices

=============================================================================
