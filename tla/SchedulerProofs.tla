---------------------------- MODULE SchedulerProofs ----------------------------
(* Facts about the scheduler's operators: what one turn does to a card's   *)
(* standard speed, and what the weights of a card with spare capacity are. *)
EXTENDS Scheduler, FiniteSetTheorems, TLAPS

(* Products of positive numbers. *)
LEMMA Positives == ASSUME NEW a \in Nat \ {0}, NEW b \in Nat \ {0} PROVE a * b \in Nat \ {0}
<1>1. a * b \in Nat
  OBVIOUS
<1>2. a * b # 0
  OBVIOUS
<1> QED
  BY <1>1, <1>2

LEMMA Larger == ASSUME NEW k \in Nat \ {0}, NEW a \in Nat, NEW b \in Nat, a < b PROVE k * a < k * b
OBVIOUS

LEMMA LargerSquare == ASSUME NEW a \in Nat, NEW b \in Nat, a < b PROVE a * a < b * b
OBVIOUS

(* The weight of a client that leaves something of what the others leave.  *)
LEMMA WeightValue ==
  ASSUME NEW s \in Nat \ {0}, NEW part \in Nat, NEW rest \in Nat, part < rest
  PROVE  Weight(s, part, Num(rest)) =
           [n |-> s * ((rest - part) * (rest - part)), d |-> rest * rest]
<1>1. Over(Num(part), Num(rest)) = [n |-> part, d |-> rest]
  BY DEF Over, Num, Frac
<1>2. Minus(Num(1), [n |-> part, d |-> rest]) = [n |-> rest - part, d |-> rest]
  BY DEF Minus, Num, Frac, IsNaN, IsInf
<1>3. Square([n |-> rest - part, d |-> rest]) = [n |-> (rest - part) * (rest - part), d |-> rest * rest]
  BY DEF Square, Times, Frac
<1>4. (rest - part) * (rest - part) \in Int /\ rest * rest \in Int
  OBVIOUS
<1>5. Times(Num(s), [n |-> (rest - part) * (rest - part), d |-> rest * rest]) =
        [n |-> s * ((rest - part) * (rest - part)), d |-> rest * rest]
  BY <1>4 DEF Times, Num, Frac
<1>6. s # Lost
  BY DEF Lost
<1> QED
  BY <1>1, <1>2, <1>3, <1>5, <1>6 DEF Weight

(* The weights of a card with spare capacity are positive numbers, the     *)
(* less loaded chunk client's the larger one.                              *)
LEMMA SpareCard ==
  ASSUME NEW s \in Nat, NEW l \in [probe : Nat, chunk0 : Nat, chunk1 : Nat], s > SpeedNetCard(l)
  PROVE  LET w == SpareWeights(s, l)
         IN  /\ \A x \in {w.probe, w.chunk0, w.chunk1} : Positive(x) /\ Finite(x)
             /\ l.chunk0 < l.chunk1 => Less(w.chunk1, w.chunk0)
             /\ l.chunk1 < l.chunk0 => Less(w.chunk0, w.chunk1)
<1> DEFINE p == l.probe
           c0 == l.chunk0
           c1 == l.chunk1
           free == s - (p + c0 + c1)
           k == s * (free * free)
           w == SpareWeights(s, l)
<1>1. p \in Nat /\ c0 \in Nat /\ c1 \in Nat /\ free \in Nat \ {0} /\ s \in Nat \ {0}
  BY DEF SpeedNetCard
<1>2. k \in Nat \ {0}
  <2>1. free * free \in Nat \ {0}
    BY <1>1, Positives
  <2> QED
    BY <1>1, <2>1, Positives
<1>3. /\ w.probe  = [n |-> k, d |-> (free + p) * (free + p)]
      /\ w.chunk0 = [n |-> k, d |-> (free + c0) * (free + c0)]
      /\ w.chunk1 = [n |-> k, d |-> (free + c1) * (free + c1)]
  <2>1. ASSUME NEW part \in Nat
        PROVE  Weight(s, part, Num(free + part)) = [n |-> k, d |-> (free + part) * (free + part)]
    <3>1. free + part \in Nat /\ part < free + part /\ (free + part) - part = free
      BY <1>1
    <3> HIDE DEF free
    <3> QED
      BY <1>1, <3>1, WeightValue
  <2>2. s - c0 - c1 = free + p /\ s - c1 - p = free + c0 /\ s - p - c0 = free + c1
    BY <1>1
  <2>3. w = [probe |-> Weight(s, p, Num(free + p)), chunk0 |-> Weight(s, c0, Num(free + c0)),
             chunk1 |-> Weight(s, c1, Num(free + c1))]
    BY <2>2 DEF SpareWeights
  <2> HIDE DEF p, c0, c1, free, k, w
  <2> QED
    BY <1>1, <2>1, <2>3
<1> HIDE DEF p, c0, c1, free, k, w
<1>4. ASSUME NEW part \in Nat PROVE (free + part) * (free + part) \in Nat \ {0}
  BY <1>1, Positives
<1>5. \A x \in {w.probe, w.chunk0, w.chunk1} : Positive(x) /\ Finite(x)
  BY <1>1, <1>2, <1>3, <1>4 DEF Positive, Finite
<1>6. ASSUME NEW a \in Nat, NEW b \in Nat, a < b
      PROVE  Less([n |-> k, d |-> (free + b) * (free + b)], [n |-> k, d |-> (free + a) * (free + a)])
  <2>1. free + a \in Nat /\ free + b \in Nat /\ free + a < free + b
    BY <1>1, <1>6
  <2>2. (free + a) * (free + a) < (free + b) * (free + b)
    BY <2>1, LargerSquare
  <2>3. k * ((free + a) * (free + a)) < k * ((free + b) * (free + b))
    BY <1>2, <1>4, <2>2, Larger
  <2> QED
    BY <1>4, <2>3 DEF Less, Finite
<1>7. c0 < c1 => Less(w.chunk1, w.chunk0)
  BY <1>1, <1>3, <1>6
<1>8. c1 < c0 => Less(w.chunk0, w.chunk1)
  BY <1>1, <1>3, <1>6
<1> QED
  BY <1>5, <1>7, <1>8 DEF c0, c1, w

(* One turn moves a standard speed towards the target and not past it.     *)
LEMMA StandardMoves ==
  ASSUME NEW s \in Nat, NEW target \in Nat, NEW v \in Towards(s, target)
  PROVE  v \in Nat /\ (v >= s \/ v >= target) /\ (v <= s \/ v <= target)
BY DEF Towards

LEMMA NextStandardRange ==
  ASSUME NEW c \in Cards, NEW total \in Nat,
         low[c] \in Nat, fastest[c] \in Nat, standard[c] \in Nat \cup {Lost},
         NEW v \in NextStandard(c, total)
  PROVE  /\ v \in Nat \cup {Lost}
         /\ HighSpeed(c, total) \in Nat /\ HighSpeed(c, total) >= fastest[c]
         /\ v # Lost => /\ standard[c] # Lost
                        /\ v >= standard[c] \/ v >= low[c]
                        /\ v <= standard[c] \/ v <= low[c] \/ v <= HighSpeed(c, total)
<1>1. HighSpeed(c, total) \in Nat /\ HighSpeed(c, total) >= fastest[c] /\ HighSpeed(c, total) >= total
  BY DEF HighSpeed
<1>2. CASE 3 * total <= low[c]
  BY <1>1, <1>2 DEF NextStandard
<1>3. CASE ~(3 * total <= low[c]) /\ standard[c] > total
  <2>1. v \in Towards(standard[c], low[c]) /\ standard[c] \in Nat
    BY <1>3 DEF NextStandard, Lost
  <2> QED
    BY <1>1, <2>1, StandardMoves DEF Lost
<1>4. CASE ~(3 * total <= low[c]) /\ ~(standard[c] > total)
  <2>1. CASE v = Lost
    BY <1>1, <2>1
  <2>2. CASE v # Lost
    <3>1. v \in Towards(standard[c], HighSpeed(c, total)) /\ standard[c] \in Nat
      BY <1>4, <2>2 DEF NextStandard
    <3>2. /\ v \in Nat
          /\ v >= standard[c] \/ v >= HighSpeed(c, total)
          /\ v <= standard[c] \/ v <= HighSpeed(c, total)
      BY <1>1, <3>1, StandardMoves
    <3>3. standard[c] <= total
      BY <1>4, <3>1
    <3>4. v >= standard[c]
      BY <1>1, <3>1, <3>2, <3>3
    <3> QED
      BY <1>1, <3>1, <3>2, <3>4 DEF Lost
  <2> QED
    BY <2>1, <2>2
<1> QED
  BY <1>2, <1>3, <1>4

(* A total of positive numbers is one.                                     *)
LEMMA PositiveTotal ==
  ASSUME NEW weights, weights # {}, \A x \in weights : Positive(x) /\ Finite(x)
  PROVE  Total(weights) = "positive"
BY DEF Total, Positive, Finite, IsNaN, IsInf

LEMMA TotalTypes == ASSUME NEW weights PROVE Total(weights) \in {"nan", "inf", "zero", "positive"}
BY DEF Total

=============================================================================
