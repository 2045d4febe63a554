----------------------------- MODULE MCChunkPlan -----------------------------
(* Instances of ChunkPlan: every pair of probabilities for two cards with  *)
(* two clients each, or for one card, over a few file and chunk sizes.     *)
EXTENDS ChunkPlan, FiniteSets

Clients == <<[ip |-> "nic1", index |-> 0], [ip |-> "nic1", index |-> 1],
             [ip |-> "nic2", index |-> 0], [ip |-> "nic2", index |-> 1]>>

(* The running sum of the probabilities, PeriodCheck's accChunks. *)
Acc(p) == [k \in DOMAIN p |->
             LET sum[n \in 0..k] == IF n = 0 THEN 0 ELSE sum[n-1] + p[n]
             IN sum[k]]

Snapshot(p) ==
  [entries |-> [k \in DOMAIN p |->
                  [ip |-> Clients[k].ip, index |-> Clients[k].index,
                   prob |-> p[k], acc |-> Acc(p)[k]]],
   total |-> IF p = <<>> THEN 0 ELSE Acc(p)[Len(p)]]

(* Probabilities as PeriodCheck publishes them once every card has a       *)
(* measured speed: at least one is positive.                               *)
MCSnapshots ==
  LET probs == UNION {[1..n -> 0..2] : n \in {0, 2, 4}}
  IN  {Snapshot(p) : p \in {q \in probs : q = <<>> \/ \E k \in DOMAIN q : q[k] > 0}}
      \cup {InitialSnapshot(<<"nic1">>)}

(* Above 59 bytes a file outweighs its direct share and the largest chunk. *)
MCSizes == {60, 61, 67}

MCBestChunks == [{"nic1", "nic2"} -> {0, 7}]

(* One card that a turn of PeriodCheck found full with probes alone: the   *)
(* weights of its two chunk clients are 0/0, and so is the total. What the *)
(* two weights hold is not looked at then.                                 *)
LostSnapshot == [Snapshot(<<0, 0>>) EXCEPT !.total = NaN]

ASSUME MCLargeFiles == LargeFiles(5) /\ MoreThanDirect(5, 7)

(* Start-up on two cards, before the first PeriodCheck, and the snapshot   *)
(* above.                                                                  *)
MCStartSnapshots ==
  {InitialSnapshot(<<"nic1", "nic2">>), InitialSnapshot(<<"nic2", "nic1">>), LostSnapshot}

=============================================================================
