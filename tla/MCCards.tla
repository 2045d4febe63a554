------------------------------- MODULE MCCards -------------------------------
(* Two cards and, beside idling, the two kinds of load: capacity to spare, *)
(* and a full card whose second chunk client has nothing to do.            *)
EXTENDS Cards

Load(p, c0, c1) == [probe |-> p, chunk0 |-> c0, chunk1 |-> c1]

MCLoads == {Load(0, 1, 0), Load(1, 2, 0)}

MCMeasured == {[low |-> 1, fastest |-> 5, standard |-> 3]}

=============================================================================
