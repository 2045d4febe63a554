---------------------------- MODULE MCProbeCache ----------------------------
(* Instances of ProbeCache. *)
EXTENDS ProbeCache, TLC

CONSTANTS h1, h2

MCHandlers == {h1, h2}
MCOneHandler == {h1}

HandlerSymmetry == Permutations(MCHandlers)

Kind(total, ranges, small, missing) ==
  [total |-> total, ranges |-> ranges, small |-> small, missing |-> missing]

MCLarge == {Kind(4, TRUE, FALSE, FALSE)}

(* A large file, with and without ranges, a little one, one that is small  *)
(* by its ending, one that is missing.                                     *)
MCResources ==
  MCLarge \cup {Kind(4, FALSE, FALSE, FALSE), Kind(2, TRUE, FALSE, FALSE),
               Kind(4, TRUE, TRUE, FALSE), Kind(4, TRUE, FALSE, TRUE)}

=============================================================================
