------------------------------- MODULE MCTunnel -------------------------------
(* One connection, to a host listed for passing through (with the port a   *)
(* CONNECT names, and without) or to another.                              *)
EXTENDS Tunnel

MCListed == {[name |-> "site", port |-> p] : p \in BOOLEAN}

=============================================================================
