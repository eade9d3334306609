----------------------------- MODULE MCCluster -----------------------------
(* Small instances of Cluster for TLC: one slot with keys, which node 0 has   *)
(* after Setup.                                                               *)
EXTENDS Cluster

CONSTANTS key_a, key_b

TwoKeys == {key_a, key_b}
InSlot1 == [k \in Keys |-> 1]
=============================================================================
