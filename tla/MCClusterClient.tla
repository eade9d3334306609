-------------------------- MODULE MCClusterClient --------------------------
(* Small instances of ClusterClient for TLC: two or three nodes and slots,   *)
(* who owns them, and one key, which hashes to slot 0.                       *)
EXTENDS ClusterClient

CONSTANTS node_a, node_b, node_c, key_k

AB  == {node_a, node_b}
ABC == {node_a, node_b, node_c}
OneKey == {key_k}

ThreeSlots == 0 .. 2
TwoSlots   == 0 .. 1

\* Node a has slots 0 and 2, b has 1; or a has 0 and b has 1.
Interleaved == [s \in 0 .. 2 |-> IF s = 1 THEN node_b ELSE node_a]
OneEach     == [s \in 0 .. 1 |-> IF s = 0 THEN node_a ELSE node_b]

InSlot0 == [x \in Keys |-> 0]
=============================================================================
