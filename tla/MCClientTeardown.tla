-------------------------- MODULE MCClientTeardown --------------------------
(* Small instances of ClientTeardown for TLC: one or two servers. *)
EXTENDS ClientTeardown

CONSTANTS server_a, server_b

OneServer  == {server_a}
TwoServers == {server_a, server_b}
ThreeStreams == 1 .. 3
=============================================================================
