------------------------------ MODULE MCPubSub ------------------------------
(* A small instance of PubSub for TLC. *)
EXTENDS PubSub

TwoChannels == {"news", "sports"}
=============================================================================
