---------------------------- MODULE MCConnection ----------------------------
(* One page with at most three sockets that are not closed yet.            *)
EXTENDS Connection
=============================================================================
