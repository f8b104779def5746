------------------------------- MODULE MCPeer -------------------------------
(* The constants of the runs of Peer are given in the .cfg files. *)
EXTENDS Peer
=============================================================================
