------------------------------- MODULE MCPeers -------------------------------
(* Values of the constants of Peers for peers.cfg. *)
EXTENDS Peers, TLC

CONSTANTS s1, s2, s3

\* Nothing tells the sender's commands apart.
MCSymmetry == Permutations(Sends)

=============================================================================
