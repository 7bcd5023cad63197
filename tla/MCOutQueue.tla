----------------------------- MODULE MCOutQueue -----------------------------
(* Instances of OutQueue for TLC.                                          *)
EXTENDS OutQueueProofs, TLC

NodeSymmetry == Permutations(Node)
=============================================================================
