----------------------------- MODULE MCSessions -----------------------------
(* Instances of Sessions for TLC.                                          *)
EXTENDS SessionListsProofs, TLC

SessionsSymmetry ==
    Permutations(Session) \cup Permutations(Key) \cup Permutations(Item)
        \cup Permutations(Result)
=============================================================================
