----------------------- MODULE MCSubscriptionRegistry -----------------------
(* Instances of SubscriptionRegistry for TLC.                              *)
EXTENDS SubscriptionRegistryProofs

K(type, length, bytes) == [type |-> type, key_length |-> length, bytes |-> bytes]

(* Neighbours in the order differ in each of the three parts.              *)
Keys == {K(1, 1, 5), K(1, 2, 3), K(1, 2, 5), K(1, 3, 2), K(2, 1, 1)}
=============================================================================
