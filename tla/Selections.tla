----------------------------- MODULE Selections -----------------------------
(***************************************************************************)
(* What is left of a sequence when some of its elements are taken.  The    *)
(* operators are recursive functions, so that proofs can go along them.    *)
(***************************************************************************)
EXTENDS Naturals, Sequences

(* The elements of s that are in S, in their order.                        *)
Those(s, S) ==
    LET upTo[k \in 0..Len(s)] ==
          IF k = 0 THEN <<>>
          ELSE IF s[k] \in S THEN Append(upTo[k - 1], s[k]) ELSE upTo[k - 1]
    IN  upTo[Len(s)]

(* What message m, a sequence of pairs of item and value, brings to i.     *)
Share(m, i) ==
    LET upTo[k \in 0..Len(m)] ==
          IF k = 0 THEN <<>>
          ELSE IF m[k].item = i THEN Append(upTo[k - 1], m[k].value) ELSE upTo[k - 1]
    IN  upTo[Len(m)]
=============================================================================
