------------------------ MODULE NotificationChannel ------------------------
(***************************************************************************)
(* What publishing promises: every publish item gets what was published to *)
(* it, in the order in which it was published, until its session ends.     *)
(* One message carries notifications of one session only.                  *)
(***************************************************************************)
EXTENDS Selections

CONSTANTS
    Item,     \* publish items
    Session,
    Value     \* what is published

VARIABLES
    owner,  \* the session of every publish item
    owed,   \* what every publish item has still to get, oldest first
    sent    \* the message that was just made: pairs of item and value

vars == <<owner, owed, sent>>

Init ==
    /\ owner \in [Item -> Session]
    /\ owed = [i \in Item |-> <<>>]
    /\ sent = <<>>

Publish ==
    /\ sent' = <<>>
    /\ DOMAIN owed' = Item
    /\ \E v \in Value : \A i \in Item : owed'[i] \in {owed[i], Append(owed[i], v)}

Send ==
    /\ sent' # <<>>
    /\ \E s \in Session : \A k \in DOMAIN sent' : owner[sent'[k].item] = s
    /\ \A i \in Item : Share(sent', i) \o owed'[i] = owed[i]

SessionEnd ==
    /\ sent' = <<>>
    /\ \E s \in Session : owed' = [i \in Item |-> IF owner[i] = s THEN <<>> ELSE owed[i]]

Quiet == sent' = <<>> /\ owed' = owed

Next == UNCHANGED owner /\ (Quiet \/ Publish \/ Send \/ SessionEnd)

Spec == Init /\ [][Next]_vars
=============================================================================
