----------------------------- MODULE OutChannel -----------------------------
(***************************************************************************)
(* What a session promises about its outgoing messages.                    *)
(*                                                                         *)
(* The results a session accepts are numbered from 1 in the order in which *)
(* it accepts them.  A notification is the number of results the session   *)
(* had accepted when it accepted the notification: any of those may be the *)
(* one that tells the client the notification's subscription id.  The      *)
(* websocket's writer is handed every accepted result once, oldest first,  *)
(* and the notifications oldest first, none of them before a result that   *)
(* was accepted earlier.                                                   *)
(***************************************************************************)
EXTENDS Naturals, Sequences

CONSTANT MaxBlocked   \* a result releases at most this many notifications

VARIABLES
    open,      \* the session exists
    failed,    \* an allocation failed: the session is about to be closed
    issued,    \* the number of results this session accepted
    results,   \* the accepted results that were not handed out
    notes      \* the accepted notifications that were not handed out

vars == <<open, failed, issued, results, notes>>

Init ==
    /\ open = TRUE
    /\ failed = FALSE
    /\ issued = 0
    /\ results = {}
    /\ notes = <<>>

(* A result, and the notifications that were held back until it is out.    *)
AcceptResult ==
    \E k \in 0..MaxBlocked :
        /\ open
        /\ issued' = issued + 1
        /\ results' = results \cup {issued + 1}
        /\ notes' = notes \o [i \in 1..k |-> issued + 1]
        /\ UNCHANGED <<open, failed>>

AcceptNote ==
    /\ open
    /\ notes' = Append(notes, issued)
    /\ UNCHANGED <<open, failed, issued, results>>

DeliverResult ==
    \E r \in results :
        /\ \A s \in results : r <= s
        /\ results' = results \ {r}
        /\ UNCHANGED <<open, failed, issued, notes>>

(* One publish message carries the n oldest notifications.                 *)
DeliverNotes ==
    \E n \in 1..Len(notes) :
        /\ \A i \in 1..n : \A r \in results : notes[i] < r
        /\ notes' = SubSeq(notes, n + 1, Len(notes))
        /\ UNCHANGED <<open, failed, issued, results>>

(* After a failed allocation nothing is promised but that the session      *)
(* closes: it may drop results and still take up notifications.            *)
Fail ==
    \E k \in 0..MaxBlocked :
        /\ open
        /\ failed' = TRUE
        /\ results' \subseteq results
        /\ notes' = notes \o [i \in 1..k |-> issued]
        /\ UNCHANGED <<open, issued>>

Close ==
    /\ open
    /\ open' = FALSE
    /\ results' = {}
    /\ notes' = <<>>
    /\ UNCHANGED <<failed, issued>>

Reopen ==
    /\ ~open
    /\ open' = TRUE
    /\ failed' = FALSE
    /\ issued' = 0
    /\ UNCHANGED <<results, notes>>

Next ==
    \/ AcceptResult
    \/ AcceptNote
    \/ DeliverResult
    \/ DeliverNotes
    \/ Fail
    \/ Close
    \/ Reopen

Spec == Init /\ [][Next]_vars
=============================================================================
