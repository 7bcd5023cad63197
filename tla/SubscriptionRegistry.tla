------------------------ MODULE SubscriptionRegistry ------------------------
(***************************************************************************)
(* The sorted array wpcp->subscriptions and its binary searches            *)
(* (wpcp_session.c).                                                       *)
(*                                                                         *)
(* A subscription is found by its key: the message type, and the CBOR      *)
(* spelling of what is subscribed to.  wpcp_request_subscription finds or  *)
(* inserts it; wpcp_release_subscription searches for the one whose last   *)
(* reference is gone, in a loop that has no test for "not found".  Every   *)
(* pass of a search loop is a step; the mutex keeps other calls out until  *)
(* the search ends.  Positions count from 0 as in the code.                *)
(***************************************************************************)
EXTENDS Naturals, Sequences, SequencesExt

CONSTANTS
    Key,            \* the keys: records of type, key_length and bytes
    Subscription,   \* heap cells for struct wpcp_subscription_t
    MaxReferences   \* bound: references to one subscription

(* memcmp on strings of one length is a total order, so numbers stand for  *)
(* the bytes.                                                              *)
ASSUME KeyAssumption == Key \subseteq [type : Nat, key_length : Nat, bytes : Nat]

ASSUME MaxReferencesAssumption == MaxReferences \in Nat

VARIABLES
    subscriptions,    \* the array of pointers
    key,              \* the key of every subscription
    reference_count,  \* 0: being removed, or free
    search,           \* "none", or who searches: "request" or "release"
    wanted,           \* the key searched for
    released,         \* the subscription "release" was called with
    low, high,        \* the part of the array that was not ruled out
    undefined         \* memory outside the array was read

bounds == <<low, high>>
vars == <<subscriptions, key, reference_count, search, wanted, released,
          bounds, undefined>>

Init ==
    /\ subscriptions = <<>>
    /\ key \in [Subscription -> Key]
    /\ reference_count = [c \in Subscription |-> 0]
    /\ search = "none"
    /\ wanted \in Key
    /\ released \in Subscription
    /\ low = 0
    /\ high = 0
    /\ undefined = FALSE

(* Mutant: a longer key is not told from a shorter one.                    *)
Less_AnyLength(k, l) ==
    \/ k.type < l.type
    \/ k.type = l.type /\ k.bytes < l.bytes

(* wpcp_subscription_key_compare is negative.                              *)
Less(k, l) ==
    \/ k.type < l.type
    \/ k.type = l.type /\ k.key_length < l.key_length
    \/ k.type = l.type /\ k.key_length = l.key_length /\ k.bytes < l.bytes

Pos == (low + high) \div 2

(* The subscription at Pos.                                                *)
Probe == subscriptions[Pos + 1]

InRange == Pos < Len(subscriptions)

-----------------------------------------------------------------------------
StartSearch(kind, k) ==
    /\ search' = kind
    /\ wanted' = k
    /\ low' = 0
    /\ high' = Len(subscriptions)

(* wpcp_request_subscription.                                              *)
Request(k) ==
    /\ search = "none"
    /\ \A c \in ToSet(subscriptions) :
         key[c] = k => reference_count[c] < MaxReferences
    /\ StartSearch("request", k)
    /\ UNCHANGED <<subscriptions, key, reference_count, released, undefined>>

(* wpcp_retain_subscription by a caller that has a reference.              *)
Retain(c) ==
    /\ search = "none"
    /\ reference_count[c] \in 1..MaxReferences - 1
    /\ reference_count' = [reference_count EXCEPT ![c] = @ + 1]
    /\ UNCHANGED <<subscriptions, key, search, wanted, released, bounds, undefined>>

(* wpcp_release_subscription; only the last reference starts the search.   *)
Release(c) ==
    /\ search = "none"
    /\ reference_count[c] # 0
    /\ reference_count' = [reference_count EXCEPT ![c] = @ - 1]
    /\ IF reference_count[c] = 1
       THEN StartSearch("release", key[c]) /\ released' = c
       ELSE UNCHANGED <<search, wanted, bounds, released>>
    /\ UNCHANGED <<subscriptions, key, undefined>>

(* One pass of a search loop: the request loop ends at low = high, the     *)
(* release loop only at the subscription.                                  *)
Looking == search = "release" \/ (search = "request" /\ low # high)

(* Beyond the end of the array anything may be found.                      *)
MayFind(comparison) == InRange => comparison

(* Mutant: pos is not ruled out.                                           *)
RightOfPos_Stay == Pos

RightOfPos == Pos + 1

LeftOfPos == Pos

GoRight ==
    /\ Looking /\ MayFind(Less(key[Probe], wanted))
    /\ low' = RightOfPos
    /\ undefined' = (undefined \/ ~InRange)
    /\ UNCHANGED <<subscriptions, key, reference_count, search, wanted,
                   released, high>>

GoLeft ==
    /\ Looking /\ MayFind(Less(wanted, key[Probe]))
    /\ high' = LeftOfPos
    /\ undefined' = (undefined \/ ~InRange)
    /\ UNCHANGED <<subscriptions, key, reference_count, search, wanted,
                   released, low>>

Same(k, l) == ~Less(k, l) /\ ~Less(l, k)

(* The request finds the subscription and retains it.                      *)
Find ==
    /\ search = "request" /\ Looking /\ InRange /\ Same(key[Probe], wanted)
    /\ reference_count' = [reference_count EXCEPT ![Probe] = @ + 1]
    /\ search' = "none"
    /\ UNCHANGED <<subscriptions, key, wanted, released, bounds, undefined>>

(* Mutant: the array is not moved apart at the place that was found.       *)
Inserted_Front(c) == InsertAt(subscriptions, 1, c)

(* The array with c where the search ended.                                *)
Inserted(c) == InsertAt(subscriptions, low + 1, c)

(* The request inserts a new subscription c.                               *)
Insert(c) ==
    /\ search = "request" /\ low = high
    /\ c \notin ToSet(subscriptions)
    /\ subscriptions' = Inserted(c)
    /\ key' = [key EXCEPT ![c] = wanted]
    /\ reference_count' = [reference_count EXCEPT ![c] = 1]
    /\ search' = "none"
    /\ UNCHANGED <<wanted, released, bounds, undefined>>

(* realloc or malloc returns NULL.                                         *)
InsertFails ==
    /\ search = "request" /\ low = high
    /\ search' = "none"
    /\ UNCHANGED <<subscriptions, key, reference_count, wanted, released,
                   bounds, undefined>>

Removed == RemoveAt(subscriptions, Pos + 1)

(* The release removes what it finds; the subscription it was called with  *)
(* is freed.                                                               *)
RemoveFound ==
    /\ search = "release" /\ InRange /\ Same(key[Probe], wanted)
    /\ subscriptions' = Removed
    /\ search' = "none"
    /\ UNCHANGED <<key, reference_count, wanted, released, bounds, undefined>>

-----------------------------------------------------------------------------
Call ==
    \/ \E k \in Key : Request(k)
    \/ \E c \in Subscription : Retain(c) \/ Release(c)

Search ==
    \/ GoRight
    \/ GoLeft
    \/ Find
    \/ \E c \in Subscription : Insert(c)
    \/ InsertFails
    \/ RemoveFound

Next == Call \/ Search

Spec == Init /\ [][Next]_vars

(* A call that was entered goes on.                                        *)
FairSpec == Spec /\ WF_vars(Search)

-----------------------------------------------------------------------------
(* Every variable stays in its type.                                       *)
TypeOK ==
    /\ subscriptions \in Seq(Subscription)
    /\ key \in [Subscription -> Key]
    /\ reference_count \in [Subscription -> Nat]
    /\ search \in {"none", "request", "release"}
    /\ wanted \in Key
    /\ released \in Subscription
    /\ low \in Nat
    /\ high \in Nat
    /\ undefined \in BOOLEAN

(* Two subscriptions never have the same key, so all sessions that         *)
(* subscribe to one thing share one subscription.                          *)
OnePerKey ==
    \A c, d \in Subscription :
        c # d /\ reference_count[c] # 0 /\ reference_count[d] # 0
            => key[c] # key[d]

(* The array lists the subscriptions that are referenced, and the one that *)
(* is being released until it is found: what is freed is what is removed.  *)
Registered ==
    \A c \in Subscription :
        c \in ToSet(subscriptions) <=>
            reference_count[c] # 0 \/ (search = "release" /\ c = released)

(* The release loop, which has no test for "not found", finds the          *)
(* subscription before it leaves the array.                                *)
StaysInside == ~undefined

(* Each pass of a search loop leaves less of the array to look at.         *)
SearchShrinks ==
    [][search # "none" /\ search' = search
         => high' + low < high + low']_vars

(* A request gives a reference to what was requested, and to nothing else. *)
GivesWanted ==
    [][\A c \in Subscription :
         search = "request" /\ reference_count'[c] # reference_count[c]
            => key'[c] = wanted /\ reference_count'[c] = reference_count[c] + 1]_vars

(* Every search ends.                                                      *)
SearchEnds == search # "none" ~> search = "none"
=============================================================================
