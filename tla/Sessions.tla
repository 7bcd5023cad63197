------------------------------ MODULE Sessions ------------------------------
(***************************************************************************)
(* Sessions, subscriptions, publish items and results: who holds what, and *)
(* what the application still has to answer (wpcp.c, wpcp_session.c).      *)
(*                                                                         *)
(* A subscription is shared by the sessions that subscribed to the same    *)
(* key and lives while its reference_count is not 0.  A publish item is    *)
(* one session's use of a subscription; the client knows it by its id,     *)
(* which it learns from the result of its subscribe message.  A result     *)
(* collects the answers to the items of one message and is appended to the *)
(* outgoing messages when the last answer is in.  Until then notifications *)
(* for the publish items it announces are held back in blocked_items.      *)
(*                                                                         *)
(* The application is called with an item of a message and answers it now  *)
(* or later, from any thread that holds the mutex.  Every step below is    *)
(* one stretch of code under the mutex between two points where the        *)
(* application can act.  What becomes of a message once it is appended is  *)
(* the business of OutQueue.                                               *)
(***************************************************************************)
EXTENDS Naturals, Sequences, FiniteSetsExt, SequencesExt

CONSTANTS
    Session,      \* connections
    Key,          \* what can be subscribed to: type and CBOR spelling
    Item,         \* heap cells for struct wpcp_publish_item_t
    Result,       \* heap cells for struct wpcp_result_t
    Null,         \* the null pointer
    Additional,   \* additional_items: 16 in the code
    MaxItems,     \* bound: items in one message
    MaxOpen,      \* bound: unanswered items
    MaxReferences, \* bound: references to one subscription
    Fails         \* the allocations that may fail

(* What the variables hold; blocked is blocked_items->items, with room for *)
(* so many, 0 while blocked_items is NULL.                                 *)
PublishItem ==
    [session : Session, key : Key, id : Nat \ {0}, by : Result \cup {Null}]
ResultCell ==
    [session : Session \cup {Null}, remaining : Nat, room : Nat, blocked : Seq(Item)]
Kind == {"call", "subscribe", "unsubscribe"}
Owed == [result : Result, n : Nat \ {0}, kind : Kind, key : Key \cup {Null}]
Handling == [session : Session, result : Result, kind : Kind, todo : Nat \ {0}]
Deleting == [session : Session, result : Result]

ASSUME SessionsAssumption ==
    /\ Null \notin Session \cup Key \cup Item \cup Result
    /\ Null \notin PublishItem \cup ResultCell \cup Handling \cup Deleting
    /\ IsFiniteSet(Item)
    /\ Additional \in Nat /\ Additional > 1
    /\ MaxItems \in Nat /\ MaxOpen \in Nat /\ MaxReferences \in Nat
    /\ Fails \subseteq {"subscription", "table", "blocked", "item", "list"}

VARIABLES
    reference_count,  \* of every subscription; 0: not in the registry
    publish_handle,   \* publish_handle.items of every subscription
    item,             \* every publish item, Null when free
    session,          \* "none", "new", "open", "deleting"
    publish_items,    \* publish_items[1..] of every session
    next_free_publish_item,
    results,          \* session->results, newest first
    result,           \* every result, Null when free
    held,             \* whose notifications are in blocked_items->publish_queue
    pending,          \* items the application was called with and owes an answer
    handling,         \* the message that is being taken apart, or Null
    deleting,         \* the session that is being deleted, or Null
    republish,        \* the publish item the republish callback runs for
    early,            \* a notification was queued before its result (history)
    undefined         \* NULL or overwritten memory was used

subs == <<reference_count, publish_handle, item>>
tables == <<publish_items, next_free_publish_item>>
answers == <<results, result, held, pending>>
calls == <<handling, deleting, republish>>
vars == <<subs, session, tables, answers, calls, early, undefined>>

Init ==
    /\ reference_count = [k \in Key |-> 0]
    /\ publish_handle = [k \in Key |-> <<>>]
    /\ item = [i \in Item |-> Null]
    /\ session = [s \in Session |-> "none"]
    /\ publish_items = [s \in Session |-> <<>>]
    /\ next_free_publish_item = [s \in Session |-> 1]
    /\ results = [s \in Session |-> <<>>]
    /\ result = [r \in Result |-> Null]
    /\ held = [r \in Result |-> {}]
    /\ pending = {}
    /\ handling = Null
    /\ deleting = Null
    /\ republish = Null
    /\ early = FALSE
    /\ undefined = FALSE

(* The code of the application runs: a callback of the library, or another *)
(* thread that took the mutex.                                             *)
Application == republish = Null /\ ~undefined

(* The service thread can take the mutex for the next event.               *)
Idle == handling = Null /\ deleting = Null /\ Application

-----------------------------------------------------------------------------
(* Subscriptions and publish items.                                        *)

(* Mutant: the item stays in the list.                                     *)
Unlisted_Kept(i) == publish_handle

(* wpcp_publish_item_release: i leaves the list of its subscription.       *)
Unlisted(i) ==
    [publish_handle EXCEPT ![item[i].key] = RemoveFirst(@, i)]

(* wpcp_session_get_next_free_publish_id: the first free place at or after *)
(* next_free_publish_item, or the first place of a longer table.           *)
NextFreeId(s) ==
    LET free == {id \in next_free_publish_item[s]..Len(publish_items[s]) :
                   publish_items[s][id] = Null}
    IN  IF free # {} THEN Min(free) ELSE Len(publish_items[s]) + 1

(* The table after that call; index 0 is never used.                       *)
GrownTable(s) ==
    LET len == Len(publish_items[s])
    IN  IF NextFreeId(s) <= len THEN publish_items[s]
        ELSE publish_items[s] \o
               [i \in 1..(IF len = 0 THEN Additional - 1 ELSE Additional) |-> Null]

(* wpcp_session_release_publish_item: id is free again.                    *)
NextFreeAfter(s, id) ==
    [next_free_publish_item EXCEPT ![s] = IF id < @ THEN id ELSE @]

(* Mutant: one reference is given back twice.                              *)
Released_Twice(k) == [reference_count EXCEPT ![k] = @ - 2]

(* wpcp_release_subscription.                                              *)
Released(k) == [reference_count EXCEPT ![k] = @ - 1]

(* Mutants: the alias is not retained, the subscription is not released.   *)
Aliased_NotRetained(from, to) ==
    [reference_count EXCEPT ![from] = @ - 1]

Aliased_NotReleased(from, to) ==
    [reference_count EXCEPT ![to] = @ + 1]

(* An answer with another subscription: one is retained, one released.     *)
Aliased(from, to) ==
    [[reference_count EXCEPT ![to] = @ + 1] EXCEPT ![from] = @ - 1]

-----------------------------------------------------------------------------
(* Results.                                                                *)

(* Mutant: one answer too many is expected.                                *)
NewResult_OneMore(s, count) ==
    [session |-> s, remaining |-> count + 1, room |-> 0, blocked |-> <<>>]

(* wpcp_request_result.                                                    *)
NewResult(s, count) ==
    [session |-> s, remaining |-> count, room |-> 0, blocked |-> <<>>]

(* Mutant: only the newest result is searched.                             *)
BlockedBy_Newest(i) ==
    LET list == results[item[i].session]
    IN  IF list # <<>> /\ i \in ToSet(result[list[1]].blocked)
        THEN list[1] ELSE Null

(* wpcp_blocked_item_for_notify_item: the newest result of i's session     *)
(* that lists i, or Null.                                                  *)
BlockedBy(i) ==
    LET list == results[item[i].session]
        holds == {n \in DOMAIN list : i \in ToSet(result[list[n]].blocked)}
    IN  IF holds = {} THEN Null ELSE list[Min(holds)]

(* The client was sent the id of publish item i.                           *)
Announced(i) == item[i] # Null /\ item[i].by = Null

(* The publish items after result r is appended.                           *)
WithAnnounced(items, r) ==
    [i \in Item |-> IF items[i] # Null /\ items[i].by = r
                    THEN [items[i] EXCEPT !.by = Null] ELSE items[i]]

(* One item of result r is answered; by then the result is res, and the    *)
(* publish items are items (wpcp_release_result).  After the last one the  *)
(* result and the notifications it held back are appended, in this order;  *)
(* without a session all is freed.                                         *)
Answer(p, res, items) ==
    LET r == p.result
        s == res.session
    IN  /\ pending' = pending \ {p}
        /\ \/ /\ res.remaining > 1
              /\ result' = [result EXCEPT ![r] = [res EXCEPT !.remaining = @ - 1]]
              /\ item' = items
              /\ UNCHANGED <<results, held, early>>
           \/ /\ res.remaining = 1 /\ s # Null
              /\ result' = [result EXCEPT ![r] = Null]
              /\ held' = [held EXCEPT ![r] = {}]
              /\ results' = [results EXCEPT ![s] = RemoveFirst(@, r)]
              /\ item' = WithAnnounced(items, r)
              /\ early' = (early \/ \E i \in held[r] : ~ Announced(i)')
           \/ /\ res.remaining = 1 /\ s = Null
              /\ result' = [result EXCEPT ![r] = Null]
              /\ held' = [held EXCEPT ![r] = {}]
              /\ item' = items
              /\ UNCHANGED <<results, early>>

(* The application is called with one item of a message.                   *)
Owe(r, n, kind, k) == [result |-> r, n |-> n, kind |-> kind, key |-> k]

-----------------------------------------------------------------------------
(* Sessions come and messages arrive.                                      *)
SessionCreate(s) ==
    /\ Idle
    /\ session[s] = "none"
    /\ session' = [session EXCEPT ![s] = "new"]
    /\ publish_items' = [publish_items EXCEPT ![s] = <<>>]
    /\ next_free_publish_item' = [next_free_publish_item EXCEPT ![s] = 1]
    /\ results' = [results EXCEPT ![s] = <<>>]
    /\ UNCHANGED <<subs, result, held, pending, calls, early, undefined>>

HandleHello(s) ==
    /\ Idle
    /\ session[s] = "new"
    /\ session' = [session EXCEPT ![s] = "open"]
    /\ UNCHANGED <<subs, tables, answers, calls, early, undefined>>

(* The result for the count items of a message.  A message without items   *)
(* is answered at once, but for unsubscribe a result is made all the same. *)
HandleMessage(s, r, kind, count) ==
    /\ Idle
    /\ session[s] = "open"
    /\ result[r] = Null
    /\ Cardinality(pending) + count <= MaxOpen
    /\ result' = [result EXCEPT ![r] = NewResult(s, count)]
    /\ results' = [results EXCEPT ![s] = <<r>> \o @]
    /\ count = 0 => kind = "unsubscribe"
    /\ handling' = IF count = 0 THEN Null
         ELSE [session |-> s, result |-> r, kind |-> kind, todo |-> count]
    /\ UNCHANGED <<subs, session, tables, held, pending, deleting, republish,
                   early, undefined>>

(* The loop goes on to its next item, or ends.                             *)
Dispatched ==
    handling' = IF handling.todo = 1 THEN Null
                ELSE [handling EXCEPT !.todo = @ - 1]

DispatchCall ==
    /\ Application
    /\ handling # Null /\ handling.kind = "call"
    /\ pending' = pending \cup {Owe(handling.result, handling.todo, "call", Null)}
    /\ Dispatched
    /\ UNCHANGED <<subs, session, tables, results, result, held, deleting,
                   republish, early, undefined>>

(* wpcp_request_subscription finds the subscription or makes it.           *)
DispatchSubscribe(k) ==
    /\ Application
    /\ handling # Null /\ handling.kind = "subscribe"
    /\ reference_count[k] < MaxReferences
    /\ reference_count' = [reference_count EXCEPT ![k] = @ + 1]
    /\ pending' = pending \cup {Owe(handling.result, handling.todo, "subscribe", k)}
    /\ Dispatched
    /\ UNCHANGED <<publish_handle, item, session, tables, results, result,
                   held, deleting, republish, early, undefined>>

(* No memory for a new subscription: the application gets NULL.            *)
DispatchSubscribeFails ==
    /\ Application
    /\ "subscription" \in Fails
    /\ handling # Null /\ handling.kind = "subscribe"
    /\ \E k \in Key : reference_count[k] = 0
    /\ pending' = pending \cup {Owe(handling.result, handling.todo, "subscribe", Null)}
    /\ Dispatched
    /\ UNCHANGED <<subs, session, tables, results, result, held, deleting,
                   republish, early, undefined>>

(* An id the client has: its publish item is released, the application     *)
(* keeps a reference to the subscription until it answers.                 *)
DispatchUnsubscribe(id) ==
    /\ Application
    /\ handling # Null /\ handling.kind = "unsubscribe"
    /\ LET s == handling.session
           i == publish_items[s][id]
       IN  /\ id \in DOMAIN publish_items[s] /\ i # Null
           /\ publish_handle' = Unlisted(i)
           /\ item' = [item EXCEPT ![i] = Null]
           /\ publish_items' = [publish_items EXCEPT ![s][id] = Null]
           /\ next_free_publish_item' = NextFreeAfter(s, id)
           /\ pending' = pending \cup
                {Owe(handling.result, handling.todo, "unsubscribe", item[i].key)}
    /\ Dispatched
    /\ UNCHANGED <<reference_count, session, results, result, held, deleting,
                   republish, early, undefined>>

(* An id nobody has: the application is called without a subscription.     *)
DispatchUnknown ==
    /\ Application
    /\ handling # Null /\ handling.kind = "unsubscribe"
    /\ pending' = pending \cup
         {Owe(handling.result, handling.todo, "unsubscribe", Null)}
    /\ Dispatched
    /\ UNCHANGED <<subs, session, tables, results, result, held, deleting,
                   republish, early, undefined>>

-----------------------------------------------------------------------------
(* The application answers.                                                *)

(* wpcp_return_read_data and its like.                                     *)
ReturnCall(p) ==
    /\ Application
    /\ p \in pending /\ p.kind = "call"
    /\ Answer(p, result[p.result], item)
    /\ UNCHANGED <<reference_count, publish_handle, session, tables, calls, undefined>>

(* wpcp_return_unsubscribe; the result of a deleted session takes the way  *)
(* of the dummy result, which ends the same.                               *)
ReturnUnsubscribe(p) ==
    /\ Application
    /\ p \in pending /\ p.kind = "unsubscribe"
    /\ reference_count' = IF p.key = Null THEN reference_count
                          ELSE Released(p.key)
    /\ Answer(p, result[p.result], item)
    /\ UNCHANGED <<publish_handle, session, tables, calls, undefined>>

(* The subscribe answers use the session, and the subscription, unasked.   *)
SubscribeAnswer(p) ==
    /\ Application
    /\ p \in pending /\ p.kind = "subscribe"

SubscribeAnswerCrashes(p) ==
    /\ SubscribeAnswer(p)
    /\ result[p.result].session = Null \/ p.key = Null
    /\ undefined' = TRUE
    /\ UNCHANGED <<subs, session, tables, answers, calls, early>>

SubscribeAnswerSafe(p) ==
    /\ SubscribeAnswer(p)
    /\ result[p.result].session # Null /\ p.key # Null

ReturnSubscribeReject(p) ==
    /\ SubscribeAnswerSafe(p)
    /\ reference_count' = Released(p.key)
    /\ Answer(p, result[p.result], item)
    /\ UNCHANGED <<publish_handle, session, tables, calls, undefined>>

(* Mutant: no room for the terminating NULL.                               *)
WithRoom_OneLess(res) ==
    IF res.room # 0 THEN res ELSE [res EXCEPT !.room = res.remaining - 1]

(* blocked_items is allocated with the first item, with room for all that  *)
(* can still come.                                                         *)
WithRoom(res) == IF res.room # 0 THEN res ELSE [res EXCEPT !.room = res.remaining]

(* wpcp_return_subscribe_internal on subscription k: the publish item gets *)
(* the next free id and is blocked until the result is out.  Then the      *)
(* republish callback is called, unless there is no memory for its handle. *)
Subscribe(p, k, i) ==
    LET res == WithRoom(result[p.result])
        s == res.session
        id == NextFreeId(s)
    IN  /\ item[i] = Null
        /\ publish_handle' = [publish_handle EXCEPT ![k] = <<i>> \o @]
        /\ publish_items' = [publish_items EXCEPT ![s] = [GrownTable(s) EXCEPT ![id] = i]]
        /\ next_free_publish_item' = [next_free_publish_item EXCEPT ![s] = id + 1]
        /\ Answer(p, [res EXCEPT !.blocked = Append(@, i)],
                  [item EXCEPT ![i] = [session |-> s, key |-> k, id |-> id,
                                       by |-> p.result]])
        /\ republish' \in {i} \cup (IF "list" \in Fails THEN {Null} ELSE {})

ReturnSubscribeAccept(p, i) ==
    /\ SubscribeAnswerSafe(p)
    /\ Subscribe(p, p.key, i)
    /\ UNCHANGED <<reference_count, session, handling, deleting, undefined>>

(* The subscription is replaced by another one that is in use.             *)
ReturnSubscribeAlias(p, k, i) ==
    /\ SubscribeAnswerSafe(p)
    /\ publish_handle[k] # <<>> /\ reference_count[k] < MaxReferences
    /\ Subscribe(p, k, i)
    /\ reference_count' = Aliased(p.key, k)
    /\ UNCHANGED <<session, handling, deleting, undefined>>

(* Without memory the item is answered with id 0.  Only when the publish   *)
(* item itself could not be allocated is the reference given back; else it *)
(* stays with p.key, or with its alias k.  A NULL subscription is not used *)
(* before the publish item is allocated.                                   *)
ReturnSubscribeFails(p, k, what) ==
    /\ SubscribeAnswer(p)
    /\ result[p.result].session # Null
    /\ k # p.key => /\ Null \notin {k, p.key}
                    /\ publish_handle[k] # <<>> /\ reference_count[k] < MaxReferences
    /\ what \in Fails \cap {"table", "blocked", "item"}
    /\ what = "item" => k # Null
    /\ LET res == result[p.result]
           s == res.session
       IN  /\ what = "table" => NextFreeId(s) > Len(publish_items[s])
           /\ what = "blocked" => res.room = 0
           /\ publish_items' = IF what = "table" THEN publish_items
                               ELSE [publish_items EXCEPT ![s] = GrownTable(s)]
           /\ Answer(p, IF what = "item" THEN WithRoom(res) ELSE res, item)
    /\ reference_count' = IF k = Null THEN reference_count
                          ELSE IF what = "item" THEN Released(p.key)
                                                ELSE Aliased(p.key, k)
    /\ UNCHANGED <<publish_handle, session, next_free_publish_item,
                   calls, undefined>>

-----------------------------------------------------------------------------
(* Notifications: wpcp_session_add_publish_queue_item for every item of    *)
(* the list, which is held back or appended to the session's queue.        *)
Held(list, r) == {i \in ToSet(list) : BlockedBy(i) = r}

Notify(list) ==
    LET direct == {i \in ToSet(list) : BlockedBy(i) = Null}
    IN  /\ held' = [r \in Result |-> held[r] \cup Held(list, r)]
        /\ early' = (early \/ \E i \in direct : ~ Announced(i))
        /\ undefined' = \E i \in ToSet(list) : session[item[i].session] # "open"
        /\ UNCHANGED <<subs, session, tables, results, result, pending, handling,
                       deleting>>

Publish(k) ==
    /\ Application
    /\ publish_handle[k] # <<>>
    /\ Notify(publish_handle[k])
    /\ UNCHANGED republish

(* The republish callback publishes the current value to the new item and  *)
(* returns its handle, or only returns it.                                 *)
Republish ==
    /\ ~undefined
    /\ republish # Null
    /\ republish' = Null
    /\ Notify(<<republish>>)

RepublishNothing ==
    /\ ~undefined
    /\ republish # Null
    /\ republish' = Null
    /\ UNCHANGED <<subs, session, tables, answers, handling, deleting,
                   early, undefined>>

-----------------------------------------------------------------------------
(* wpcp_session_delete: the results lose their session.  With publish      *)
(* items left, the memory of the session becomes a dummy result that the   *)
(* application's answers to unsubscribe count down.                        *)
(* Mutant: the loop ends one place early.                                  *)
Used_Short(s) == {id \in 1..Len(publish_items[s]) - 1 :
                    publish_items[s][id] # Null}

Used(s) == {id \in DOMAIN publish_items[s] : publish_items[s][id] # Null}

(* Mutant: the results keep their session.                                 *)
Orphaned_Not(s) == result

Orphaned(s) ==
    [r \in Result |-> IF result[r] # Null /\ result[r].session = s
                      THEN [result[r] EXCEPT !.session = Null] ELSE result[r]]

SessionDelete(s) ==
    /\ Idle
    /\ session[s] \in {"new", "open"}
    /\ Used(s) = {}
    /\ result' = Orphaned(s)
    /\ session' = [session EXCEPT ![s] = "none"]
    /\ results' = [results EXCEPT ![s] = <<>>]
    /\ UNCHANGED <<subs, tables, held, pending, calls, early, undefined>>

(* The next publish item in the order of the ids is released, and the      *)
(* application is called with the dummy result.                            *)
DeleteItem(s, dummy) ==
    LET id == Min(Used(s))
        i == publish_items[s][id]
        last == Used(s) = {id}
    IN  /\ publish_handle' = Unlisted(i)
        /\ item' = [item EXCEPT ![i] = Null]
        /\ publish_items' = [publish_items EXCEPT ![s][id] = Null]
        /\ pending' = pending \cup
             {Owe(dummy, Cardinality(Used(s)), "unsubscribe", item[i].key)}
        /\ deleting' = IF last THEN Null ELSE [session |-> s, result |-> dummy]
        /\ session' = [session EXCEPT ![s] = IF last THEN "none" ELSE "deleting"]
        /\ UNCHANGED <<reference_count, next_free_publish_item, held, handling,
                       republish, early, undefined>>

SessionDeleteBegin(s, dummy) ==
    /\ Idle
    /\ session[s] = "open"
    /\ Used(s) # {}
    /\ result[dummy] = Null
    /\ result' = [Orphaned(s) EXCEPT
                    ![dummy] = NewResult(Null, Cardinality(Used(s)))]
    /\ results' = [results EXCEPT ![s] = <<>>]
    /\ DeleteItem(s, dummy)

SessionDeleteItem ==
    /\ Application
    /\ deleting # Null
    /\ DeleteItem(deleting.session, deleting.result)
    /\ UNCHANGED <<results, result>>

-----------------------------------------------------------------------------
Dispatch ==
    \/ DispatchCall
    \/ \E k \in Key : DispatchSubscribe(k)
    \/ DispatchSubscribeFails
    \/ DispatchUnknown

Return(p) ==
    \/ ReturnCall(p)
    \/ ReturnUnsubscribe(p)
    \/ ReturnSubscribeReject(p)
    \/ \E i \in Item : ReturnSubscribeAccept(p, i)
    \/ \E i \in Item, k \in Key \ {p.key} : ReturnSubscribeAlias(p, k, i)
    \/ \E k \in Key \cup {Null}, what \in Fails : ReturnSubscribeFails(p, k, what)
    \/ SubscribeAnswerCrashes(p)

Delete(s) ==
    \/ SessionDelete(s)
    \/ \E dummy \in Result : SessionDeleteBegin(s, dummy)

(* A message has at least fewest items.                                    *)
Receive(s, fewest) ==
    \/ SessionCreate(s)
    \/ HandleHello(s)
    \/ \E r \in Result, kind \in Kind, count \in fewest..MaxItems : HandleMessage(s, r, kind, count)

Ids == 1..Cardinality(Item) + Additional

(* Anything a client and an application can do.                            *)
Next ==
    \/ \E s \in Session : Receive(s, 0) \/ Delete(s)
    \/ Dispatch
    \/ \E id \in Ids : DispatchUnsubscribe(id)
    \/ \E p \in pending : Return(p)
    \/ \E k \in Key : Publish(k)
    \/ Republish
    \/ RepublishNothing
    \/ SessionDeleteItem

Spec == Init /\ [][Next]_vars

(* What the library relies on without checking it: the client unsubscribes *)
(* ids it was told and at least one, a subscribe is answered before its    *)
(* session goes, as an application does that answers in the callback, and  *)
(* no notification is published from the callbacks of a session that is    *)
(* being deleted.                                                          *)
Subscribing(s) == \E p \in pending : p.kind = "subscribe" /\ result[p.result].session = s

PromptNext ==
    \/ \E s \in Session : Receive(s, 1)
    \/ \E s \in Session : ~ Subscribing(s) /\ Delete(s)
    \/ Dispatch
    \/ \E id \in Ids : /\ DispatchUnsubscribe(id)
                       /\ Announced(publish_items[handling.session][id])
    \/ \E p \in pending : Return(p)
    \/ \E k \in Key : deleting = Null /\ Publish(k)
    \/ Republish
    \/ RepublishNothing
    \/ SessionDeleteItem

PromptSpec == Init /\ [][PromptNext]_vars

(* The application answers every item it was called with, and the loops    *)
(* over the items of a message and of a session end.                       *)
FairPromptSpec ==
    /\ PromptSpec
    /\ WF_vars(Dispatch)
    /\ WF_vars(SessionDeleteItem)
    /\ WF_vars(Republish \/ RepublishNothing)
    /\ \A r \in Result : SF_vars(\E p \in pending : p.result = r /\ Return(p))

-----------------------------------------------------------------------------
CellsOK ==
    /\ reference_count \in [Key -> Nat]
    /\ item \in [Item -> PublishItem \cup {Null}]
    /\ publish_items \in [Session -> Seq(Item \cup {Null})]
    /\ next_free_publish_item \in [Session -> Nat \ {0}]
    /\ result \in [Result -> ResultCell \cup {Null}]
    /\ pending \subseteq Owed
    /\ IsFiniteSet(pending)
    /\ handling \in Handling \cup {Null}
    /\ deleting \in Deleting \cup {Null}

ListsOK ==
    /\ publish_handle \in [Key -> Seq(Item)]
    /\ results \in [Session -> Seq(Result)]
    /\ held \in [Result -> SUBSET Item]

(* Every variable stays in its type.                                       *)
TypeOK ==
    /\ CellsOK
    /\ ListsOK
    /\ session \in [Session -> {"none", "new", "open", "deleting"}]
    /\ republish \in Item \cup {Null}
    /\ early \in BOOLEAN
    /\ undefined \in BOOLEAN

Holders(k) ==
    Cardinality({i \in Item : item[i] # Null /\ item[i].key = k})
    + Cardinality({p \in pending : p.key = k})

(* A subscription is not freed while a publish item or an unanswered item  *)
(* of a message points to it.                                              *)
NotFreedEarly == \A k \in Key : Holders(k) <= reference_count[k]

(* It is freed as soon as nothing points to it.                            *)
NotLeaked == \A k \in Key : reference_count[k] <= Holders(k)

(* What a table has under an id is a publish item of the session, and has  *)
(* that id.                                                                *)
Placed ==
    \A s \in Session : \A id \in Used(s) :
        LET i == publish_items[s][id]
        IN  item[i] # Null /\ item[i].session = s /\ item[i].id = id

(* A publish item is in the list of its subscription and in the table of   *)
(* its session, under its own id, once, and in no other; nothing else is   *)
(* in the lists and tables of the sessions that exist.                     *)
ItemsListed ==
    /\ \A i \in Item : item[i] # Null =>
         /\ session[item[i].session] \in {"open", "deleting"}
         /\ item[i].id \in DOMAIN publish_items[item[i].session]
         /\ publish_items[item[i].session][item[i].id] = i
    /\ \A k \in Key :
         /\ IsInjective(publish_handle[k])
         /\ ToSet(publish_handle[k]) = {i \in Item : item[i] # Null /\ item[i].key = k}
    /\ Placed

(* No id below next_free_publish_item is free: a new publish item gets the *)
(* least free id.                                                          *)
LeastIds ==
    \A s \in Session : session[s] = "open" =>
        \A id \in 1..next_free_publish_item[s] - 1 :
            id \in DOMAIN publish_items[s] /\ publish_items[s][id] # Null

(* The table of a session, the lists of the subscriptions and the ids      *)
(* agree, through growth, release and deletion of a session.               *)
TablesAgree == ItemsListed /\ LeastIds

(* What the loops still have to ask the application with result r.         *)
ToAsk(r) ==
    (IF handling # Null /\ handling.result = r THEN handling.todo ELSE 0)
    + (IF deleting # Null /\ deleting.result = r
       THEN Cardinality(Used(deleting.session)) ELSE 0)

(* A result waits for exactly the answers that are still to come.          *)
AnswersCounted ==
    \A r \in Result : result[r] # Null =>
        result[r].remaining = Cardinality({p \in pending : p.result = r}) + ToAsk(r)

(* The application is never asked to answer with a result that is gone.    *)
Asked == \A p \in pending : result[p.result] # Null

(* A session's results are those that point to it.                         *)
ResultsListed ==
    /\ Asked
    /\ \A s \in Session :
         /\ IsInjective(results[s])
         /\ ToSet(results[s]) =
              {r \in Result : result[r] # Null /\ result[r].session = s}

(* Every answer finds its result, and is the last one when it should be,   *)
(* also when its session is being deleted or gone.                         *)
ResultsAgree == ResultsListed /\ AnswersCounted

(* blocked_items never overflows.                                          *)
RoomLeft ==
    \A r \in Result : result[r] # Null /\ result[r].room # 0 =>
        Len(result[r].blocked) + result[r].remaining <= result[r].room

(* A notification is not queued before the result that tells the client    *)
(* the subscription id in it.                                              *)
NotesAfterResult == ~early

(* No NULL pointer and no overwritten session is used.                     *)
NoNullUse == ~undefined

(* Every result is answered and freed.                                     *)
ResultsEnd == \A r \in Result : result[r] # Null ~> result[r] = Null
=============================================================================
