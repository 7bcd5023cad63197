--------------------------- MODULE Notifications ---------------------------
(***************************************************************************)
(* One publication is one block of memory that several sessions share      *)
(* (wpcp_session.c).  The block has one cell for every publish item of the *)
(* handle it was published with, and the written value.  Every cell is     *)
(* linked into the notification queue of its item's session or, while the  *)
(* client does not know the item's id, into the queue of the result that   *)
(* will tell it.  references_actual counts the cells that are still linked *)
(* somewhere; with the last one the whole block is freed, cells included.  *)
(*                                                                         *)
(* The queues are modelled with their pointers, over blocks that malloc    *)
(* hands out again after free.  When a message is written, and in which    *)
(* order with results, is the business of OutQueue; which answers come     *)
(* when, of Sessions.                                                      *)
(***************************************************************************)
EXTENDS Naturals, FiniteSetsExt, SequencesExt, Selections

CONSTANTS
    Session,
    Item,       \* publish items of one subscription
    Owners,     \* how they may be divided among the sessions
    Result,     \* heap cells for struct wpcp_result_t
    Block,      \* heap cells for a publication
    Null,
    MaxSlots,   \* UINT32_MAX: the publish slots a session starts with
    MaxAnswers  \* bound: items in one message

(* The cells of a block: wpcp_publish_queue_item_get.                      *)
Cell == Block \X (1..Cardinality(Item))

(* What a result cell holds: struct wpcp_result_t.                         *)
ResultCell ==
    [session : Session \cup {Null}, remaining : 1..MaxAnswers, blocked : SUBSET Item,
     queue : [first : Cell \cup {Null}, last : Cell \cup {Null}]]

ASSUME NotificationsAssumption ==
    /\ Null \notin Session \cup Item \cup Result \cup Block \cup Cell \cup ResultCell \cup Nat
    /\ Session \cap Result = {} /\ Owners \subseteq [Item -> Session]
    /\ IsFiniteSet(Item) /\ IsFiniteSet(Block)
    /\ MaxSlots \in Nat \ {0} /\ MaxAnswers \in Nat \ {0}

VARIABLES
    owner,               \* publish_item->session of every publish item
    publish_handle,      \* the items of the subscription, newest first
    session,             \* "none" or "open"
    free_publish_slots,
    publish_queue,       \* of every session: first and last cell
    result,              \* every result, Null when free
    data,                \* references_actual of every block, Null when free
    next,                \* item->next of every cell
    subscriptionid,      \* the publish item a cell is for
    sent,                \* the message that was just made (history)
    undefined            \* freed memory was used

memory == <<data, next, subscriptionid>>
clients == <<owner, publish_handle, session, free_publish_slots>>
vars == <<clients, publish_queue, result, memory, sent, undefined>>

NoQueue == [first |-> Null, last |-> Null]

Init ==
    /\ owner \in Owners
    /\ publish_handle = <<>>
    /\ session = [s \in Session |-> "none"]
    /\ free_publish_slots = [s \in Session |-> MaxSlots]
    /\ publish_queue = [s \in Session |-> NoQueue]
    /\ result = [r \in Result |-> Null]
    /\ data = [b \in Block |-> Null]
    /\ next = [c \in Cell |-> Null]
    /\ subscriptionid = [c \in Cell |-> Null]
    /\ sent = <<>>
    /\ undefined = FALSE

-----------------------------------------------------------------------------
(* Queues of cells.                                                        *)

(* Mutant: the queue starts anew with the pieces.                          *)
Appended_Anew(q, first, last) == [first |-> first, last |-> last]

(* wpcp_publish_queue_append: the queue q with the chain first..last.      *)
Appended(q, first, last) ==
    [first |-> IF q.last = Null THEN first ELSE q.first, last |-> last]

(* The links after it.                                                     *)
Linked(links, q, first, last) ==
    [[c \in Cell |-> IF c = q.last THEN first ELSE links[c]]
        EXCEPT ![last] = Null]

(* The last cell's link is written although its block is gone.             *)
Dangling(blocks, q) == q.last # Null /\ blocks[q.last[1]] = Null

(* The k-th link after cell c, Null behind the end.                        *)
After(links, c, k) ==
    LET link == [d \in Cell \cup {Null} |-> IF d = Null THEN Null ELSE links[d]]
        at[j \in 0..k] == IF j = 0 THEN c ELSE link[at[j - 1]]
    IN  at[k]

(* The first n of the cells that links join to one another from cell c on. *)
Following(links, c, n) ==
    LET length == Cardinality({k \in 0..n - 1 : After(links, c, k) # Null})
    IN  [k \in 1..length |-> After(links, c, k - 1)]

(* All of them: no chain is longer than there are cells.                   *)
Chain(links, c) == Following(links, c, Cardinality(Cell))

(* Mutant: the count goes down, but the block is never freed.              *)
Dereferenced_Kept(blocks, b) ==
    [blocks EXCEPT ![b] = @ - 1]

(* wpcp_publish_queue_item_deref.                                          *)
Dereferenced(blocks, b) ==
    [blocks EXCEPT ![b] = IF @ \in {1, Null} THEN Null ELSE @ - 1]

(* The blocks after cells were given up one after the other, as [k] when k *)
(* of them were.                                                           *)
GivenUp(cells) ==
    LET after[k \in 0..Len(cells)] ==
          IF k = 0 THEN data ELSE Dereferenced(after[k - 1], cells[k][1])
    IN  after

(* Mutant: the link is read when the block may be gone.                    *)
Touches_DerefFirst(blocks, b) == blocks[b] \in {1, Null}

(* Giving up a cell of block b touches freed memory: its link is read, and *)
(* then the reference is given up.                                         *)
Touches(blocks, b) == blocks[b] = Null

(* The walks over cells that give up their references.  Nothing is left of *)
(* the blocks that are freed, nor of the cells that were given up.         *)
GiveUp(cells) ==
    LET after == GivenUp(cells)
        gone(c) == data'[c[1]] = Null \/ c \in ToSet(cells)
    IN  /\ data' = after[Len(cells)]
        /\ next' = [c \in Cell |-> IF gone(c) THEN Null ELSE next[c]]
        /\ subscriptionid' = [c \in Cell |-> IF gone(c) THEN Null ELSE subscriptionid[c]]
        /\ undefined' = \E k \in 1..Len(cells) : Touches(after[k - 1], cells[k][1])

-----------------------------------------------------------------------------
(* Publish items and results.                                              *)

(* wpcp_blocked_item_for_notify_item: the result of i's session that lists *)
(* i.  A client only unsubscribes ids it was told, so there is at most one.*)
BlockedBy(i) ==
    LET lists == {r \in Result : /\ result[r] # Null
                                 /\ result[r].session = owner[i]
                                 /\ i \in result[r].blocked}
    IN  IF lists = {} THEN Null ELSE CHOOSE r \in lists : TRUE

(* wpcp_request_result for a message with count items.                     *)
HandleMessage(s, r, count) ==
    /\ ~undefined
    /\ session[s] = "open" /\ result[r] = Null
    /\ result' = [result EXCEPT ![r] =
         [session |-> s, remaining |-> count, blocked |-> {}, queue |-> NoQueue]]
    /\ sent' = <<>>
    /\ UNCHANGED <<clients, publish_queue, memory, undefined>>

(* wpcp_release_result for result r, which lists the items in blocked.     *)
(* After the last answer the notifications it held back are spliced to     *)
(* the session's, or given up if the session is gone.                      *)
Answer(r, blocked) ==
    LET res == result[r]
        held == res.queue
        queue == publish_queue[res.session]
    IN  \/ /\ res.remaining > 1
           /\ result' = [result EXCEPT ![r].remaining = @ - 1, ![r].blocked = blocked]
           /\ UNCHANGED <<publish_queue, memory, undefined>>
        \/ /\ res.remaining = 1 /\ (res.session = Null \/ held.first = Null)
           /\ result' = [result EXCEPT ![r] = Null]
           /\ \E cells \in {Chain(next, held.first)} : GiveUp(cells)
           /\ UNCHANGED publish_queue
        \/ /\ res.remaining = 1 /\ res.session # Null /\ held.first # Null
           /\ result' = [result EXCEPT ![r] = Null]
           /\ publish_queue' = [publish_queue EXCEPT ![res.session] =
                                  Appended(queue, held.first, held.last)]
           /\ next' = Linked(next, queue, held.first, held.last)
           /\ undefined' = Dangling(data, queue)
           /\ UNCHANGED <<data, subscriptionid>>

(* A subscribe is accepted: i gets into the handle and into blocked_items. *)
Accept(i, r) ==
    /\ ~undefined
    /\ result[r] # Null /\ result[r].session = owner[i]
    /\ i \notin ToSet(publish_handle)
    /\ publish_handle' = <<i>> \o publish_handle
    /\ Answer(r, result[r].blocked \cup {i})
    /\ sent' = <<>>
    /\ UNCHANGED <<owner, session, free_publish_slots>>

(* Any other answer.                                                       *)
Return(r) ==
    /\ ~undefined
    /\ result[r] # Null
    /\ Answer(r, result[r].blocked)
    /\ sent' = <<>>
    /\ UNCHANGED clients

(* wpcp_publish_item_release for an item whose id the client was told.     *)
Unsubscribe(i) ==
    /\ ~undefined
    /\ i \in ToSet(publish_handle) /\ BlockedBy(i) = Null
    /\ publish_handle' = Those(publish_handle, Item \ {i})
    /\ sent' = <<>>
    /\ UNCHANGED <<owner, session, free_publish_slots, publish_queue, result,
                   memory, undefined>>

-----------------------------------------------------------------------------
(* Publishing.                                                             *)

(* Mutant: the publisher keeps a reference of its own.                     *)
References_OneMore(list) == Len(list) + 1

(* wpcp_publish_queue_item_data_create(publish_handle->length).            *)
References(list) == Len(list)

(* Who holds notifications: a session, or a result until it is announced.  *)
Holder == Session \cup Result

Queue(x) ==
    IF x \in Session THEN publish_queue[x]
    ELSE IF result[x] = Null THEN NoQueue ELSE result[x].queue

(* Who gets the next notification for item i.                              *)
HolderOf(i) == IF BlockedBy(i) = Null THEN owner[i] ELSE BlockedBy(i)

(* wpcp_session_add_publish_queue_item for the k-th item of the list, on   *)
(* what h knows of the queues: its cell is appended to the session's queue *)
(* or to that of the result that lists the item.                           *)
Notified(h, list, k, b) ==
    LET x == HolderOf(list[k])
        c == <<b, k>>
    IN  [queue |-> [h.queue EXCEPT ![x] = Appended(@, c, c)],
         next |-> Linked(h.next, h.queue[x], c, c),
         touched |-> h.touched \/ Dangling(data', h.queue[x])]

(* The same for every item, as [k] after k of them.                        *)
AllNotified(list, b) ==
    LET after[k \in 0..Len(list)] ==
          IF k = 0 THEN [queue |-> [x \in Holder |-> Queue(x)], next |-> next,
                         touched |-> FALSE]
          ELSE Notified(after[k - 1], list, k, b)
    IN  after

Enqueue(list, b) ==
    \E h \in {AllNotified(list, b)[Len(list)]} :
        /\ publish_queue' = [s \in Session |-> h.queue[s]]
        /\ result' = [r \in Result |->
             IF result[r] = Null THEN Null ELSE [result[r] EXCEPT !.queue = h.queue[r]]]
        /\ next' = h.next
        /\ undefined' = h.touched

(* wpcp_publish_data or wpcp_publish_alarm with a handle for the items in  *)
(* list: the handle of the subscription, or the one of a republish.  What  *)
(* is published is called by its block, as no two blocks in use are one.   *)
Publish(list, b) ==
    /\ ~undefined
    /\ list # <<>>
    /\ data[b] = Null
    /\ data' = [data EXCEPT ![b] = References(list)]
    /\ subscriptionid' = [c \in Cell |->
         IF c[1] = b /\ c[2] <= Len(list) THEN list[c[2]] ELSE subscriptionid[c]]
    /\ Enqueue(list, b)
    /\ sent' = <<>>
    /\ UNCHANGED clients

-----------------------------------------------------------------------------
(* The service thread.                                                     *)

(* Notifications in the next publish message.                              *)
ItemCount(s) == Min({free_publish_slots[s], Len(Chain(next, publish_queue[s].first))})

(* The queue after a publish message, which ends before cell c.            *)
Remaining(s, c) ==
    [publish_queue EXCEPT ![s] =
        [first |-> c, last |-> IF c = Null THEN Null ELSE @.last]]

(* wpcp_session_has_sendable_publish_item.                                 *)
Sendable(s) ==
    /\ session[s] = "open"
    /\ publish_queue[s].first # Null /\ free_publish_slots[s] # 0

(* What cells say to the client.                                           *)
Notes(ids, cells) == [k \in DOMAIN cells |-> [item |-> ids[cells[k]], value |-> cells[k][1]]]

(* wpcp_session_out_message_create for a publish message.  Its cells are    *)
(* bound once, so that TLC computes them once.                             *)
SendPublish(s) ==
    /\ ~undefined
    /\ Sendable(s)
    /\ UNCHANGED <<owner, publish_handle, session, result>>
    /\ \E cells \in {Following(next, publish_queue[s].first, ItemCount(s))} :
         /\ free_publish_slots' = [free_publish_slots EXCEPT ![s] = @ - Len(cells)]
         /\ publish_queue' = Remaining(s, next[Last(cells)])
         /\ sent' = Notes(subscriptionid, cells)
         /\ GiveUp(cells)

AddFreePublishSlots(s) ==
    /\ ~undefined
    /\ session[s] = "open" /\ free_publish_slots[s] < MaxSlots
    /\ free_publish_slots' = [free_publish_slots EXCEPT ![s] = @ + 1]
    /\ sent' = <<>>
    /\ UNCHANGED <<owner, publish_handle, session, publish_queue, result,
                   memory, undefined>>

(* wpcp_session_create.                                                    *)
SessionCreate(s) ==
    /\ ~undefined
    /\ session[s] = "none"
    /\ session' = [session EXCEPT ![s] = "open"]
    /\ free_publish_slots' = [free_publish_slots EXCEPT ![s] = MaxSlots]
    /\ publish_queue' = [publish_queue EXCEPT ![s] = NoQueue]
    /\ sent' = <<>>
    /\ UNCHANGED <<owner, publish_handle, result, memory, undefined>>

(* wpcp_session_delete: the queue is given up, the results lose their      *)
(* session and keep what they hold back, the publish items are released.   *)
(* Nothing is left of the memory of the session.                           *)
SessionDelete(s) ==
    /\ ~undefined
    /\ session[s] = "open"
    /\ session' = [session EXCEPT ![s] = "none"]
    /\ free_publish_slots' = [free_publish_slots EXCEPT ![s] = MaxSlots]
    /\ GiveUp(Chain(next, publish_queue[s].first))
    /\ publish_queue' = [publish_queue EXCEPT ![s] = NoQueue]
    /\ result' = [r \in Result |->
         IF result[r] # Null /\ result[r].session = s
         THEN [result[r] EXCEPT !.session = Null] ELSE result[r]]
    /\ publish_handle' = Those(publish_handle, {i \in Item : owner[i] # s})
    /\ sent' = <<>>
    /\ UNCHANGED owner

-----------------------------------------------------------------------------
(* The handles there are to publish with.                                  *)
Handles == {publish_handle} \cup {<<i>> : i \in ToSet(publish_handle)}

Next ==
    \/ \E s \in Session :
         \/ SessionCreate(s)
         \/ SessionDelete(s)
         \/ SendPublish(s)
         \/ AddFreePublishSlots(s)
         \/ \E r \in Result, count \in 1..MaxAnswers : HandleMessage(s, r, count)
    \/ \E r \in Result : Return(r) \/ \E i \in Item : Accept(i, r)
    \/ \E i \in Item : Unsubscribe(i)
    \/ \E list \in Handles : \E b \in Block : Publish(list, b)

Spec == Init /\ [][Next]_vars

(* The service thread writes what can be written, and the application      *)
(* answers what it was asked.                                              *)
FairSpec ==
    /\ Spec
    /\ \A s \in Session : WF_vars(SendPublish(s))
    /\ \A r \in Result : WF_vars(Return(r) \/ \E i \in Item : Accept(i, r))

-----------------------------------------------------------------------------
(* Every variable stays in its type.                                       *)
TypeOK ==
    /\ owner \in [Item -> Session]
    /\ publish_handle \in Seq(Item)
    /\ session \in [Session -> {"none", "open"}]
    /\ free_publish_slots \in [Session -> 0..MaxSlots]
    /\ publish_queue \in [Session -> [first : Cell \cup {Null}, last : Cell \cup {Null}]]
    /\ result \in [Result -> ResultCell \cup {Null}]
    /\ data \in [Block -> 1..Cardinality(Item) \cup {Null}]
    /\ next \in [Cell -> Cell \cup {Null}]
    /\ subscriptionid \in [Cell -> Item \cup {Null}]
    /\ undefined \in BOOLEAN

(* The cells in the queue of x, and those in any queue.                    *)
Waiting(x) == Chain(next, Queue(x).first)

LinkedCells == UNION {ToSet(Waiting(x)) : x \in Holder}

(* The links join the cells of queue q, each one once, to the sequence s.  *)
IsQueue(q, links, s) ==
    /\ s \in Seq(Cell)
    /\ q.first = IF s = <<>> THEN Null ELSE s[1]
    /\ q.last = IF s = <<>> THEN Null ELSE s[Len(s)]
    /\ \A k \in 1..Len(s) : links[s[k]] = IF k = Len(s) THEN Null ELSE s[k + 1]
    /\ IsInjective(s)

(* Every queue is a chain that ends at its last cell, no cell is in two    *)
(* queues or twice in one, and all of them are in allocated blocks.        *)
QueuesApart ==
    /\ \A x \in Holder : IsQueue(Queue(x), next, Waiting(x))
    /\ \A x \in Holder, y \in Holder :
         x # y => ToSet(Waiting(x)) \cap ToSet(Waiting(y)) = {}
    /\ \A c \in LinkedCells : data[c[1]] # Null

(* No walk and no append touches memory that was freed.                    *)
NoUseAfterFree == ~undefined

(* The links are sound: nothing that was freed is walked or written, no    *)
(* queue runs into another one, and the counters stay in their bounds.     *)
LinksSound == TypeOK /\ NoUseAfterFree /\ QueuesApart

(* A block is allocated exactly as long as a cell of it is in a queue, and *)
(* it counts those cells: nothing shared is freed early and nothing leaks. *)
ReferencesCounted ==
    \A b \in Block :
        LET linked == {c \in LinkedCells : c[1] = b}
        IN  data[b] = IF linked = {} THEN Null ELSE Cardinality(linked)

(* Publish items belong to open sessions, and only they are listed in a    *)
(* result, by the result of their own session and by one at a time.        *)
Listed(r) == IF result[r] = Null \/ result[r].session = Null THEN {} ELSE result[r].blocked

ListsAgree ==
    /\ IsInjective(publish_handle)
    /\ \A i \in ToSet(publish_handle) : session[owner[i]] = "open"
    /\ \A r \in Result : result[r] # Null /\ result[r].session # Null =>
         session[result[r].session] = "open"
    /\ \A r \in Result : \A i \in Listed(r) :
         i \in ToSet(publish_handle) /\ owner[i] = result[r].session
    /\ \A r \in Result, q \in Result : r # q => Listed(r) \cap Listed(q) = {}

(* A notification waits with its session or with the result that lists its *)
(* item; sessions that are gone have none.                                 *)
Addressed ==
    /\ \A s \in Session : \A c \in ToSet(Waiting(s)) :
         subscriptionid[c] \in Item /\ owner[subscriptionid[c]] = s
    /\ \A r \in Result : result[r] # Null /\ result[r].session # Null =>
         \A c \in ToSet(Waiting(r)) : subscriptionid[c] \in Listed(r)
    /\ \A s \in Session : session[s] = "none" => publish_queue[s] = NoQueue

(* The inductive invariant.                                                *)
IInv == LinksSound /\ ReferencesCounted /\ ListsAgree /\ Addressed

(* What the queues hold for item i: the session's queue is written first,  *)
(* then what the result that announces i holds back.                       *)
Owed(i) ==
    LET cells == Waiting(owner[i]) \o
                   (IF BlockedBy(i) = Null THEN <<>> ELSE Waiting(BlockedBy(i)))
    IN  CHOOSE o \in {Share(m, i) : m \in {Notes(subscriptionid, d) : d \in {cells}}} : TRUE

(* The queues deliver to every publish item what was published to it, in   *)
(* that order and once, whichever queue it waited in.                      *)
Channel == INSTANCE NotificationChannel WITH
    owed <- [i \in Item |-> Owed(i)], sent <- sent, Value <- Block

ImplementsChannel == Channel!Spec

(* Every block is freed in the end, unless a session has no slots left.    *)
BlocksEnd ==
    \A b \in Block : data[b] # Null ~>
        data[b] = Null \/ \E s \in Session : free_publish_slots[s] = 0
=============================================================================
