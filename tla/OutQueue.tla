------------------------------ MODULE OutQueue ------------------------------
(***************************************************************************)
(* The outgoing messages of one session (wpcp_session.c) and the websocket *)
(* callback that writes them (wpcp_lws.c).                                 *)
(*                                                                         *)
(* Results are kept in a singly linked list that starts at                 *)
(* session->queued_out_messages and ends at the sentinel                   *)
(* session->publish_item, which stands for "one publish message made of    *)
(* the notifications in session->publish_queue".  New results are written  *)
(* through session->queued_out_message_insert_location, a pointer to the   *)
(* link that the next result replaces.  The list is modelled with its      *)
(* pointers, over heap cells that malloc hands out again after free.       *)
(*                                                                         *)
(* Every call into the library is made under the mutex of wpcp_lws, so it  *)
(* is one step; the writer leaves the mutex between building a message and *)
(* looking for the next one, and the application may step in there.        *)
(***************************************************************************)
EXTENDS Naturals, Sequences

CONSTANTS
    Node,          \* heap cells for struct wpcp_queued_out_message_t
    PublishItem,   \* &session->publish_item, the sentinel
    ListHead,      \* &session->queued_out_messages, as an insert location
    MaxSlots,      \* UINT32_MAX: the publish slots a session starts with
    MaxResults,    \* bound: results accepted by one session
    MaxNotes,      \* bound: notifications queued at a time
    MaxBlocked     \* bound: notifications held back by one result

ASSUME SentinelAssumption ==
    /\ PublishItem \notin Node
    /\ ListHead \notin Node
    /\ ListHead # PublishItem

ASSUME BoundsAssumption ==
    /\ MaxSlots \in Nat \ {0}
    /\ MaxResults \in Nat
    /\ MaxNotes \in Nat
    /\ MaxBlocked \in Nat

VARIABLES
    queued_out_messages,                 \* first message of the list
    next,                                \* ret->next of every cell
    queued_out_message_insert_location,  \* whose link the next result takes
    publish_queue,       \* notifications: results accepted before each
    free_publish_slots,
    kill,
    heap,       \* state of every cell
    ticket,     \* which result a cell holds, numbered as accepted
    issued,     \* results accepted so far (history)
    writable,   \* has_out_message.cb was called: a WRITEABLE event will come
    writer,     \* where the service thread is in the websocket's callbacks
    undefined   \* freed memory was accessed: the run means nothing any more

list == <<queued_out_messages, next, queued_out_message_insert_location>>
cells == <<heap, ticket, issued>>
vars == <<list, publish_queue, free_publish_slots, kill, cells,
          writable, writer, undefined>>

(* A cell is free, queued, held by the writer ("out"), or lost: allocated  *)
(* with no way left to reach it.                                           *)
CellState == {"free", "queued", "out", "lost"}

(* idle: in lws_service, no callback of this session is running            *)
(* sending: a message was created, the mutex is not held                   *)
(* sent: the message was written and freed, the mutex is not held          *)
(* closing: the callback returned -1                                       *)
(* deleting: in wpcp_session_delete, under the mutex                       *)
(* closed: the session is gone                                             *)
WriterState == {"idle", "sending", "sent", "closing", "deleting", "closed"}

Queued == {n \in Node : heap[n] = "queued"}

(* The session exists and the mutex can be taken by the application.       *)
Open == writer \notin {"deleting", "closed"}

Init ==
    /\ queued_out_messages = PublishItem
    /\ next = [n \in Node \cup {PublishItem} |-> PublishItem]
    /\ queued_out_message_insert_location = ListHead
    /\ publish_queue = <<>>
    /\ free_publish_slots = MaxSlots
    /\ kill = FALSE
    /\ heap = [n \in Node |-> "free"]
    /\ ticket = [n \in Node |-> 0]
    /\ issued = 0
    /\ writable = FALSE
    /\ writer = "idle"
    /\ undefined = FALSE

HasSendablePublishItem == publish_queue # <<>> /\ free_publish_slots # 0

HasOutMessage ==
    queued_out_messages # PublishItem \/ HasSendablePublishItem \/ kill

-----------------------------------------------------------------------------
(* Calls of the application, and of the handlers of incoming messages.     *)

(* *queued_out_message_insert_location = ret, and the location moves to    *)
(* &ret->next.                                                             *)
Link(n) ==
    LET loc == queued_out_message_insert_location
        terminated == [next EXCEPT ![n] = PublishItem]
    IN  /\ queued_out_messages' = IF loc = ListHead THEN n ELSE queued_out_messages
        /\ next' = IF loc = ListHead THEN terminated
                                 ELSE [terminated EXCEPT ![loc] = n]
        /\ queued_out_message_insert_location' = n

(* wpcp_session_publish_queue_append moves an insert location at the head  *)
(* of the list behind the sentinel.                                        *)
BehindPublishItem(loc) ==
    IF loc = ListHead /\ free_publish_slots # 0 THEN PublishItem ELSE loc

(* A result is complete: wpcp_release_result appends its message, then the *)
(* k notifications that were blocked until the result was out.             *)
ReleaseResult(n, k) ==
    /\ Open /\ ~undefined
    /\ issued < MaxResults
    /\ Len(publish_queue) + k <= MaxNotes
    /\ heap[n] = "free"
    /\ LET loc == queued_out_message_insert_location
       IN  undefined' = (loc \in Node /\ loc # n /\ heap[loc] = "free")
    /\ Link(n)
    /\ heap' = [heap EXCEPT ![n] = "queued"]
    /\ issued' = issued + 1
    /\ ticket' = [ticket EXCEPT ![n] = issued + 1]
    /\ publish_queue' = publish_queue \o [i \in 1..k |-> issued + 1]
    /\ writable' = TRUE
    /\ UNCHANGED <<free_publish_slots, kill, writer>>

(* The same with no memory for the message: the session is marked to be    *)
(* killed and the writer is woken up, the notifications are still queued.  *)
ReleaseResultFails(k) ==
    /\ Open /\ ~undefined
    /\ Len(publish_queue) + k <= MaxNotes
    /\ kill' = TRUE
    /\ publish_queue' = publish_queue \o [i \in 1..k |-> issued]
    /\ queued_out_message_insert_location' =
         IF k = 0 THEN queued_out_message_insert_location
                  ELSE BehindPublishItem(queued_out_message_insert_location)
    /\ writable' = TRUE
    /\ UNCHANGED <<queued_out_messages, next, free_publish_slots, cells,
                   writer, undefined>>

(* A notification for an item that no pending result blocks.               *)
Publish ==
    /\ Open /\ ~undefined
    /\ Len(publish_queue) < MaxNotes
    /\ publish_queue' = Append(publish_queue, issued)
    /\ queued_out_message_insert_location' =
         BehindPublishItem(queued_out_message_insert_location)
    /\ writable' = (writable \/ free_publish_slots # 0)
    /\ UNCHANGED <<queued_out_messages, next, free_publish_slots, kill, cells,
                   writer, undefined>>

(* wpcp_publish_general without memory: nobody is woken up.                *)
PublishFails ==
    /\ Open /\ ~undefined
    /\ kill' = TRUE
    /\ UNCHANGED <<list, publish_queue, free_publish_slots, cells, writable,
                   writer, undefined>>

(* Mutant: the old value is compared with 0 after it was changed.          *)
MakesSendable_Late(count) ==
    free_publish_slots + count = 0 /\ publish_queue # <<>>

(* The slots were used up, and notifications wait for them.                *)
MakesSendable(count) ==
    free_publish_slots + count = count /\ publish_queue # <<>>

(* The peer gives back at most the slots that are in use, so the 32 bit    *)
(* counter does not wrap around.                                           *)
AddFreePublishSlots(count) ==
    /\ Open /\ ~undefined
    /\ free_publish_slots + count <= MaxSlots
    /\ free_publish_slots' = free_publish_slots + count
    /\ writable' = (writable \/ MakesSendable(count))
    /\ UNCHANGED <<list, publish_queue, kill, cells, writer, undefined>>

-----------------------------------------------------------------------------
(* The WRITEABLE callback: with the mutex held, test for a message and     *)
(* create it.                                                              *)
Writeable ==
    /\ writer = "idle" /\ writable /\ ~undefined
    /\ writable' = FALSE

NothingToWrite ==
    /\ Writeable
    /\ ~HasOutMessage
    /\ UNCHANGED <<list, publish_queue, free_publish_slots, kill, cells,
                   writer, undefined>>

(* wpcp_session_out_message_create unlinks the first message whatever it   *)
(* then decides.                                                           *)
CreateBegin(first) ==
    /\ Writeable
    /\ HasOutMessage
    /\ first = queued_out_messages
    /\ queued_out_messages' = next[first]

(* session->kill: NULL is returned, the unlinked message is not freed.     *)
CreateKilled ==
    \E first \in Node \cup {PublishItem} :
        /\ CreateBegin(first)
        /\ kill
        /\ first \in Node => heap[first] # "free"
        /\ heap' = IF first \in Node THEN [heap EXCEPT ![first] = "lost"] ELSE heap
        /\ writer' = "closing"
        /\ UNCHANGED <<next, queued_out_message_insert_location, publish_queue,
                       free_publish_slots, kill, ticket, issued, undefined>>

(* Mutant: the location is not moved back.                                 *)
AfterUnlink_Stale(rest) == queued_out_message_insert_location

(* Mutant: the location is moved back although results remain.             *)
AfterUnlink_Eager(rest) ==
    IF publish_queue = <<>> THEN ListHead ELSE queued_out_message_insert_location

(* The insert location when rest is what remains of the list: it moves     *)
(* back to the head only if neither results nor notifications remain.      *)
AfterUnlink(rest) ==
    IF rest = PublishItem /\ publish_queue = <<>>
    THEN ListHead ELSE queued_out_message_insert_location

CreateResult(first) ==
    /\ CreateBegin(first)
    /\ ~kill
    /\ heap[first] # "free"
    /\ heap' = [heap EXCEPT ![first] = "out"]
    /\ queued_out_message_insert_location' = AfterUnlink(next[first])
    /\ writer' = "sending"
    /\ UNCHANGED <<next, publish_queue, free_publish_slots, kill, ticket,
                   issued, undefined>>

(* The notifications one publish message takes.                            *)
ItemCount ==
    IF Len(publish_queue) <= free_publish_slots THEN Len(publish_queue)
                                                ELSE free_publish_slots

CreatePublish ==
    /\ CreateBegin(PublishItem)
    /\ ~kill
    /\ free_publish_slots' = free_publish_slots - ItemCount
    /\ publish_queue' = SubSeq(publish_queue, ItemCount + 1, Len(publish_queue))
    /\ queued_out_message_insert_location' =
         IF publish_queue' = <<>> THEN ListHead
                                  ELSE queued_out_message_insert_location
    /\ writer' = "sending"
    /\ UNCHANGED <<next, kill, cells, undefined>>

(* No memory for the publish message: NULL is returned.                    *)
CreatePublishFails ==
    /\ CreateBegin(PublishItem)
    /\ ~kill
    /\ writer' = "closing"
    /\ UNCHANGED <<next, queued_out_message_insert_location, publish_queue,
                   free_publish_slots, kill, cells, undefined>>

(* The first message of the list was freed before.                         *)
CreateFromFreed(first) ==
    /\ CreateBegin(first)
    /\ heap[first] = "free"
    /\ undefined' = TRUE
    /\ UNCHANGED <<next, queued_out_message_insert_location, publish_queue,
                   free_publish_slots, kill, cells, writer>>

(* lws_write and wpcp_session_out_message_delete; a short write closes.    *)
Write ==
    /\ writer = "sending" /\ ~undefined
    /\ heap' = [n \in Node |-> IF heap[n] = "out" THEN "free" ELSE heap[n]]
    /\ writer' \in {"sent", "closing"}
    /\ UNCHANGED <<list, publish_queue, free_publish_slots, kill, ticket,
                   issued, writable, undefined>>

(* Mutant: the writer does not look for another message.                   *)
Recheck_Blind ==
    /\ writer = "sent" /\ ~undefined
    /\ writer' = "idle"
    /\ UNCHANGED <<list, publish_queue, free_publish_slots, kill, cells,
                   writable, undefined>>

(* The mutex is taken again to see whether there is more to write.         *)
Recheck ==
    /\ writer = "sent" /\ ~undefined
    /\ writable' = (writable \/ HasOutMessage)
    /\ writer' = "idle"
    /\ UNCHANGED <<list, publish_queue, free_publish_slots, kill, cells, undefined>>

-----------------------------------------------------------------------------
(* The CLOSED callback, after a callback returned -1 or the peer left.     *)
StartDelete ==
    /\ writer \in {"idle", "closing"} /\ ~undefined
    /\ writer' = "deleting"
    /\ UNCHANGED <<list, publish_queue, free_publish_slots, kill, cells,
                   writable, undefined>>

(* wpcp_session_delete frees the list from the front.                      *)
FreeFirst(n) ==
    /\ writer = "deleting" /\ ~undefined
    /\ n = queued_out_messages
    /\ undefined' = (heap[n] = "free")
    /\ queued_out_messages' = next[n]
    /\ heap' = [heap EXCEPT ![n] = "free"]
    /\ UNCHANGED <<next, queued_out_message_insert_location, publish_queue,
                   free_publish_slots, kill, ticket, issued, writable, writer>>

(* Mutant: the list is given up without being freed.                       *)
FinishDelete_Early ==
    /\ writer = "deleting" /\ ~undefined
    /\ publish_queue' = <<>>
    /\ heap' = [n \in Node |-> IF heap[n] = "queued" THEN "lost" ELSE heap[n]]
    /\ writable' = FALSE
    /\ writer' = "closed"
    /\ UNCHANGED <<list, free_publish_slots, kill, ticket, issued, undefined>>

(* Whatever was not on the list can not be reached any more.               *)
FinishDelete ==
    /\ writer = "deleting" /\ ~undefined
    /\ queued_out_messages = PublishItem
    /\ publish_queue' = <<>>
    /\ heap' = [n \in Node |-> IF heap[n] = "queued" THEN "lost" ELSE heap[n]]
    /\ writable' = FALSE
    /\ writer' = "closed"
    /\ UNCHANGED <<list, free_publish_slots, kill, ticket, issued, undefined>>

(* ESTABLISHED on the next connection: wpcp_session_create.                *)
SessionCreate ==
    /\ writer = "closed" /\ ~undefined
    /\ queued_out_messages' = PublishItem
    /\ next' = [next EXCEPT ![PublishItem] = PublishItem]
    /\ queued_out_message_insert_location' = ListHead
    /\ publish_queue' = <<>>
    /\ free_publish_slots' = MaxSlots
    /\ kill' = FALSE
    /\ issued' = 0
    /\ writer' = "idle"
    /\ UNCHANGED <<heap, ticket, writable, undefined>>

-----------------------------------------------------------------------------
Accept ==
    \/ \E n \in Node, k \in 0..MaxBlocked : ReleaseResult(n, k)
    \/ \E k \in 0..MaxBlocked : ReleaseResultFails(k)

Other ==
    \/ Publish
    \/ PublishFails
    \/ \E count \in 1..MaxSlots : AddFreePublishSlots(count)

Service ==
    \/ NothingToWrite
    \/ CreateKilled
    \/ \E first \in Node : CreateResult(first)
    \/ CreatePublish
    \/ CreatePublishFails
    \/ \E first \in Node : CreateFromFreed(first)
    \/ Write
    \/ Recheck

Delete ==
    \/ StartDelete
    \/ \E n \in Node : FreeFirst(n)
    \/ FinishDelete

Next == Accept \/ Other \/ Service \/ Delete \/ SessionCreate

(* Everything the callers can do.                                          *)
Spec == Init /\ [][Next]_vars

(* The callers the list works for: a result is only released while no      *)
(* notification is queued.  Nothing in the library enforces this.          *)
NextOrdered ==
    \/ publish_queue = <<>> /\ Accept
    \/ Other
    \/ Service
    \/ Delete
    \/ SessionCreate

OrderedSpec == Init /\ [][NextOrdered]_vars

(* The service thread goes on: it takes up WRITEABLE events, and closes a  *)
(* connection whose callback returned -1.  Neither the application nor     *)
(* the peer owes a step.                                                   *)
Fairness ==
    /\ WF_vars(Service)
    /\ WF_vars(Delete /\ writer # "idle")

FairOrderedSpec == OrderedSpec /\ Fairness

-----------------------------------------------------------------------------
(* Every variable stays in its type.                                       *)
TypeOK ==
    /\ queued_out_messages \in Node \cup {PublishItem}
    /\ next \in [Node \cup {PublishItem} -> Node \cup {PublishItem}]
    /\ queued_out_message_insert_location \in Node \cup {PublishItem, ListHead}
    /\ publish_queue \in Seq(Nat)
    /\ free_publish_slots \in 0..MaxSlots
    /\ kill \in BOOLEAN
    /\ heap \in [Node -> CellState]
    /\ ticket \in [Node -> Nat]
    /\ issued \in Nat
    /\ writable \in BOOLEAN
    /\ writer \in WriterState
    /\ undefined \in BOOLEAN

(* The oldest of the queued results.                                       *)
Oldest(n) == n \in Queued /\ \A m \in Queued : ticket[n] <= ticket[m]

(* m is the result accepted right after n among those still queued.        *)
Follows(n, m) ==
    /\ m \in Queued
    /\ ticket[n] < ticket[m]
    /\ \A o \in Queued : ticket[o] <= ticket[n] \/ ticket[m] <= ticket[o]

(* The linked list is the queue: it starts at the oldest queued result,    *)
(* links every result to the one accepted after it, ends at the sentinel,  *)
(* and when no notification is queued the insert location is its end.      *)
Represents ==
    Open /\ ~kill =>
        /\ IF Queued = {} THEN queued_out_messages = PublishItem
                          ELSE Oldest(queued_out_messages)
        /\ \A n \in Queued :
             IF \E m \in Queued : ticket[n] < ticket[m]
             THEN Follows(n, next[n])
             ELSE next[n] = PublishItem
        /\ next[PublishItem] = PublishItem
        /\ publish_queue = <<>> =>
             IF Queued = {} THEN queued_out_message_insert_location = ListHead
             ELSE \E n \in Queued :
                    /\ queued_out_message_insert_location = n
                    /\ next[n] = PublishItem

(* No freed message is read, written or freed again.                       *)
NoUseAfterFree == ~undefined

(* A result is handed to the writer only when it is the oldest one.        *)
HandsOutOldest ==
    [][\A n \in Node :
         heap[n] # "out" /\ heap'[n] = "out" => Oldest(n)]_vars

(* A notification is not handed to the writer before a result that was     *)
(* accepted earlier, which may be the one with its subscription id.        *)
AnnouncedFirst ==
    [][\A i \in 1..Len(publish_queue) - Len(publish_queue') :
         writer' = "sending" =>
           \A n \in Queued : publish_queue[i] < ticket[n]]_vars

(* Whenever there is something to write, a WRITEABLE event is on its way   *)
(* or the writer will look again.  A kill alone may go unnoticed.          *)
NoLostWakeup ==
    /\ writer = "idle" /\ ~undefined
    /\ queued_out_messages # PublishItem \/ HasSendablePublishItem
    => writable

(* No message is lost, neither for the client nor to the heap, unless the  *)
(* session was killed.                                                     *)
NothingLost ==
    [][\A n \in Node : heap[n] # "lost" /\ heap'[n] = "lost" => kill]_vars

(* Every result that was accepted leaves the list.                         *)
ResultsLeave ==
    \A n \in Node : heap[n] = "queued" ~> heap[n] # "queued"

(* Notifications that may be sent are sent until none is left or the peer  *)
(* has no slots.                                                           *)
NotesLeave == HasSendablePublishItem ~> ~HasSendablePublishItem

(* The list implements the channel.                                        *)
Channel == INSTANCE OutChannel WITH
    open <- Open,
    failed <- kill,
    results <- IF Open THEN {ticket[n] : n \in Queued} ELSE {},
    notes <- IF Open THEN publish_queue ELSE <<>>

ImplementsChannel == Channel!Spec

(* With nothing queued the writer is told that there is nothing.           *)
EmptyHasNoMessage ==
    Open /\ Queued = {} /\ publish_queue = <<>> /\ ~kill => ~HasOutMessage

(* While a result is queued the writer is told that there is a message.    *)
QueuedHasMessage ==
    Open /\ Queued # {} => HasOutMessage
=============================================================================
