--------------------------- MODULE OutQueueProofs ---------------------------
(***************************************************************************)
(* What TLAPS proves about OutQueue for every heap, every number of slots, *)
(* results and notifications.                                              *)
(***************************************************************************)
EXTENDS OutQueue, SequenceTheorems, TLAPS

(* The notifications of a result, and what is left of the queue after a    *)
(* publish message, are sequences of numbers.                              *)
LEMMA BlockedNotes ==
    ASSUME NEW k \in Nat, NEW v \in Nat, NEW s \in Seq(Nat)
    PROVE  /\ s \o [i \in 1..k |-> v] \in Seq(Nat)
           /\ Len(s \o [i \in 1..k |-> v]) = Len(s) + k
           /\ s \o [i \in 1..k |-> v] = <<>> => s = <<>>
  <1> DEFINE t == [i \in 1..k |-> v]
  <1>1. t \in Seq(Nat) /\ Len(t) = k
    OBVIOUS
  <1>2. s \o t \in Seq(Nat) /\ Len(s \o t) = Len(s) + Len(t)
    BY <1>1, ConcatProperties
  <1>3. s \o t = <<>> => s = <<>>
    BY <1>1, <1>2, EmptySeq
  <1> QED
    BY <1>1, <1>2, <1>3

(* What a publish message leaves of the queue is a sequence of numbers.    *)
LEMMA Remainder ==
    ASSUME NEW s \in Seq(Nat), NEW c \in Nat, c <= Len(s)
    PROVE  /\ SubSeq(s, c + 1, Len(s)) \in Seq(Nat)
           /\ Len(SubSeq(s, c + 1, Len(s))) = Len(s) - c
  <1>1. Len(s) \in Nat /\ \A i \in 1..Len(s) : s[i] \in Nat
    BY ElementOfSeq, LenProperties
  <1>2. \A i \in c + 1..Len(s) : s[i] \in Nat
    BY <1>1
  <1> QED
    BY <1>1, <1>2, SubSeqProperties

(* ItemCount is what the loop in wpcp_session_out_message_create counts.   *)
LEMMA ItemCountType ==
    ASSUME TypeOK
    PROVE  ItemCount \in Nat /\ ItemCount <= Len(publish_queue)
                            /\ ItemCount <= free_publish_slots
  <1>1. Len(publish_queue) \in Nat /\ free_publish_slots \in Nat
    BY LenProperties, BoundsAssumption DEF TypeOK
  <1> QED
    BY <1>1 DEF ItemCount

-----------------------------------------------------------------------------
(* A new session has its variables in their types.                         *)
LEMMA TypeInit == Init => TypeOK
  <1> SUFFICES ASSUME Init PROVE TypeOK
    OBVIOUS
  <1>1. /\ publish_queue \in Seq(Nat)
        /\ free_publish_slots \in 0..MaxSlots
    BY EmptySeq, BoundsAssumption DEF Init
  <1>2. /\ next \in [Node \cup {PublishItem} -> Node \cup {PublishItem}]
        /\ heap \in [Node -> CellState]
        /\ ticket \in [Node -> Nat]
    BY DEF Init, CellState
  <1> QED
    BY <1>1, <1>2 DEF Init, TypeOK, WriterState

(* Every step of the callers, the writer and the session end keeps the     *)
(* types.                                                                  *)
LEMMA TypeStep ==
    ASSUME TypeOK, [Next]_vars
    PROVE  TypeOK'
  <1> USE SentinelAssumption, BoundsAssumption DEF TypeOK, CellState, WriterState
  <1>1. ASSUME NEW n \in Node, NEW k \in 0..MaxBlocked, ReleaseResult(n, k)
        PROVE  TypeOK'
    <2>1. publish_queue' \in Seq(Nat)
      BY <1>1, BlockedNotes DEF ReleaseResult
    <2>2. /\ queued_out_messages' \in Node \cup {PublishItem}
          /\ next' \in [Node \cup {PublishItem} -> Node \cup {PublishItem}]
          /\ queued_out_message_insert_location' \in Node \cup {PublishItem, ListHead}
      BY <1>1 DEF ReleaseResult, Link
    <2>3. /\ heap' \in [Node -> CellState]
          /\ ticket' \in [Node -> Nat]
          /\ issued' \in Nat
          /\ undefined' \in BOOLEAN
      BY <1>1 DEF ReleaseResult
    <2>4. UNCHANGED <<free_publish_slots, kill, writer>> /\ writable' = TRUE
      BY <1>1 DEF ReleaseResult
    <2> QED
      BY <2>1, <2>2, <2>3, <2>4
  <1>2. ASSUME NEW k \in 0..MaxBlocked, ReleaseResultFails(k)
        PROVE  TypeOK'
    <2>1. publish_queue' \in Seq(Nat)
      BY <1>2, BlockedNotes DEF ReleaseResultFails
    <2> QED
      BY <1>2, <2>1 DEF ReleaseResultFails, BehindPublishItem, cells
  <1>3. CASE Publish
    BY <1>3 DEF Publish, BehindPublishItem, cells
  <1>4. CASE PublishFails
    BY <1>4 DEF PublishFails, list, cells
  <1>5. ASSUME NEW count \in 1..MaxSlots, AddFreePublishSlots(count)
        PROVE  TypeOK'
    BY <1>5 DEF AddFreePublishSlots, MakesSendable, list, cells
  <1>6. CASE NothingToWrite
    BY <1>6 DEF NothingToWrite, Writeable, list, cells
  <1>7. CASE CreateKilled
    BY <1>7 DEF CreateKilled, CreateBegin, Writeable
  <1>8. ASSUME NEW first \in Node, CreateResult(first)
        PROVE  TypeOK'
    BY <1>8 DEF CreateResult, CreateBegin, Writeable, AfterUnlink
  <1>9. CASE CreatePublish
    <2>1. ItemCount \in Nat /\ ItemCount <= Len(publish_queue)
                            /\ ItemCount <= free_publish_slots
      BY ItemCountType
    <2>2. publish_queue' \in Seq(Nat)
      BY <1>9, <2>1, Remainder DEF CreatePublish
    <2>3. free_publish_slots' \in 0..MaxSlots
      BY <1>9, <2>1 DEF CreatePublish
    <2> QED
      BY <1>9, <2>2, <2>3 DEF CreatePublish, CreateBegin, Writeable, cells
  <1>10. CASE CreatePublishFails
    BY <1>10 DEF CreatePublishFails, CreateBegin, Writeable, cells
  <1>11. ASSUME NEW first \in Node, CreateFromFreed(first)
         PROVE  TypeOK'
    BY <1>11 DEF CreateFromFreed, CreateBegin, Writeable, cells
  <1>12. CASE Write
    BY <1>12 DEF Write, list
  <1>13. CASE Recheck
    BY <1>13 DEF Recheck, list, cells, HasOutMessage, HasSendablePublishItem
  <1>14. CASE StartDelete
    BY <1>14 DEF StartDelete, list, cells
  <1>15. ASSUME NEW n \in Node, FreeFirst(n)
         PROVE  TypeOK'
    BY <1>15 DEF FreeFirst
  <1>16. CASE FinishDelete
    BY <1>16, EmptySeq DEF FinishDelete, list
  <1>17. CASE SessionCreate
    <2>1. publish_queue' \in Seq(Nat) /\ free_publish_slots' \in 0..MaxSlots
      BY <1>17, EmptySeq DEF SessionCreate
    <2> QED
      BY <1>17, <2>1 DEF SessionCreate
  <1>18. CASE UNCHANGED vars
    BY <1>18 DEF vars, list, cells
  <1> QED
    BY <1>1, <1>2, <1>3, <1>4, <1>5, <1>6, <1>7, <1>8, <1>9, <1>10, <1>11,
       <1>12, <1>13, <1>14, <1>15, <1>16, <1>17, <1>18
       DEF Next, Accept, Other, Service, Delete

(* The variables stay in their types whatever the callers do.              *)
THEOREM TypeCorrect == Spec => []TypeOK
  <1>1. Init => TypeOK
    BY TypeInit
  <1>2. TypeOK /\ [Next]_vars => TypeOK'
    BY TypeStep
  <1> QED
    BY <1>1, <1>2, PTL DEF Spec

-----------------------------------------------------------------------------
(* Every step that makes something sendable asks for a WRITEABLE event, or *)
(* leaves the writer where it looks again.                                 *)
LEMMA WakeupStep ==
    ASSUME TypeOK, NoLostWakeup, [Next]_vars
    PROVE  NoLostWakeup'
  <1> USE DEF TypeOK, NoLostWakeup, HasSendablePublishItem
  <1>1. ASSUME NEW n \in Node, NEW k \in 0..MaxBlocked, ReleaseResult(n, k)
        PROVE  NoLostWakeup'
    BY <1>1 DEF ReleaseResult
  <1>2. ASSUME NEW k \in 0..MaxBlocked, ReleaseResultFails(k)
        PROVE  NoLostWakeup'
    BY <1>2 DEF ReleaseResultFails
  <1>3. CASE Publish
    BY <1>3 DEF Publish
  <1>4. CASE PublishFails
    BY <1>4 DEF PublishFails, list
  <1>5. ASSUME NEW count \in 1..MaxSlots, AddFreePublishSlots(count)
        PROVE  NoLostWakeup'
    <2>1. free_publish_slots \in Nat /\ count \in Nat
      BY BoundsAssumption
    <2>2. free_publish_slots = 0 => free_publish_slots' = count
      BY <1>5, <2>1 DEF AddFreePublishSlots
    <2> QED
      BY <1>5, <2>1, <2>2 DEF AddFreePublishSlots, MakesSendable, list
  <1>6. CASE NothingToWrite
    BY <1>6 DEF NothingToWrite, HasOutMessage, list
  <1>7. CASE CreateKilled
    BY <1>7 DEF CreateKilled
  <1>8. ASSUME NEW first \in Node, CreateResult(first)
        PROVE  NoLostWakeup'
    BY <1>8 DEF CreateResult
  <1>9. CASE CreatePublish
    BY <1>9 DEF CreatePublish
  <1>10. CASE CreatePublishFails
    BY <1>10 DEF CreatePublishFails
  <1>11. ASSUME NEW first \in Node, CreateFromFreed(first)
         PROVE  NoLostWakeup'
    BY <1>11 DEF CreateFromFreed
  <1>12. CASE Write
    BY <1>12 DEF Write
  <1>13. CASE Recheck
    BY <1>13 DEF Recheck, HasOutMessage, list
  <1>14. CASE StartDelete
    BY <1>14 DEF StartDelete
  <1>15. ASSUME NEW n \in Node, FreeFirst(n)
         PROVE  NoLostWakeup'
    BY <1>15 DEF FreeFirst
  <1>16. CASE FinishDelete
    BY <1>16 DEF FinishDelete
  <1>17. CASE SessionCreate
    BY <1>17 DEF SessionCreate
  <1>18. CASE UNCHANGED vars
    BY <1>18 DEF vars, list, cells
  <1> QED
    BY <1>1, <1>2, <1>3, <1>4, <1>5, <1>6, <1>7, <1>8, <1>9, <1>10, <1>11,
       <1>12, <1>13, <1>14, <1>15, <1>16, <1>17, <1>18
       DEF Next, Accept, Other, Service, Delete

(* While the writer is idle and there is something to write, a WRITEABLE   *)
(* event is on its way, whatever the callers do: has_out_message.cb is     *)
(* called often enough, and the writer looks again after every message.    *)
THEOREM WakeupCorrect == Spec => []NoLostWakeup
  <1>1. Init => NoLostWakeup
    BY DEF Init, NoLostWakeup, HasSendablePublishItem
  <1>2. TypeOK /\ NoLostWakeup /\ [Next]_vars => NoLostWakeup'
    BY WakeupStep
  <1> QED
    BY <1>1, <1>2, TypeCorrect, PTL DEF Spec

-----------------------------------------------------------------------------
(***************************************************************************)
(* The inductive invariant of OrderedSpec.  Represents is not inductive:   *)
(* it says nothing of a session that was killed or is being deleted, whose *)
(* list is still walked, nor of the tickets.                               *)
(***************************************************************************)

(* Different queued results have different numbers, none above issued.     *)
Numbered ==
    /\ \A n \in Queued : ticket[n] <= issued
    /\ \A n, m \in Queued : ticket[n] = ticket[m] => n = m

(* The queued results are linked in the order of their numbers.            *)
Chained ==
    \A n \in Queued :
        IF \E m \in Queued : ticket[n] < ticket[m]
        THEN Follows(n, next[n])
        ELSE next[n] = PublishItem

(* The list starts at the oldest of them; after a kill they may be lost.   *)
Anchored ==
    /\ next[PublishItem] = PublishItem
    /\ queued_out_messages \in Node => Oldest(queued_out_messages)
    /\ queued_out_messages = PublishItem => Queued = {} \/ kill

(* Where the next result goes, as long as one may come.                    *)
InsertLocation ==
    LET loc == queued_out_message_insert_location
    IN  publish_queue = <<>> /\ Open =>
          /\ loc # PublishItem
          /\ loc = ListHead => Queued = {}
          /\ loc \in Node =>
               \/ loc \in Queued /\ next[loc] = PublishItem
               \/ heap[loc] = "lost" /\ kill /\ Queued = {}
                    /\ queued_out_messages = PublishItem

(* A session that is gone has left nothing queued.                         *)
Settled == writer = "closed" => Queued = {} /\ publish_queue = <<>>

(* The inductive invariant: the linked list, the heap, the numbers of the  *)
(* results and the insert location of wpcp_session.c agree.                *)
IInv ==
    /\ TypeOK
    /\ NoUseAfterFree
    /\ Numbered
    /\ Chained
    /\ Anchored
    /\ InsertLocation
    /\ Settled

(* A step that leaves the queued results alone keeps them in order.        *)
LEMMA Untouched ==
    ASSUME Numbered, Chained, Queued' = Queued, UNCHANGED <<ticket, next, issued>>
    PROVE  Numbered' /\ Chained'
  BY DEF Numbered, Chained, Follows

(* Taking out the oldest result leaves a list that starts at its link.     *)
LEMMA Unlink ==
    ASSUME TypeOK, Numbered, Chained, NEW n, Oldest(n),
           Queued' = Queued \ {n}, UNCHANGED <<ticket, next, issued>>
    PROVE  /\ Numbered'
           /\ Chained'
           /\ next[n] \in Node => Oldest(next[n])'
           /\ next[n] = PublishItem => Queued' = {}
           /\ next[n] \in Node \cup {PublishItem}
  <1>0. n \in Node /\ n \in Queued /\ \A m \in Queued : m \in Node /\ ticket[m] \in Nat
    BY DEF Oldest, Queued, TypeOK
  <1>1. Numbered'
    BY DEF Numbered
  <1>2. \A m \in Queued' : ticket[n] < ticket[m]
    BY <1>0 DEF Numbered, Oldest
  <1>3. Chained'
    <2> SUFFICES ASSUME NEW m \in Queued'
                 PROVE  IF \E o \in Queued' : ticket[m] < ticket[o]
                        THEN Follows(m, next[m])' ELSE next[m] = PublishItem
      BY DEF Chained
    <2>1. CASE \E o \in Queued' : ticket[m] < ticket[o]
      <3>1. Follows(m, next[m])
        BY <2>1 DEF Chained
      <3>2. next[m] # n
        BY <1>0, <1>2, <3>1 DEF Follows
      <3> QED
        BY <2>1, <3>1, <3>2 DEF Follows
    <2>2. CASE ~ \E o \in Queued' : ticket[m] < ticket[o]
      <3>1. ~ \E o \in Queued : ticket[m] < ticket[o]
        BY <1>0, <1>2, <2>2
      <3> QED
        BY <2>2, <3>1 DEF Chained
    <2> QED
      BY <2>1, <2>2
  <1>4. ASSUME next[n] \in Node
        PROVE  Oldest(next[n])'
    <2>1. Follows(n, next[n])
      BY <1>0, <1>4, SentinelAssumption DEF Chained
    <2>2. \A m \in Queued' : ticket[next[n]] <= ticket[m]
      BY <1>0, <1>2, <2>1 DEF Follows
    <2>3. next[n] \in Queued'
      BY <1>0, <2>1 DEF Follows
    <2> QED
      BY <2>2, <2>3 DEF Oldest
  <1>5. ASSUME next[n] = PublishItem
        PROVE  Queued' = {}
    <2>1. ~ Follows(n, next[n])
      BY <1>5, SentinelAssumption DEF Follows, Queued
    <2>2. ~ \E m \in Queued : ticket[n] < ticket[m]
      BY <1>0, <2>1 DEF Chained
    <2> QED
      BY <1>2, <2>2
  <1>6. next[n] \in Node \cup {PublishItem}
    BY <1>0 DEF TypeOK
  <1> QED
    BY <1>1, <1>3, <1>4, <1>5, <1>6

(* Appending a result where the insert location says keeps the order.      *)
LEMMA Linking ==
    ASSUME IInv, publish_queue = <<>>, NEW n \in Node, NEW k \in 0..MaxBlocked,
           ReleaseResult(n, k),
           NEW loc, loc = queued_out_message_insert_location
    PROVE  /\ Numbered' /\ Chained' /\ Anchored' /\ NoUseAfterFree'
           /\ queued_out_message_insert_location' = n
           /\ n \in Queued' /\ next'[n] = PublishItem
  <1> USE DEF IInv
  <1>1. /\ loc \in Node \cup {ListHead} /\ loc # n
        /\ n \notin Queued
        /\ \A m \in Queued : m \in Node /\ ticket[m] \in Nat /\ ticket[m] <= issued
        /\ issued \in Nat
    BY DEF InsertLocation, ReleaseResult, TypeOK, Queued, Numbered
  <1>2. /\ Queued' = Queued \cup {n}
        /\ ticket' = [ticket EXCEPT ![n] = issued + 1]
        /\ issued' = issued + 1
    BY DEF ReleaseResult, Queued, TypeOK
  <1>3. /\ ticket'[n] = issued + 1
        /\ \A m \in Queued : ticket'[m] = ticket[m] /\ ticket[m] < ticket'[n]
    BY <1>1, <1>2 DEF TypeOK
  <1>4. /\ next'[n] = PublishItem
        /\ loc \in Node => next'[loc] = n
        /\ \A m \in Node \cup {PublishItem} : m # n /\ m # loc => next'[m] = next[m]
    BY <1>1, SentinelAssumption DEF ReleaseResult, Link, TypeOK
  <1>5. Numbered'
    BY <1>1, <1>2, <1>3 DEF Numbered
  <1>6. CASE loc = ListHead
    <2>1. Queued' = {n}
      BY <1>2, <1>6 DEF InsertLocation, ReleaseResult
    <2>2. Chained'
      BY <1>4, <2>1, <1>3, <1>1 DEF Chained
    <2>3. queued_out_messages' = n
      BY <1>6 DEF ReleaseResult, Link
    <2>4. Anchored'
      BY <1>1, <1>3, <1>4, <1>6, <2>1, <2>3, SentinelAssumption DEF Anchored, Oldest
    <2>5. NoUseAfterFree'
      BY <1>6, SentinelAssumption DEF ReleaseResult, NoUseAfterFree
    <2> QED
      BY <1>2, <1>4, <1>5, <2>2, <2>4, <2>5 DEF ReleaseResult, Link
  <1>7. CASE loc \in Queued /\ next[loc] = PublishItem
    <2>1. \A m \in Queued : ticket[m] <= ticket[loc]
      <3>1. ~ Follows(loc, next[loc])
        BY <1>7, SentinelAssumption DEF Follows, Queued
      <3> QED
        BY <1>1, <1>7, <3>1 DEF Chained
    <2>2. ASSUME NEW m \in Queued, m # loc
          PROVE  /\ Follows(m, next[m])
                 /\ Follows(m, next[m])'
                 /\ \E o \in Queued' : ticket'[m] < ticket'[o]
      <3>1. ticket[m] < ticket[loc]
        BY <1>1, <1>7, <2>1, <2>2 DEF Numbered
      <3>2. Follows(m, next[m])
        BY <1>7, <3>1 DEF Chained
      <3>3. next'[m] = next[m]
        BY <1>1, <1>4, <2>2
      <3>4. /\ next[m] \in Queued' /\ ticket'[m] < ticket'[next[m]]
            /\ \A o \in Queued' : ticket'[o] <= ticket'[m] \/ ticket'[next[m]] <= ticket'[o]
        BY <1>1, <1>2, <1>3, <3>2 DEF Follows
      <3> QED
        BY <3>2, <3>3, <3>4 DEF Follows
    <2>3. Follows(loc, next[loc])'
      <3>1. loc \in Node /\ next'[loc] = n
        BY <1>1, <1>4, <1>7
      <3>2. \A o \in Queued' : ticket'[o] <= ticket'[loc] \/ ticket'[n] <= ticket'[o]
        BY <1>1, <1>2, <1>3, <1>7, <2>1
      <3>3. n \in Queued' /\ ticket'[loc] < ticket'[n]
        BY <1>2, <1>3, <1>7
      <3>4. next'[loc] \in Queued' /\ ticket'[loc] < ticket'[next'[loc]]
        BY <3>1, <3>3
      <3>5. \A o \in Queued' : ticket'[o] <= ticket'[loc] \/ ticket'[next'[loc]] <= ticket'[o]
        BY <3>1, <3>2
      <3> QED
        BY <3>4, <3>5 DEF Follows
    <2>4. Chained'
      <3>2. \A o \in Queued' : ~ (ticket'[n] < ticket'[o])
        BY <1>1, <1>2, <1>3
      <3>3. \E o \in Queued' : ticket'[loc] < ticket'[o]
        BY <1>2, <1>3, <1>7
      <3>4. ASSUME NEW m \in Queued'
            PROVE  IF \E o \in Queued' : ticket'[m] < ticket'[o]
                   THEN Follows(m, next[m])' ELSE next'[m] = PublishItem
        <4>1. CASE m = n
          BY <1>4, <3>2, <4>1
        <4>2. CASE m = loc
          BY <2>3, <3>3, <4>2
        <4>3. CASE m # n /\ m # loc
          BY <1>2, <2>2, <4>3
        <4> QED
          BY <4>1, <4>2, <4>3
      <3> QED
        BY <3>4 DEF Chained
    <2>5. queued_out_messages' = queued_out_messages
      BY <1>7, SentinelAssumption DEF ReleaseResult, Link, Queued
    <2>6. Anchored'
      <3>1. next'[PublishItem] = PublishItem
        BY <1>4, <1>1, SentinelAssumption DEF Anchored
      <3>2. ASSUME queued_out_messages \in Node
            PROVE  Oldest(queued_out_messages)'
        <4>1. Oldest(queued_out_messages)
          BY <3>2 DEF Anchored
        <4>2. /\ queued_out_messages \in Queued'
              /\ \A m \in Queued' : ticket'[queued_out_messages] <= ticket'[m]
          BY <1>1, <1>2, <1>3, <4>1 DEF Oldest
        <4> QED
          BY <2>5, <4>2 DEF Oldest
      <3>3. queued_out_messages = PublishItem => kill'
        BY <1>7 DEF Anchored, ReleaseResult
      <3> QED
        BY <2>5, <3>1, <3>2, <3>3 DEF Anchored
    <2>7. NoUseAfterFree'
      BY <1>7 DEF ReleaseResult, NoUseAfterFree, Queued
    <2> QED
      BY <1>2, <1>4, <1>5, <2>4, <2>6, <2>7 DEF ReleaseResult, Link
  <1>8. CASE /\ loc \in Node /\ heap[loc] = "lost" /\ kill /\ Queued = {}
             /\ queued_out_messages = PublishItem
    <2>1. Queued' = {n}
      BY <1>2, <1>8
    <2>2. Chained'
      BY <1>1, <1>3, <1>4, <2>1 DEF Chained
    <2>3. queued_out_messages' = PublishItem
      BY <1>8, SentinelAssumption DEF ReleaseResult, Link
    <2>4. Anchored'
      BY <1>1, <1>4, <1>8, <2>3, SentinelAssumption DEF Anchored, ReleaseResult
    <2>5. NoUseAfterFree'
      BY <1>8 DEF ReleaseResult, NoUseAfterFree
    <2> QED
      BY <1>2, <1>4, <1>5, <2>2, <2>4, <2>5 DEF ReleaseResult, Link
  <1> QED
    BY <1>1, <1>6, <1>7, <1>8 DEF InsertLocation, ReleaseResult

(* The list of a new session is empty and in order.                        *)
LEMMA InvInit == Init => IInv
  <1> SUFFICES ASSUME Init PROVE IInv
    OBVIOUS
  <1>1. TypeOK /\ Queued = {} /\ next[PublishItem] = PublishItem
    BY TypeInit DEF Init, Queued
  <1> QED
    BY <1>1, SentinelAssumption
       DEF Init, IInv, NoUseAfterFree, Numbered, Chained, Anchored,
           InsertLocation, Settled

(* A step that changes neither the list nor the heap, and queues only      *)
(* notifications.                                                          *)
LEMMA ListUntouched ==
    ASSUME IInv, TypeOK', UNCHANGED <<queued_out_messages, next, cells, undefined>>,
           kill => kill',
           \/ UNCHANGED <<queued_out_message_insert_location, publish_queue>>
           \/ publish_queue' # <<>>,
           Open' => Open,
           writer' = "closed" => writer = "closed" /\ publish_queue' = publish_queue
    PROVE  IInv'
  <1> USE DEF IInv, cells
  <1>1. Queued' = Queued
    BY DEF Queued
  <1>2. Numbered' /\ Chained'
    BY <1>1, Untouched
  <1>3. Anchored'
    BY <1>1 DEF Anchored, Oldest
  <1>4. InsertLocation'
    BY <1>1 DEF InsertLocation
  <1>5. Settled'
    BY <1>1 DEF Settled
  <1> QED
    BY <1>2, <1>3, <1>4, <1>5 DEF NoUseAfterFree

(* Under the callers' order every step keeps the list in order, one case   *)
(* for each action.                                                        *)
LEMMA InvStep ==
    ASSUME IInv, [NextOrdered]_vars
    PROVE  IInv'
  <1> TypeOK'
    <2>1. [Next]_vars
      BY DEF NextOrdered, Next
    <2> QED
      BY <2>1, TypeStep DEF IInv
  <1> USE DEF IInv
  <1>1. ASSUME publish_queue = <<>>, NEW n \in Node, NEW k \in 0..MaxBlocked,
               ReleaseResult(n, k)
        PROVE  IInv'
    <2>1. /\ Numbered' /\ Chained' /\ Anchored' /\ NoUseAfterFree'
          /\ queued_out_message_insert_location' = n
          /\ n \in Queued' /\ next'[n] = PublishItem
      BY <1>1, Linking
    <2>2. InsertLocation'
      BY <2>1, SentinelAssumption DEF InsertLocation
    <2>3. Settled'
      BY <1>1 DEF ReleaseResult, Open, Settled
    <2> QED
      BY <2>1, <2>2, <2>3
  <1>2. ASSUME publish_queue = <<>>, NEW k \in 0..MaxBlocked, ReleaseResultFails(k)
        PROVE  IInv'
    <2>1. k = 0 => publish_queue' = publish_queue
      BY <1>2 DEF ReleaseResultFails
    <2>2. k # 0 => publish_queue' # <<>>
      BY <1>2 DEF ReleaseResultFails
    <2> QED
      BY <1>2, <2>1, <2>2, ListUntouched DEF ReleaseResultFails, Open
  <1>3. CASE Publish
    <2>1. publish_queue' # <<>>
      BY <1>3 DEF Publish, TypeOK
    <2> QED
      BY <1>3, <2>1, ListUntouched DEF Publish, Open
  <1>4. CASE PublishFails
    BY <1>4, ListUntouched DEF PublishFails, Open, list
  <1>5. ASSUME NEW count \in 1..MaxSlots, AddFreePublishSlots(count)
        PROVE  IInv'
    BY <1>5, ListUntouched DEF AddFreePublishSlots, Open, list
  <1>6. CASE NothingToWrite
    BY <1>6, ListUntouched DEF NothingToWrite, Writeable, Open, list
  <1>7. CASE CreateKilled
    <2>1. PICK first \in Node \cup {PublishItem} :
            /\ CreateBegin(first)
            /\ heap' = IF first \in Node THEN [heap EXCEPT ![first] = "lost"] ELSE heap
      BY <1>7 DEF CreateKilled
    <2>2. /\ kill /\ kill' /\ Open /\ writer' = "closing"
          /\ UNCHANGED <<next, ticket, issued, undefined, publish_queue,
                         queued_out_message_insert_location>>
          /\ first = queued_out_messages /\ queued_out_messages' = next[first]
      BY <1>7, <2>1 DEF CreateKilled, CreateBegin, Writeable, Open
    <2>3. CASE first = PublishItem
      <3>1. UNCHANGED <<queued_out_messages, next, cells, undefined>>
        BY <2>1, <2>2, <2>3, SentinelAssumption DEF Anchored, cells
      <3> QED
        BY <2>2, <3>1, ListUntouched
    <2>4. CASE first \in Node
      <3>1. Oldest(first)
        BY <2>2, <2>4 DEF Anchored
      <3>2. heap'[first] = "lost" /\ \A m \in Node : m # first => heap'[m] = heap[m]
        BY <2>1, <2>4 DEF TypeOK
      <3>3. Queued' = Queued \ {first}
        BY <3>2 DEF Queued
      <3>4. /\ Numbered' /\ Chained'
            /\ next[first] \in Node => Oldest(next[first])'
            /\ next[first] = PublishItem => Queued' = {}
            /\ next[first] \in Node \cup {PublishItem}
        BY <2>2, <3>1, <3>3, Unlink
      <3>5. next[first] \in Node => Oldest(queued_out_messages)'
        BY <2>2, <3>4 DEF Oldest
      <3>6. Anchored'
        BY <2>2, <3>4, <3>5 DEF Anchored
      <3>7. InsertLocation'
        BY <2>2, <2>4, <3>1, <3>2, <3>3, <3>4, SentinelAssumption
           DEF InsertLocation, Oldest
      <3> QED
        BY <2>2, <3>4, <3>6, <3>7 DEF Settled, NoUseAfterFree
    <2> QED
      BY <2>3, <2>4
  <1>8. ASSUME NEW first \in Node, CreateResult(first)
        PROVE  IInv'
    <2>1. /\ Oldest(first) /\ ~kill /\ writer = "idle"
          /\ first = queued_out_messages
      BY <1>8 DEF CreateResult, CreateBegin, Writeable, Anchored
    <2>2. Queued' = Queued \ {first}
      BY <1>8 DEF CreateResult, Queued, TypeOK
    <2>3. UNCHANGED <<ticket, next, issued>> /\ queued_out_messages' = next[first]
      BY <1>8 DEF CreateResult, CreateBegin
    <2>4. /\ Numbered' /\ Chained'
          /\ next[first] \in Node => Oldest(next[first])'
          /\ next[first] = PublishItem => Queued' = {}
          /\ next[first] \in Node \cup {PublishItem}
      BY <2>1, <2>2, <2>3, Unlink
    <2>5. Anchored'
      <3>1. ASSUME next[first] \in Node
            PROVE  Oldest(queued_out_messages)'
        BY <2>3, <2>4, <3>1 DEF Oldest
      <3> QED
        BY <2>3, <2>4, <3>1 DEF Anchored
    <2>6. InsertLocation'
      <3>1. /\ publish_queue' = publish_queue /\ Open /\ first \in Queued
            /\ queued_out_message_insert_location' =
                 IF next[first] = PublishItem /\ publish_queue = <<>>
                 THEN ListHead ELSE queued_out_message_insert_location
        BY <1>8, <2>1 DEF CreateResult, AfterUnlink, Open, Oldest
      <3> QED
        BY <2>1, <2>2, <2>3, <2>4, <3>1, SentinelAssumption DEF InsertLocation
    <2> QED
      BY <1>8, <2>4, <2>5, <2>6 DEF CreateResult, Settled, NoUseAfterFree
  <1>9. CASE CreatePublish
    <2>1. Queued = {} /\ queued_out_messages' = PublishItem
      BY <1>9 DEF CreatePublish, CreateBegin, Anchored
    <2>2. Queued' = {}
      BY <1>9, <2>1 DEF CreatePublish, cells, Queued
    <2>3. Numbered' /\ Chained'
      BY <2>2 DEF Numbered, Chained
    <2>4. Anchored' /\ InsertLocation' /\ Settled' /\ NoUseAfterFree'
      BY <1>9, <2>1, <2>2, SentinelAssumption
         DEF CreatePublish, Anchored, InsertLocation, Settled, NoUseAfterFree
    <2> QED
      BY <2>3, <2>4
  <1>10. CASE CreatePublishFails
    <2>1. UNCHANGED queued_out_messages
      BY <1>10 DEF CreatePublishFails, CreateBegin, Anchored
    <2> QED
      BY <1>10, <2>1, ListUntouched
         DEF CreatePublishFails, CreateBegin, Writeable, Open
  <1>11. ASSUME NEW first \in Node, CreateFromFreed(first)
         PROVE  IInv'
    BY <1>11 DEF CreateFromFreed, CreateBegin, Anchored, Oldest, Queued
  <1>12. CASE Write
    <2>1. Queued' = Queued
      BY <1>12 DEF Write, Queued, TypeOK
    <2>2. Numbered' /\ Chained'
      BY <1>12, <2>1, Untouched DEF Write, list
    <2>3. Anchored'
      BY <1>12, <2>1 DEF Write, list, Anchored, Oldest
    <2>4. InsertLocation'
      <3>1. \A m \in Node : heap[m] = "lost" => heap'[m] = "lost"
        BY <1>12 DEF Write
      <3> QED
        BY <1>12, <2>1, <3>1 DEF Write, list, InsertLocation, Open
    <2>5. Settled' /\ NoUseAfterFree'
      BY <1>12 DEF Write, Settled, NoUseAfterFree
    <2> QED
      BY <2>2, <2>3, <2>4, <2>5
  <1>13. CASE Recheck
    BY <1>13, ListUntouched DEF Recheck, Open, list
  <1>14. CASE StartDelete
    BY <1>14, ListUntouched DEF StartDelete, Open, list
  <1>15. ASSUME NEW n \in Node, FreeFirst(n)
         PROVE  IInv'
    <2>1. Oldest(n) /\ heap[n] = "queued"
      BY <1>15 DEF FreeFirst, Anchored, Oldest, Queued
    <2>2. Queued' = Queued \ {n}
      BY <1>15 DEF FreeFirst, Queued, TypeOK
    <2>3. UNCHANGED <<ticket, next, issued>> /\ queued_out_messages' = next[n]
      BY <1>15 DEF FreeFirst
    <2>4. /\ Numbered' /\ Chained'
          /\ next[n] \in Node => Oldest(next[n])'
          /\ next[n] = PublishItem => Queued' = {}
      BY <2>1, <2>2, <2>3, Unlink
    <2>5. next[n] \in Node => Oldest(queued_out_messages)'
      BY <2>3, <2>4 DEF Oldest
    <2>6. Anchored'
      BY <1>15, <2>3, <2>4, <2>5 DEF FreeFirst, Anchored
    <2>7. InsertLocation' /\ Settled'
      BY <1>15 DEF FreeFirst, InsertLocation, Settled, Open
    <2>8. NoUseAfterFree'
      BY <1>15, <2>1 DEF FreeFirst, NoUseAfterFree
    <2> QED
      BY <2>4, <2>6, <2>7, <2>8
  <1>16. CASE FinishDelete
    <2>1. Queued' = {}
      BY <1>16 DEF FinishDelete, Queued
    <2>2. Numbered' /\ Chained'
      BY <2>1 DEF Numbered, Chained
    <2>3. Anchored'
      BY <1>16, <2>1, SentinelAssumption DEF FinishDelete, list, Anchored
    <2>4. InsertLocation' /\ Settled' /\ NoUseAfterFree'
      BY <1>16, <2>1
         DEF FinishDelete, InsertLocation, Settled, Open, NoUseAfterFree
    <2> QED
      BY <2>2, <2>3, <2>4
  <1>17. CASE SessionCreate
    <2>1. Queued' = {}
      BY <1>17 DEF SessionCreate, Queued, Settled
    <2>2. Numbered' /\ Chained'
      BY <2>1 DEF Numbered, Chained
    <2>3. next'[PublishItem] = PublishItem
      BY <1>17 DEF SessionCreate, TypeOK
    <2>4. Anchored' /\ InsertLocation' /\ Settled' /\ NoUseAfterFree'
      BY <1>17, <2>1, <2>3, SentinelAssumption
         DEF SessionCreate, Anchored, InsertLocation, Settled, NoUseAfterFree
    <2> QED
      BY <2>2, <2>4
  <1>18. CASE UNCHANGED vars
    BY <1>18, ListUntouched DEF vars, list, Open
  <1> QED
    BY <1>1, <1>2, <1>3, <1>4, <1>5, <1>6, <1>7, <1>8, <1>9, <1>10, <1>11,
       <1>12, <1>13, <1>14, <1>15, <1>16, <1>17, <1>18
       DEF NextOrdered, Accept, Other, Service, Delete

(* Under the callers' order the inductive invariant holds throughout.      *)
THEOREM InvCorrect == OrderedSpec => []IInv
  <1>1. Init => IInv
    BY InvInit
  <1>2. IInv /\ [NextOrdered]_vars => IInv'
    BY InvStep
  <1> QED
    BY <1>1, <1>2, PTL DEF OrderedSpec

(* Under the callers' order the linked list is always the queue it stands  *)
(* for.                                                                    *)
THEOREM ListCorrect == OrderedSpec => []Represents
  <1>1. ASSUME IInv, Open, ~kill
        PROVE  /\ IF Queued = {} THEN queued_out_messages = PublishItem
                                 ELSE Oldest(queued_out_messages)
               /\ next[PublishItem] = PublishItem
               /\ Chained
    BY <1>1 DEF IInv, TypeOK, Anchored, Oldest
  <1>2. ASSUME IInv, Open, ~kill, publish_queue = <<>>
        PROVE  IF Queued = {} THEN queued_out_message_insert_location = ListHead
               ELSE \E n \in Queued :
                      /\ queued_out_message_insert_location = n
                      /\ next[n] = PublishItem
    BY <1>2 DEF IInv, TypeOK, InsertLocation
  <1>3. IInv => Represents
    BY <1>1, <1>2 DEF Represents, Chained
  <1> QED
    BY <1>3, InvCorrect, PTL

(* Under the callers' order no freed message is touched.                   *)
THEOREM MemorySafe == OrderedSpec => []NoUseAfterFree
  <1>1. IInv => NoUseAfterFree
    BY DEF IInv
  <1> QED
    BY <1>1, InvCorrect, PTL

-----------------------------------------------------------------------------
(* Which steps change the state of a cell, or shorten the queue of the     *)
(* notifications while a message is handed out.                            *)
LEMMA HandingOut ==
    ASSUME IInv, [NextOrdered]_vars, NEW n \in Node, heap[n] # "out", heap'[n] = "out"
    PROVE  CreateResult(n)
  <1> USE DEF IInv, TypeOK
  <1>1. ASSUME NEW m \in Node, NEW k \in 0..MaxBlocked, ReleaseResult(m, k)
        PROVE  FALSE
    BY <1>1 DEF ReleaseResult
  <1>2. ASSUME heap' = heap
        PROVE  FALSE
    BY <1>2
  <1>3. CASE CreateKilled
    BY <1>3 DEF CreateKilled
  <1>4. ASSUME NEW first \in Node, CreateResult(first)
        PROVE  CreateResult(n)
    BY <1>4 DEF CreateResult
  <1>5. CASE Write
    BY <1>5 DEF Write
  <1>6. ASSUME NEW m \in Node, FreeFirst(m)
        PROVE  FALSE
    BY <1>6 DEF FreeFirst
  <1>7. CASE FinishDelete
    BY <1>7 DEF FinishDelete
  <1>8. ASSUME NEW k \in 0..MaxBlocked, ReleaseResultFails(k)
        PROVE  FALSE
    BY <1>2, <1>8 DEF ReleaseResultFails, cells
  <1>9. ASSUME NEW count \in 1..MaxSlots, AddFreePublishSlots(count)
        PROVE  FALSE
    BY <1>2, <1>9 DEF AddFreePublishSlots, cells
  <1>10. ASSUME NEW first \in Node, CreateFromFreed(first)
         PROVE  FALSE
    BY <1>2, <1>10 DEF CreateFromFreed, cells
  <1>11. ASSUME \/ Publish \/ PublishFails \/ NothingToWrite \/ CreatePublish
                \/ CreatePublishFails \/ Recheck \/ StartDelete
                \/ SessionCreate \/ UNCHANGED vars
         PROVE  FALSE
    BY <1>2, <1>11
       DEF Publish, PublishFails, NothingToWrite, CreatePublish,
           CreatePublishFails, Recheck, StartDelete, SessionCreate, vars, cells
  <1> QED
    BY <1>1, <1>3, <1>4, <1>5, <1>6, <1>7, <1>8, <1>9, <1>10, <1>11
       DEF NextOrdered, Accept, Other, Service, Delete

(* Under the callers' order results leave in the order they were accepted. *)
THEOREM OldestFirst == OrderedSpec => HandsOutOldest
  <1>1. ASSUME IInv, [NextOrdered]_vars, NEW n \in Node,
               heap[n] # "out" /\ heap'[n] = "out"
        PROVE  Oldest(n)
    <2>1. CreateResult(n)
      BY <1>1, HandingOut
    <2> QED
      BY <1>1, <2>1 DEF CreateResult, CreateBegin, IInv, Anchored
  <1>2. IInv /\ [NextOrdered]_vars =>
          [\A n \in Node : heap[n] # "out" /\ heap'[n] = "out" => Oldest(n)]_vars
    BY <1>1
  <1> QED
    BY <1>2, InvCorrect, PTL DEF OrderedSpec, HandsOutOldest

(* Under the callers' order a message is only lost with a killed session.  *)
THEOREM LostOnlyWhenKilled == OrderedSpec => NothingLost
  <1>1. ASSUME IInv, [NextOrdered]_vars, NEW n \in Node,
               heap[n] # "lost" /\ heap'[n] = "lost"
        PROVE  kill
    <2> USE <1>1 DEF IInv, TypeOK
    <2>1. ASSUME NEW m \in Node, NEW k \in 0..MaxBlocked, ReleaseResult(m, k)
          PROVE  FALSE
      BY <2>1 DEF ReleaseResult
    <2>2. ASSUME heap' = heap
          PROVE  FALSE
      BY <2>2
    <2>3. CASE CreateKilled
      BY <2>3 DEF CreateKilled
    <2>4. ASSUME NEW first \in Node, CreateResult(first)
          PROVE  FALSE
      BY <2>4 DEF CreateResult
    <2>5. CASE Write
      BY <2>5 DEF Write
    <2>6. ASSUME NEW m \in Node, FreeFirst(m)
          PROVE  FALSE
      BY <2>6 DEF FreeFirst
    <2>7. CASE FinishDelete
      BY <2>7 DEF FinishDelete, Anchored, Queued
    <2>8. ASSUME NEW k \in 0..MaxBlocked, ReleaseResultFails(k)
          PROVE  FALSE
      BY <2>2, <2>8 DEF ReleaseResultFails, cells
    <2>9. ASSUME NEW count \in 1..MaxSlots, AddFreePublishSlots(count)
          PROVE  FALSE
      BY <2>2, <2>9 DEF AddFreePublishSlots, cells
    <2>10. ASSUME NEW first \in Node, CreateFromFreed(first)
           PROVE  FALSE
      BY <2>2, <2>10 DEF CreateFromFreed, cells
    <2>11. ASSUME \/ Publish \/ PublishFails \/ NothingToWrite \/ CreatePublish
                  \/ CreatePublishFails \/ Recheck \/ StartDelete
                  \/ SessionCreate \/ UNCHANGED vars
           PROVE  FALSE
      BY <2>2, <2>11
         DEF Publish, PublishFails, NothingToWrite, CreatePublish,
             CreatePublishFails, Recheck, StartDelete, SessionCreate, vars, cells
    <2> QED
      BY <2>1, <2>3, <2>4, <2>5, <2>6, <2>7, <2>8, <2>9, <2>10, <2>11
         DEF NextOrdered, Accept, Other, Service, Delete
  <1>2. IInv /\ [NextOrdered]_vars =>
          [\A n \in Node : heap[n] # "lost" /\ heap'[n] = "lost" => kill]_vars
    BY <1>1
  <1> QED
    BY <1>2, InvCorrect, PTL DEF OrderedSpec, NothingLost

(* Under the callers' order no notification overtakes a result that was    *)
(* accepted before it: a publish message is only made when no result is    *)
(* queued at all.                                                          *)
THEOREM NotesAnnounced == OrderedSpec => AnnouncedFirst
  <1> DEFINE A == \A i \in 1..Len(publish_queue) - Len(publish_queue') :
                     writer' = "sending" =>
                       \A n \in Queued : publish_queue[i] < ticket[n]
  <1>1. ASSUME IInv, [NextOrdered]_vars
        PROVE  A \/ UNCHANGED vars
    <2> USE <1>1 DEF IInv, TypeOK
    <2>0. Len(publish_queue) \in Nat
      BY LenProperties
    <2>1. ASSUME Len(publish_queue') \in Nat, Len(publish_queue') >= Len(publish_queue)
          PROVE  A
      BY <2>0, <2>1
    <2>2. ASSUME NEW n \in Node, NEW k \in 0..MaxBlocked, ReleaseResult(n, k)
          PROVE  A
      <3>1. Len(publish_queue') = Len(publish_queue) + k /\ k \in Nat
        BY <2>2, BlockedNotes, BoundsAssumption DEF ReleaseResult
      <3> QED
        BY <2>0, <2>1, <3>1
    <2>3. ASSUME NEW k \in 0..MaxBlocked, ReleaseResultFails(k)
          PROVE  A
      <3>1. Len(publish_queue') = Len(publish_queue) + k /\ k \in Nat
        BY <2>3, BlockedNotes, BoundsAssumption DEF ReleaseResultFails
      <3> QED
        BY <2>0, <2>1, <3>1
    <2>4. CASE Publish
      <3>1. Len(publish_queue') = Len(publish_queue) + 1
        BY <2>4 DEF Publish
      <3> QED
        BY <2>0, <2>1, <3>1
    <2>5. CASE CreatePublish
      BY <2>5 DEF CreatePublish, CreateBegin, Anchored
    <2>6. ASSUME writer' # "sending"
          PROVE  A
      BY <2>6
    <2>7. CASE publish_queue' = publish_queue
      BY <2>0, <2>1, <2>7
    <2>8. CASE FinishDelete \/ SessionCreate
      BY <2>6, <2>8 DEF FinishDelete, SessionCreate
    <2>9. ASSUME NEW count \in 1..MaxSlots, AddFreePublishSlots(count)
          PROVE  A
      BY <2>7, <2>9 DEF AddFreePublishSlots
    <2>10. ASSUME NEW n \in Node, CreateResult(n) \/ CreateFromFreed(n) \/ FreeFirst(n)
           PROVE  A
      BY <2>7, <2>10 DEF CreateResult, CreateFromFreed, FreeFirst
    <2>11. CASE PublishFails \/ NothingToWrite \/ CreateKilled \/ CreatePublishFails
      BY <2>7, <2>11 DEF PublishFails, NothingToWrite, CreateKilled, CreatePublishFails
    <2>12. CASE Write \/ Recheck \/ StartDelete
      BY <2>7, <2>12 DEF Write, Recheck, StartDelete
    <2> QED
      BY <2>2, <2>3, <2>4, <2>5, <2>8, <2>9, <2>10, <2>11, <2>12
         DEF NextOrdered, Accept, Other, Service, Delete
  <1>2. IInv /\ [NextOrdered]_vars => [A]_vars
    BY <1>1
  <1> QED
    BY <1>2, InvCorrect, PTL DEF OrderedSpec, AnnouncedFirst

-----------------------------------------------------------------------------
(***************************************************************************)
(* The refinement of the channel.                                          *)
(***************************************************************************)
(* The results the channel holds.                                          *)
Pending == {ticket[n] : n \in Queued}

(* A step that leaves the queued results alone leaves what the channel     *)
(* holds.                                                                  *)
LEMMA PendingSame ==
    ASSUME Queued' = Queued, ticket' = ticket
    PROVE  Pending' = Pending
  BY DEF Pending

(* Handing out a result takes its number from the channel.                 *)
LEMMA PendingUnlink ==
    ASSUME IInv, NEW n, Oldest(n), Queued' = Queued \ {n}, ticket' = ticket
    PROVE  /\ ticket[n] \in Pending
           /\ \A r \in Pending : ticket[n] <= r
           /\ Pending' = Pending \ {ticket[n]}
  <1>1. n \in Queued /\ \A m \in Queued : ticket[m] = ticket[n] => m = n
    BY DEF Oldest, IInv, Numbered
  <1> QED
    BY <1>1 DEF Oldest, Pending

(* A new result adds its number to the channel.                            *)
LEMMA PendingLink ==
    ASSUME IInv, NEW n \in Node, heap[n] = "free",
           heap' = [heap EXCEPT ![n] = "queued"],
           ticket' = [ticket EXCEPT ![n] = issued + 1]
    PROVE  Pending' = Pending \cup {issued + 1}
  <1>1. Queued' = Queued \cup {n} /\ n \notin Queued
    BY DEF Queued, IInv, TypeOK
  <1>2. ticket'[n] = issued + 1 /\ \A m \in Queued : ticket'[m] = ticket[m]
    BY <1>1 DEF Queued, IInv, TypeOK
  <1> QED
    BY <1>1, <1>2 DEF Pending

(* A new session is an empty channel.                                      *)
LEMMA ChannelInit == Init => Channel!Init
  BY DEF Init, Channel!Init, Open, Queued

(* Every step of the callers and the writer is a step of the channel, or   *)
(* one it does not see.                                                    *)
LEMMA ChannelStep ==
    ASSUME IInv, IInv', [NextOrdered]_vars
    PROVE  [Channel!Next]_(Channel!vars)
  <1> USE DEF IInv, TypeOK
  <1>0. ASSUME UNCHANGED <<heap, ticket, publish_queue, kill, issued>>, Open' = Open
        PROVE  UNCHANGED Channel!vars
    BY <1>0 DEF Channel!vars, Queued
  <1>1. ASSUME NEW n \in Node, NEW k \in 0..MaxBlocked, ReleaseResult(n, k)
        PROVE  Channel!AcceptResult
    <2>1. Pending' = Pending \cup {issued + 1}
      BY <1>1, PendingLink DEF ReleaseResult
    <2>2. Open /\ Open'
      BY <1>1 DEF ReleaseResult, Open
    <2>3. /\ issued' = issued + 1
          /\ publish_queue' = publish_queue \o [i \in 1..k |-> issued + 1]
          /\ kill' = kill
      BY <1>1 DEF ReleaseResult
    <2> QED
      BY <2>1, <2>2, <2>3 DEF Channel!AcceptResult, Pending
  <1>2. ASSUME NEW k \in 0..MaxBlocked, ReleaseResultFails(k)
        PROVE  Channel!Fail
    <2>1. Pending' = Pending
      BY <1>2 DEF ReleaseResultFails, cells, Pending, Queued
    <2>2. Open /\ Open'
      BY <1>2 DEF ReleaseResultFails, Open
    <2>3. /\ issued' = issued
          /\ publish_queue' = publish_queue \o [i \in 1..k |-> issued]
          /\ kill' = TRUE
      BY <1>2 DEF ReleaseResultFails, cells
    <2> QED
      BY <2>1, <2>2, <2>3 DEF Channel!Fail, Pending
  <1>3. CASE Publish
    <2>1. Pending' = Pending
      BY <1>3 DEF Publish, cells, Pending, Queued
    <2>2. Open /\ Open'
      BY <1>3 DEF Publish, Open
    <2>3. publish_queue' = Append(publish_queue, issued) /\ UNCHANGED <<kill, issued>>
      BY <1>3 DEF Publish, cells
    <2> QED
      BY <2>1, <2>2, <2>3 DEF Channel!Next, Channel!AcceptNote, Pending
  <1>4. CASE PublishFails
    <2>1. Pending' = Pending
      BY <1>4 DEF PublishFails, cells, Pending, Queued
    <2>2. Open /\ Open'
      BY <1>4 DEF PublishFails, Open
    <2>3. publish_queue \o [i \in 1..0 |-> issued] = publish_queue
      BY ConcatEmptySeq
    <2>4. 0 \in 0..MaxBlocked
      BY BoundsAssumption
    <2>5. /\ kill' = TRUE /\ issued' = issued
          /\ publish_queue' = publish_queue \o [i \in 1..0 |-> issued]
      BY <1>4, <2>3 DEF PublishFails, cells
    <2>6. /\ Open' = Open /\ (IF Open' THEN Pending' ELSE {}) \subseteq
                              (IF Open THEN Pending ELSE {})
          /\ (IF Open' THEN publish_queue' ELSE <<>>) =
               (IF Open THEN publish_queue ELSE <<>>) \o [i \in 1..0 |-> issued]
      BY <2>1, <2>2, <2>5
    <2> QED
      BY <2>2, <2>4, <2>5, <2>6 DEF Channel!Next, Channel!Fail, Pending
  <1>5. CASE CreateKilled
    <2>1. Open /\ Open' /\ kill' = TRUE /\ UNCHANGED <<issued, publish_queue, ticket>>
      BY <1>5 DEF CreateKilled, CreateBegin, Writeable, Open
    <2>2. Pending' \subseteq Pending
      BY <1>5 DEF CreateKilled, Pending, Queued
    <2>3. publish_queue \o [i \in 1..0 |-> issued] = publish_queue
      BY ConcatEmptySeq
    <2>4. 0 \in 0..MaxBlocked
      BY BoundsAssumption
    <2>5. /\ (IF Open' THEN Pending' ELSE {}) \subseteq (IF Open THEN Pending ELSE {})
          /\ (IF Open' THEN publish_queue' ELSE <<>>) =
               (IF Open THEN publish_queue ELSE <<>>) \o [i \in 1..0 |-> issued]
      BY <2>1, <2>2, <2>3
    <2> QED
      BY <2>1, <2>4, <2>5 DEF Channel!Next, Channel!Fail, Pending
  <1>6. ASSUME NEW first \in Node, CreateResult(first)
        PROVE  Channel!DeliverResult
    <2>1. Oldest(first)
      BY <1>6 DEF CreateResult, CreateBegin, Anchored
    <2>2. Queued' = Queued \ {first} /\ ticket' = ticket
      BY <1>6 DEF CreateResult, Queued
    <2>3. /\ ticket[first] \in Pending
          /\ \A r \in Pending : ticket[first] <= r
          /\ Pending' = Pending \ {ticket[first]}
      BY <2>1, <2>2, PendingUnlink
    <2>4. Open /\ Open' /\ UNCHANGED <<kill, issued, publish_queue>>
      BY <1>6 DEF CreateResult, CreateBegin, Writeable, Open
    <2> QED
      BY <2>3, <2>4 DEF Channel!DeliverResult, Pending
  <1>7. CASE CreatePublish
    <2>1. Queued = {} /\ Queued' = {}
      BY <1>7 DEF CreatePublish, CreateBegin, Anchored, cells, Queued
    <2>2. Open /\ Open' /\ UNCHANGED <<kill, issued>>
      BY <1>7 DEF CreatePublish, CreateBegin, Writeable, Open, cells
    <2>3. ItemCount \in 1..Len(publish_queue)
      <3>1. publish_queue # <<>> /\ free_publish_slots # 0
        BY <1>7 DEF CreatePublish, CreateBegin, HasOutMessage, HasSendablePublishItem
      <3> QED
        BY <3>1, ItemCountType, EmptySeq, BoundsAssumption DEF ItemCount
    <2>4. publish_queue' = SubSeq(publish_queue, ItemCount + 1, Len(publish_queue))
      BY <1>7 DEF CreatePublish
    <2>5. \A i \in 1..ItemCount : \A r \in {ticket[n] : n \in Queued} :
            publish_queue[i] < r
      BY <2>1
    <2>6. {ticket'[n] : n \in Queued'} = {ticket[n] : n \in Queued}
      BY <2>1
    <2> QED
      BY <2>2, <2>3, <2>4, <2>5, <2>6 DEF Channel!Next, Channel!DeliverNotes
  <1>8. CASE StartDelete
    <2>1. Open /\ ~Open' /\ UNCHANGED <<kill, issued>>
      BY <1>8 DEF StartDelete, Open, cells
    <2> QED
      BY <2>1 DEF Channel!Next, Channel!Close
  <1>9. CASE SessionCreate
    <2>1. /\ ~Open /\ Open' /\ kill' = FALSE /\ issued' = 0 /\ publish_queue' = <<>>
          /\ Queued' = {}
      BY <1>9 DEF SessionCreate, Open, Settled, Queued
    <2> QED
      BY <2>1 DEF Channel!Next, Channel!Reopen
  <1>10. CASE Write
    <2>1. Queued' = Queued /\ ticket' = ticket
      BY <1>10 DEF Write, Queued
    <2>2. Pending' = Pending
      BY <2>1, PendingSame
    <2>3. UNCHANGED <<kill, issued, publish_queue>> /\ Open /\ Open'
      BY <1>10 DEF Write, Open
    <2> QED
      BY <2>2, <2>3 DEF Channel!vars, Pending
  <1>11. ASSUME NEW n \in Node, FreeFirst(n)
         PROVE  UNCHANGED Channel!vars
    BY <1>11 DEF FreeFirst, Open, Channel!vars
  <1>12. CASE FinishDelete
    BY <1>12 DEF FinishDelete, Open, Channel!vars
  <1>13. ASSUME NEW count \in 1..MaxSlots, AddFreePublishSlots(count)
         PROVE  UNCHANGED Channel!vars
    BY <1>0, <1>13 DEF AddFreePublishSlots, cells, Open
  <1>14. ASSUME NEW first \in Node, CreateFromFreed(first)
         PROVE  FALSE
    BY <1>14 DEF CreateFromFreed, NoUseAfterFree
  <1>15. CASE NothingToWrite \/ CreatePublishFails \/ Recheck
    BY <1>0, <1>15
       DEF NothingToWrite, CreatePublishFails, CreateBegin, Recheck, Writeable, cells, Open
  <1>16. CASE UNCHANGED vars
    BY <1>0, <1>16 DEF vars, cells, Open
  <1> QED
    BY <1>1, <1>2, <1>3, <1>4, <1>5, <1>6, <1>7, <1>8, <1>9, <1>10, <1>11,
       <1>12, <1>13, <1>14, <1>15, <1>16
       DEF NextOrdered, Accept, Other, Service, Delete, Channel!Next

(* Under the callers' order the list is the channel: every accepted result *)
(* is handed out once, in order, and no notification before its result.    *)
THEOREM Implementation == OrderedSpec => ImplementsChannel
  <1>1. Init => Channel!Init
    BY ChannelInit
  <1>2. IInv /\ IInv' /\ [NextOrdered]_vars => [Channel!Next]_(Channel!vars)
    BY ChannelStep
  <1> QED
    BY <1>1, <1>2, InvCorrect, PTL DEF OrderedSpec, ImplementsChannel, Channel!Spec
=============================================================================
