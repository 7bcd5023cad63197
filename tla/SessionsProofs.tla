--------------------------- MODULE SessionsProofs ---------------------------
(***************************************************************************)
(* No subscription is freed while it is used or leaked when it is not, no  *)
(* answer misses its result, and blocked_items does not overflow, whatever *)
(* client and application do, for any number of sessions, subscriptions,   *)
(* items and messages.                                                     *)
(***************************************************************************)
EXTENDS Sessions, SequenceTheorems, FiniteSetTheorems, WellFoundedInduction, TLAPS

(* Only one loop calls the application: the one over the items of a        *)
(* message, or the one over the publish items of a session.                *)
OneLoop == handling = Null \/ deleting = Null

(* The loops count down: what they asked is numbered above what they still *)
(* have to ask.                                                            *)
HandlingOK ==
    handling # Null =>
        /\ result[handling.result] # Null
        /\ \A p \in pending : p.result = handling.result => p.n > handling.todo

DeletingOK ==
    deleting # Null =>
        /\ Used(deleting.session) # {}
        /\ result[deleting.result] # Null
        /\ \A r \in Result : result[r] # Null => result[r].session # deleting.session
        /\ \A p \in pending : p.result = deleting.result =>
             p.n > Cardinality(Used(deleting.session))

Counted ==
    /\ OneLoop
    /\ HandlingOK
    /\ DeletingOK
    /\ Asked
    /\ AnswersCounted

(* blocked_items is empty until it is allocated.                           *)
Unallocated ==
    \A r \in Result : result[r] # Null /\ result[r].room = 0 =>
        result[r].blocked = <<>>

Room == RoomLeft /\ Unallocated

(* The inductive invariant.                                                *)
IInv ==
    /\ CellsOK
    /\ Counted
    /\ Room
    /\ Placed
    /\ NotFreedEarly

-----------------------------------------------------------------------------
(* Counting.                                                               *)

(* A set of numbers that is not empty has a least element.                 *)
LEMMA MinInSet ==
    ASSUME NEW S \in SUBSET Nat, S # {}
    PROVE  Min(S) \in S
<1> DEFINE R == {ss \in Nat \X Nat : ss[1] < ss[2]}
<1>1. IsWellFoundedOn(R, Nat)
  BY NatLessThanWellFounded, Zenon DEF OpToRel
<1>2. PICK x \in S : \A y \in S : ~ (<<y, x>> \in R)
  <2> HIDE DEF R
  <2> QED
    BY <1>1, WFMin, Zenon
<1>3. \A y \in S : x <= y
  <2> TAKE y \in S
  <2>1. ~ (<<y, x>> \in R)
    BY <1>2
  <2> QED
    BY <2>1
<1> QED
  BY <1>3 DEF Min

OfResult(P, r) == {p \in P : p.result = r}
OfKey(P, k) == {p \in P : p.key = k}
Points(f, k) == {i \in Item : f[i] # Null /\ f[i].key = k}

(* One more item to answer is one more for its result and its key.         *)
LEMMA AskedMore ==
    ASSUME NEW P, IsFiniteSet(P), NEW q, q \notin P
    PROVE  /\ IsFiniteSet(P \cup {q})
           /\ \A r : /\ Cardinality(OfResult(P, r)) \in Nat
                     /\ Cardinality(OfResult(P \cup {q}, r)) =
                          Cardinality(OfResult(P, r)) + (IF q.result = r THEN 1 ELSE 0)
           /\ \A k : /\ Cardinality(OfKey(P, k)) \in Nat
                     /\ Cardinality(OfKey(P \cup {q}, k)) =
                          Cardinality(OfKey(P, k)) + (IF q.key = k THEN 1 ELSE 0)
<1>1. IsFiniteSet(P \cup {q})
  BY FS_AddElement
<1>2. ASSUME NEW r
      PROVE  /\ Cardinality(OfResult(P, r)) \in Nat
             /\ Cardinality(OfResult(P \cup {q}, r)) =
                  Cardinality(OfResult(P, r)) + (IF q.result = r THEN 1 ELSE 0)
  <2>1. IsFiniteSet(OfResult(P, r)) /\ q \notin OfResult(P, r)
    BY FS_Subset DEF OfResult
  <2>2. OfResult(P \cup {q}, r) =
          IF q.result = r THEN OfResult(P, r) \cup {q} ELSE OfResult(P, r)
    BY DEF OfResult
  <2> QED
    BY <2>1, <2>2, FS_AddElement, FS_CardinalityType
<1>3. ASSUME NEW k
      PROVE  /\ Cardinality(OfKey(P, k)) \in Nat
             /\ Cardinality(OfKey(P \cup {q}, k)) =
                  Cardinality(OfKey(P, k)) + (IF q.key = k THEN 1 ELSE 0)
  <2>1. IsFiniteSet(OfKey(P, k)) /\ q \notin OfKey(P, k)
    BY FS_Subset DEF OfKey
  <2>2. OfKey(P \cup {q}, k) =
          IF q.key = k THEN OfKey(P, k) \cup {q} ELSE OfKey(P, k)
    BY DEF OfKey
  <2> QED
    BY <2>1, <2>2, FS_AddElement, FS_CardinalityType
<1> QED
  BY <1>1, <1>2, <1>3

(* One item less to answer is one less for its result and its key.         *)
LEMMA AskedLess ==
    ASSUME NEW P, IsFiniteSet(P), NEW q \in P
    PROVE  /\ IsFiniteSet(P \ {q})
           /\ \A r : /\ Cardinality(OfResult(P \ {q}, r)) \in Nat
                     /\ Cardinality(OfResult(P, r)) =
                          Cardinality(OfResult(P \ {q}, r)) + (IF q.result = r THEN 1 ELSE 0)
           /\ \A k : /\ Cardinality(OfKey(P \ {q}, k)) \in Nat
                     /\ Cardinality(OfKey(P, k)) =
                          Cardinality(OfKey(P \ {q}, k)) + (IF q.key = k THEN 1 ELSE 0)
<1> DEFINE Q == P \ {q}
<1>1. IsFiniteSet(Q) /\ q \notin Q /\ Q \cup {q} = P
  BY FS_RemoveElement
<1> HIDE DEF Q
<1>2. /\ \A r : /\ Cardinality(OfResult(Q, r)) \in Nat
                 /\ Cardinality(OfResult(Q \cup {q}, r)) =
                      Cardinality(OfResult(Q, r)) + (IF q.result = r THEN 1 ELSE 0)
      /\ \A k : /\ Cardinality(OfKey(Q, k)) \in Nat
                 /\ Cardinality(OfKey(Q \cup {q}, k)) =
                      Cardinality(OfKey(Q, k)) + (IF q.key = k THEN 1 ELSE 0)
  BY <1>1, AskedMore
<1> QED
  BY <1>1, <1>2 DEF Q

Cells == [Item -> PublishItem \cup {Null}]

(* A new publish item is one more for its subscription.                    *)
LEMMA PointsMore ==
    ASSUME NEW f \in Cells, NEW i \in Item, f[i] = Null, NEW c \in PublishItem,
           NEW k
    PROVE  /\ [f EXCEPT ![i] = c] \in Cells
           /\ Cardinality(Points(f, k)) \in Nat
           /\ Cardinality(Points([f EXCEPT ![i] = c], k)) =
                Cardinality(Points(f, k)) + (IF c.key = k THEN 1 ELSE 0)
<1> USE SessionsAssumption DEF Cells
<1>1. IsFiniteSet(Points(f, k)) /\ i \notin Points(f, k)
  BY FS_Subset DEF Points
<1>2. Points([f EXCEPT ![i] = c], k) =
        IF c.key = k THEN Points(f, k) \cup {i} ELSE Points(f, k)
  BY DEF Points
<1>3. [f EXCEPT ![i] = c] \in Cells
  OBVIOUS
<1>4. Cardinality(Points(f, k)) \in Nat
  BY <1>1, FS_CardinalityType
<1>5. Cardinality(Points(f, k) \cup {i}) = Cardinality(Points(f, k)) + 1
  <2> HIDE DEF Cells
  <2> QED
    BY <1>1, FS_AddElement
<1> QED
  BY <1>2, <1>3, <1>4, <1>5

(* A publish item that is released is one less for its subscription.       *)
LEMMA PointsLess ==
    ASSUME NEW f \in Cells, NEW i \in Item, f[i] # Null, NEW k
    PROVE  /\ [f EXCEPT ![i] = Null] \in Cells
           /\ Cardinality(Points([f EXCEPT ![i] = Null], k)) \in Nat
           /\ Cardinality(Points(f, k)) =
                Cardinality(Points([f EXCEPT ![i] = Null], k))
                + (IF f[i].key = k THEN 1 ELSE 0)
<1> DEFINE g == [f EXCEPT ![i] = Null]
<1>1. g \in Cells /\ g[i] = Null /\ f = [g EXCEPT ![i] = f[i]] /\ f[i] \in PublishItem
  BY DEF Cells
<1> HIDE DEF g
<1> QED
  BY <1>1, PointsMore DEF g

(* The same publish items, announced or not.                               *)
Alike(f, g) ==
    /\ f \in Cells
    /\ \A i \in Item : /\ f[i] = Null <=> g[i] = Null
                       /\ g[i] # Null => /\ f[i].key = g[i].key
                                         /\ f[i].session = g[i].session
                                         /\ f[i].id = g[i].id

LEMMA AnnouncedAlike ==
    ASSUME NEW f \in Cells, NEW r
    PROVE  Alike(WithAnnounced(f, r), f) /\ Alike(f, f)
<1> USE SessionsAssumption DEF Cells
<1>1. ASSUME NEW i \in Item, f[i] # Null
      PROVE  /\ [f[i] EXCEPT !.by = Null] \in PublishItem
             /\ [f[i] EXCEPT !.by = Null].key = f[i].key
             /\ [f[i] EXCEPT !.by = Null].session = f[i].session
             /\ [f[i] EXCEPT !.by = Null].id = f[i].id
  BY <1>1 DEF PublishItem
<1> QED
  BY <1>1 DEF WithAnnounced, Alike

-----------------------------------------------------------------------------
(* Answers and questions.                                                  *)

(* The ids in use are finitely many.                                       *)
LEMMA UsedFinite ==
    ASSUME CellsOK, NEW s \in Session
    PROVE  /\ Used(s) \subseteq Nat \ {0}
           /\ \A id \in Used(s) : publish_items[s][id] \in Item
           /\ IsFiniteSet(Used(s))
           /\ Cardinality(Used(s)) \in Nat
           /\ Cardinality(Used(s)) = 0 <=> Used(s) = {}
<1>1. publish_items[s] \in Seq(Item \cup {Null})
  BY DEF CellsOK
<1>2. /\ DOMAIN publish_items[s] = 1..Len(publish_items[s])
      /\ Len(publish_items[s]) \in Nat
      /\ \A id \in 1..Len(publish_items[s]) : publish_items[s][id] \in Item \cup {Null}
  BY <1>1
<1>3. IsFiniteSet(1..Len(publish_items[s]))
  BY <1>2, FS_Interval
<1>4. Used(s) \in SUBSET (1..Len(publish_items[s]))
  BY <1>2 DEF Used
<1>5. IsFiniteSet(Used(s))
  BY <1>3, <1>4, FS_Subset
<1>6. /\ Cardinality(Used(s)) \in Nat
      /\ Cardinality(Used(s)) = 0 <=> Used(s) = {}
  BY <1>5, FS_CardinalityType, FS_EmptySet
<1>7. /\ Used(s) \subseteq Nat \ {0}
      /\ \A id \in Used(s) : publish_items[s][id] \in Item
  BY <1>2, <1>4 DEF Used
<1> QED
  BY <1>5, <1>6, <1>7

(* A loop that is there has something to ask.                              *)
LEMMA ToAskPositive ==
    ASSUME CellsOK, DeletingOK, NEW r
    PROVE  /\ ToAsk(r) \in Nat
           /\ handling # Null /\ handling.result = r => ToAsk(r) > 0
           /\ deleting # Null /\ deleting.result = r => ToAsk(r) > 0
<1>1. handling # Null => handling.todo \in Nat \ {0}
  BY DEF CellsOK, Handling
<1>2. deleting # Null => /\ Cardinality(Used(deleting.session)) \in Nat
                         /\ Cardinality(Used(deleting.session)) > 0
  <2>1. deleting # Null => deleting.session \in Session
    BY DEF CellsOK, Deleting
  <2> QED
    BY <2>1, UsedFinite DEF DeletingOK
<1> QED
  BY <1>1, <1>2 DEF ToAsk

(* The tables of the session that is being deleted are not touched.        *)
DeletedKept ==
    deleting # Null => publish_items'[deleting.session] = publish_items[deleting.session]

LEMMA ToAskKept ==
    ASSUME UNCHANGED <<handling, deleting>>, DeletedKept
    PROVE  /\ \A r : ToAsk(r)' = ToAsk(r)
           /\ deleting # Null => Used(deleting.session)' = Used(deleting.session)
<1>1. deleting # Null => Used(deleting.session)' = Used(deleting.session)
  BY DEF Used, DeletedKept
<1> QED
  BY <1>1 DEF ToAsk

(* An answer is counted, and is the last one when nothing is asked any     *)
(* more with its result; blocked_items may have got one item.              *)
LEMMA AnswerCounts ==
    ASSUME IInv, NEW p \in pending, NEW res \in ResultCell, NEW items,
           res.session = result[p.result].session,
           res.remaining = result[p.result].remaining,
           res.room # 0 => Len(res.blocked) + res.remaining <= res.room + 1,
           res.room = 0 => res.blocked = <<>>,
           Answer(p, res, items), UNCHANGED <<handling, deleting>>, DeletedKept
    PROVE  /\ Counted'
           /\ Room'
           /\ result' \in [Result -> ResultCell \cup {Null}]
           /\ pending' \subseteq Owed /\ IsFiniteSet(pending')
<1> DEFINE r == p.result
<1>1. /\ CellsOK /\ Counted /\ Room
      /\ r \in Result /\ result[r] # Null /\ result[r] \in ResultCell
      /\ pending' = pending \ {p} /\ IsFiniteSet(pending)
  BY DEF IInv, CellsOK, Counted, Asked, Owed, Answer
<1>2. /\ IsFiniteSet(pending')
      /\ \A q \in Result :
           /\ Cardinality(OfResult(pending', q)) \in Nat
           /\ Cardinality(OfResult(pending, q)) =
                Cardinality(OfResult(pending', q)) + (IF r = q THEN 1 ELSE 0)
  <2>1. /\ IsFiniteSet(pending \ {p})
        /\ \A q : /\ Cardinality(OfResult(pending \ {p}, q)) \in Nat
                  /\ Cardinality(OfResult(pending, q)) =
                       Cardinality(OfResult(pending \ {p}, q))
                       + (IF p.result = q THEN 1 ELSE 0)
    BY <1>1, AskedLess
  <2> QED
    BY <1>1, <2>1
<1>3. /\ \A q : ToAsk(q)' = ToAsk(q)
      /\ deleting # Null => Used(deleting.session)' = Used(deleting.session)
  BY ToAskKept
<1>4. \A q : ToAsk(q) \in Nat
  BY <1>1, ToAskPositive DEF Counted
<1>5. \A q \in Result : result[q] # Null =>
        result[q].remaining = Cardinality(OfResult(pending, q)) + ToAsk(q)
  BY <1>1 DEF Counted, AnswersCounted, OfResult
<1>9. /\ Cardinality(OfResult(pending', r)) \in Nat /\ ToAsk(r) \in Nat
      /\ res.remaining = Cardinality(OfResult(pending', r)) + 1 + ToAsk(r)
  <2>1. /\ Cardinality(OfResult(pending', r)) \in Nat /\ ToAsk(r) \in Nat
        /\ Cardinality(OfResult(pending, r)) = Cardinality(OfResult(pending', r)) + 1
    BY <1>1, <1>2, <1>4
  <2>2. res.remaining = Cardinality(OfResult(pending, r)) + ToAsk(r)
    BY <1>1, <1>5
  <2> HIDE DEF r
  <2> QED
    BY <2>1, <2>2
<1>6. CASE res.remaining > 1
  <2> DEFINE new == [res EXCEPT !.remaining = @ - 1]
  <2>1. result' = [result EXCEPT ![r] = new]
    BY <1>6 DEF Answer
  <2>2. /\ new \in ResultCell /\ new # Null
        /\ new.session = res.session /\ new.remaining = res.remaining - 1
        /\ new.room = res.room /\ new.blocked = res.blocked
        /\ Len(res.blocked) \in Nat /\ res.remaining \in Nat /\ res.room \in Nat
    BY <1>6, SessionsAssumption DEF ResultCell
  <2> HIDE DEF new
  <2>3. /\ result' \in [Result -> ResultCell \cup {Null}]
        /\ \A q \in Result : result'[q] = IF q = r THEN new ELSE result[q]
    BY <1>1, <2>1, <2>2 DEF CellsOK
  <2>4. AnswersCounted'
    <3> SUFFICES ASSUME NEW q \in Result, result'[q] # Null
                 PROVE  result'[q].remaining =
                          Cardinality(OfResult(pending', q)) + ToAsk(q)'
      BY DEF AnswersCounted, OfResult
    <3>1. CASE q = r
      <4>1. result'[q].remaining = res.remaining - 1 /\ ToAsk(q)' = ToAsk(r)
        BY <3>1, <1>3, <2>2, <2>3
      <4> QED
        BY <3>1, <4>1, <1>9
    <3>2. CASE q # r
      BY <3>2, <1>2, <1>3, <1>4, <1>5, <2>3
    <3> QED
      BY <3>1, <3>2
  <2>5. OneLoop' /\ HandlingOK' /\ Asked'
    BY <1>1, <2>2, <2>3 DEF Counted, OneLoop, HandlingOK, Asked, CellsOK,
       Owed, Handling
  <2>6. DeletingOK'
    BY <1>1, <1>3, <2>2, <2>3 DEF Counted, DeletingOK, CellsOK, Deleting
  <2>7. Room'
    <3> SUFFICES ASSUME NEW q \in Result, result'[q] # Null
                 PROVE  /\ result'[q].room # 0 =>
                             Len(result'[q].blocked) + result'[q].remaining
                               <= result'[q].room
                        /\ result'[q].room = 0 => result'[q].blocked = <<>>
      BY DEF Room, RoomLeft, Unallocated
    <3>1. CASE q = r
      <4>1. /\ result'[q].remaining = res.remaining - 1
            /\ result'[q].room = res.room /\ result'[q].blocked = res.blocked
        BY <3>1, <2>2, <2>3
      <4>2. res.room # 0 => Len(res.blocked) + (res.remaining - 1) <= res.room
        BY <2>2
      <4> QED
        BY <4>1, <4>2
    <3>2. CASE q # r
      BY <3>2, <1>1, <2>3 DEF Room, RoomLeft, Unallocated
    <3> QED
      BY <3>1, <3>2
  <2> QED
    BY <1>1, <1>2, <2>3, <2>4, <2>5, <2>6, <2>7 DEF Counted, CellsOK
<1>7. CASE res.remaining = 1
  <2>1. result' = [result EXCEPT ![r] = Null]
    BY <1>7 DEF Answer
  <2>2. /\ result' \in [Result -> ResultCell \cup {Null}]
        /\ \A q \in Result : result'[q] = IF q = r THEN Null ELSE result[q]
    BY <1>1, <2>1 DEF CellsOK
  <2>3. Cardinality(OfResult(pending', r)) = 0 /\ ToAsk(r) = 0
    BY <1>9, <1>7
  <2>4. \A q \in pending' : q.result # r
    <3>1. IsFiniteSet(OfResult(pending', r))
      BY <1>2, FS_Subset DEF OfResult
    <3>2. OfResult(pending', r) = {}
      BY <2>3, <3>1, FS_EmptySet
    <3> QED
      BY <3>2 DEF OfResult
  <2>5. /\ handling # Null => handling.result # r
        /\ deleting # Null => deleting.result # r
    BY <1>1, <2>3, ToAskPositive DEF Counted
  <2>6. AnswersCounted'
    <3> SUFFICES ASSUME NEW q \in Result, result'[q] # Null
                 PROVE  result'[q].remaining =
                          Cardinality(OfResult(pending', q)) + ToAsk(q)'
      BY DEF AnswersCounted, OfResult
    <3> QED
      BY <1>2, <1>3, <1>4, <1>5, <2>2
  <2>7. OneLoop' /\ HandlingOK' /\ Asked'
    BY <1>1, <2>2, <2>4, <2>5 DEF Counted, OneLoop, HandlingOK, Asked, CellsOK,
       Owed, Handling
  <2>8. DeletingOK'
    BY <1>1, <1>3, <2>2, <2>5 DEF Counted, DeletingOK, CellsOK, Deleting
  <2>9. Room'
    BY <1>1, <2>2 DEF Room, RoomLeft, Unallocated
  <2> QED
    BY <1>1, <1>2, <2>2, <2>6, <2>7, <2>8, <2>9 DEF Counted, CellsOK
<1> QED
  BY <1>6, <1>7 DEF Answer

(* A question of the loop over a message is one the result waits for.      *)
LEMMA QuestionCounts ==
    ASSUME IInv, handling # Null, NEW kind \in Kind, NEW k \in Key \cup {Null},
           pending' = pending \cup {Owe(handling.result, handling.todo, kind, k)},
           Dispatched, UNCHANGED <<result, deleting>>
    PROVE  /\ Counted'
           /\ Room'
           /\ pending' \subseteq Owed /\ IsFiniteSet(pending')
           /\ handling' \in Handling \cup {Null}
           /\ \A k2 : Cardinality(OfKey(pending', k2)) =
                        Cardinality(OfKey(pending, k2)) + (IF k = k2 THEN 1 ELSE 0)
<1> DEFINE r == handling.result
           q == Owe(r, handling.todo, kind, k)
<1>1. /\ CellsOK /\ Counted /\ Room /\ IsFiniteSet(pending)
      /\ handling \in Handling /\ r \in Result /\ handling.todo \in Nat \ {0}
      /\ deleting = Null
  BY DEF IInv, CellsOK, Counted, OneLoop, Handling
<1>2. /\ q.result = r /\ q.n = handling.todo /\ q.key = k
      /\ q \in Owed /\ q \notin pending
  BY <1>1 DEF Owe, Owed, Counted, HandlingOK
<1> HIDE DEF q
<1>3. pending' = pending \cup {q}
  BY DEF q
<1>4. /\ IsFiniteSet(pending')
      /\ \A x : /\ Cardinality(OfResult(pending, x)) \in Nat
                /\ Cardinality(OfResult(pending', x)) =
                     Cardinality(OfResult(pending, x)) + (IF r = x THEN 1 ELSE 0)
      /\ \A x : Cardinality(OfKey(pending', x)) =
                  Cardinality(OfKey(pending, x)) + (IF k = x THEN 1 ELSE 0)
  <2>1. /\ IsFiniteSet(pending \cup {q})
        /\ \A x : /\ Cardinality(OfResult(pending, x)) \in Nat
                  /\ Cardinality(OfResult(pending \cup {q}, x)) =
                       Cardinality(OfResult(pending, x))
                       + (IF q.result = x THEN 1 ELSE 0)
        /\ \A x : /\ Cardinality(OfKey(pending, x)) \in Nat
                  /\ Cardinality(OfKey(pending \cup {q}, x)) =
                       Cardinality(OfKey(pending, x)) + (IF q.key = x THEN 1 ELSE 0)
    <3>1. IsFiniteSet(pending) /\ q \notin pending
      BY <1>1, <1>2
    <3> QED
      BY <3>1, AskedMore
  <2> HIDE DEF r
  <2> QED
    BY <1>2, <1>3, <2>1
<1>5. \A x : /\ ToAsk(x) = IF r = x THEN handling.todo ELSE 0
             /\ ToAsk(x)' = IF r = x THEN handling.todo - 1 ELSE 0
  <2>1. ToAsk(r) = handling.todo /\ \A x : x # r => ToAsk(x) = 0
    BY <1>1 DEF ToAsk
  <2>2. CASE handling.todo = 1
    BY <1>1, <2>1, <2>2 DEF ToAsk, Dispatched
  <2>3. CASE handling.todo # 1
    <3>1. /\ handling' # Null /\ handling'.result = r
          /\ handling'.todo = handling.todo - 1
      BY <1>1, <2>3, SessionsAssumption DEF Dispatched, Handling
    <3> QED
      BY <1>1, <2>1, <3>1 DEF ToAsk
  <2> QED
    BY <2>2, <2>3
<1>6. handling' \in Handling \cup {Null}
  BY <1>1 DEF Dispatched, Handling
<1>7. AnswersCounted'
  <2> SUFFICES ASSUME NEW x \in Result, result[x] # Null
               PROVE  result[x].remaining =
                        Cardinality(OfResult(pending', x)) + ToAsk(x)'
    BY DEF AnswersCounted, OfResult
  <2>1. result[x].remaining = Cardinality(OfResult(pending, x)) + ToAsk(x)
    BY <1>1 DEF Counted, AnswersCounted, OfResult
  <2> HIDE DEF r
  <2> QED
    BY <1>1, <1>4, <1>5, <2>1
<1>8. Asked'
  BY <1>1, <1>2, <1>3 DEF Counted, Asked, HandlingOK
<1>9. HandlingOK'
  <2> SUFFICES ASSUME handling' # Null
               PROVE  /\ result[handling'.result] # Null
                      /\ \A p \in pending' : p.result = handling'.result =>
                           p.n > handling'.todo
    BY DEF HandlingOK
  <2>1. handling'.result = r /\ handling'.todo = handling.todo - 1
    BY <1>1 DEF Dispatched, Handling
  <2>2. \A p \in pending : p.n \in Nat
    BY <1>1 DEF CellsOK, Owed
  <2> QED
    BY <1>1, <1>2, <1>3, <2>1, <2>2 DEF Counted, HandlingOK
<1>10. OneLoop' /\ DeletingOK' /\ Room'
  BY <1>1 DEF OneLoop, DeletingOK, Room, RoomLeft, Unallocated
<1> QED
  BY <1>1, <1>2, <1>3, <1>4, <1>6, <1>7, <1>8, <1>9, <1>10 DEF Counted, CellsOK

(* Steps that neither ask nor answer.                                      *)
LEMMA NothingCounts ==
    ASSUME IInv, UNCHANGED <<result, pending, handling, deleting>>, DeletedKept
    PROVE  Counted' /\ Room'
<1>1. /\ \A r : ToAsk(r)' = ToAsk(r)
      /\ deleting # Null => Used(deleting.session)' = Used(deleting.session)
  BY ToAskKept
<1> QED
  BY <1>1 DEF IInv, Counted, OneLoop, HandlingOK, DeletingOK, Asked,
     AnswersCounted, Room, RoomLeft, Unallocated

-----------------------------------------------------------------------------
(* References.                                                             *)

(* Publish items and questions are counted apart.                          *)
LEMMA HoldersNamed ==
    /\ \A k : Holders(k) = Cardinality(Points(item, k)) + Cardinality(OfKey(pending, k))
    /\ \A k : Holders(k)' = Cardinality(Points(item', k)) + Cardinality(OfKey(pending', k))
BY DEF Holders, Points, OfKey

(* Publish items that are alike are as many for each subscription, and are *)
(* where they were.                                                        *)
LEMMA AlikePoints ==
    ASSUME NEW f, NEW g, Alike(f, g)
    PROVE  \A k : Points(f, k) = Points(g, k)
BY DEF Alike, Points

(* A table that grows has nothing under its new ids.                       *)
LEMMA Grown ==
    ASSUME CellsOK, NEW s \in Session
    PROVE  /\ GrownTable(s) \in Seq(Item \cup {Null})
           /\ \A id \in DOMAIN GrownTable(s) : GrownTable(s)[id] # Null =>
                /\ id \in DOMAIN publish_items[s]
                /\ GrownTable(s)[id] = publish_items[s][id]
           /\ NextFreeId(s) \in Nat \ {0}
<1> DEFINE old == publish_items[s]
           n == IF Len(old) = 0 THEN Additional - 1 ELSE Additional
           new == [i \in 1..n |-> Null]
<1>1. old \in Seq(Item \cup {Null}) /\ next_free_publish_item[s] \in Nat \ {0}
  BY DEF CellsOK
<1>2. n \in Nat
  BY SessionsAssumption
<1>3. new \in Seq(Item \cup {Null}) /\ Len(new) = n
  BY <1>2
<1>4. /\ old \o new \in Seq(Item \cup {Null})
      /\ DOMAIN (old \o new) = 1..Len(old) + n /\ DOMAIN old = 1..Len(old)
      /\ \A id \in 1..Len(old) + n :
           (old \o new)[id] = IF id <= Len(old) THEN old[id] ELSE new[id - Len(old)]
  <2> HIDE DEF old, new, n
  <2>1. /\ old \o new \in Seq(Item \cup {Null})
        /\ Len(old \o new) = Len(old) + Len(new)
        /\ \A id \in 1..Len(old) + Len(new) :
             (old \o new)[id] = IF id <= Len(old) THEN old[id] ELSE new[id - Len(old)]
    BY <1>1, <1>3, ConcatProperties
  <2> QED
    BY <1>1, <1>3, <2>1
<1>5. GrownTable(s) = IF NextFreeId(s) <= Len(old) THEN old ELSE old \o new
  BY DEF GrownTable
<1>6. \A id \in DOMAIN GrownTable(s) : GrownTable(s)[id] # Null =>
        id \in DOMAIN old /\ GrownTable(s)[id] = old[id]
  <2> HIDE DEF n
  <2>1. \A id \in 1..Len(old) + n : (old \o new)[id] # Null =>
          id \in 1..Len(old) /\ (old \o new)[id] = old[id]
    BY <1>1, <1>2, <1>3, <1>4
  <2> HIDE DEF new, old
  <2> QED
    BY <1>4, <1>5, <2>1
<1>7. NextFreeId(s) \in Nat \ {0}
  <2> DEFINE free == {id \in next_free_publish_item[s]..Len(old) : old[id] = Null}
  <2>1. Len(old) \in Nat /\ free \subseteq Nat \ {0} /\ free \in SUBSET Nat
    BY <1>1
  <2>2. free # {} => Min(free) \in free
    <3> HIDE DEF free
    <3> QED
      BY <2>1, MinInSet
  <2>3. NextFreeId(s) = IF free # {} THEN Min(free) ELSE Len(old) + 1
    BY DEF NextFreeId
  <2> HIDE DEF free
  <2>4. CASE free # {}
    BY <2>1, <2>2, <2>3, <2>4
  <2>5. CASE free = {}
    <3> HIDE DEF old
    <3> QED
      BY <2>1, <2>3, <2>5
  <2> QED
    BY <2>4, <2>5
<1> QED
  BY <1>1, <1>4, <1>5, <1>6, <1>7

(* Publish items stay placed when they are alike and tables get no items.  *)
LEMMA PlacedKept ==
    ASSUME CellsOK, Placed, Alike(item', item),
           \A s \in Session : \A id \in DOMAIN publish_items'[s] :
             publish_items'[s][id] # Null =>
               /\ id \in DOMAIN publish_items[s]
               /\ publish_items'[s][id] = publish_items[s][id]
    PROVE  Placed'
<1> SUFFICES ASSUME NEW s \in Session, NEW id \in Used(s)'
             PROVE  /\ item'[publish_items'[s][id]] # Null
                    /\ item'[publish_items'[s][id]].session = s
                    /\ item'[publish_items'[s][id]].id = id
  BY DEF Placed
<1>1. id \in Used(s) /\ publish_items'[s][id] = publish_items[s][id]
  BY DEF Used
<1>2. publish_items[s][id] \in Item
  BY <1>1, UsedFinite
<1> QED
  BY <1>1, <1>2 DEF Placed, Alike

(* A publish item is released and the application asked about its          *)
(* subscription: the reference passes from the item to the question.       *)
LEMMA ItemReleased ==
    ASSUME IInv, NEW s \in Session, NEW id \in Used(s), NEW i, i = publish_items[s][id],
           item' = [item EXCEPT ![i] = Null],
           publish_items' = [publish_items EXCEPT ![s][id] = Null],
           UNCHANGED reference_count,
           \A k : Cardinality(OfKey(pending', k)) =
                    Cardinality(OfKey(pending, k)) + (IF item[i].key = k THEN 1 ELSE 0)
    PROVE  /\ item' \in Cells
           /\ publish_items' \in [Session -> Seq(Item \cup {Null})]
           /\ Used(s)' = Used(s) \ {id}
           /\ Placed'
           /\ NotFreedEarly'
           /\ \A x \in Key : Holders(x)' = Holders(x)
<1>1. /\ CellsOK /\ Placed /\ NotFreedEarly /\ IsFiniteSet(pending) /\ item \in Cells
      /\ publish_items \in [Session -> Seq(Item \cup {Null})]
  BY DEF IInv, CellsOK, Cells
<1>2. /\ i \in Item /\ item[i] # Null /\ item[i].session = s /\ item[i].id = id
      /\ publish_items[s] \in Seq(Item \cup {Null}) /\ id \in DOMAIN publish_items[s]
  BY <1>1, UsedFinite DEF Placed, Used
<1>3. [publish_items[s] EXCEPT ![id] = Null] \in Seq(Item \cup {Null})
  BY <1>2
<1>4. publish_items' \in [Session -> Seq(Item \cup {Null})]
  BY <1>1, <1>3
<1>5. Used(s)' = Used(s) \ {id}
  BY <1>1, <1>2 DEF Used
<1>6. /\ item' \in Cells
      /\ \A k : /\ Cardinality(Points(item', k)) \in Nat
                /\ Cardinality(Points(item, k)) =
                     Cardinality(Points(item', k)) + (IF item[i].key = k THEN 1 ELSE 0)
  <2>1. item \in Cells /\ i \in Item /\ item[i] # Null
    BY <1>1, <1>2
  <2>2. item' = [item EXCEPT ![i] = Null]
    OBVIOUS
  <2>3. [item EXCEPT ![i] = Null] \in Cells
    BY <2>1 DEF Cells
  <2>4. ASSUME NEW k
        PROVE  /\ Cardinality(Points([item EXCEPT ![i] = Null], k)) \in Nat
               /\ Cardinality(Points(item, k)) =
                    Cardinality(Points([item EXCEPT ![i] = Null], k))
                    + (IF item[i].key = k THEN 1 ELSE 0)
    BY <2>1, PointsLess
  <2> QED
    BY <2>2, <2>3, <2>4
<1>7. ASSUME NEW k \in Key PROVE Holders(k)' = Holders(k)
  <2>1. Cardinality(OfKey(pending, k)) \in Nat
    BY <1>1, FS_Subset, FS_CardinalityType DEF OfKey
  <2>2. /\ Holders(k) = Cardinality(Points(item, k)) + Cardinality(OfKey(pending, k))
        /\ Holders(k)' =
             Cardinality(Points(item', k)) + Cardinality(OfKey(pending', k))
    BY HoldersNamed
  <2>3. /\ Cardinality(Points(item', k)) \in Nat
        /\ Cardinality(Points(item, k)) =
             Cardinality(Points(item', k)) + (IF item[i].key = k THEN 1 ELSE 0)
        /\ Cardinality(OfKey(pending', k)) =
             Cardinality(OfKey(pending, k)) + (IF item[i].key = k THEN 1 ELSE 0)
    BY <1>6
  <2> QED
    BY <2>1, <2>2, <2>3
<1>9. NotFreedEarly'
  BY <1>1, <1>7 DEF NotFreedEarly
<1>8. Placed'
  <2> SUFFICES ASSUME NEW t \in Session, NEW d \in Used(t)'
               PROVE  /\ item'[publish_items'[t][d]] # Null
                      /\ item'[publish_items'[t][d]].session = t
                      /\ item'[publish_items'[t][d]].id = d
    BY DEF Placed
  <2>1. /\ d \in Used(t) /\ publish_items'[t][d] = publish_items[t][d]
        /\ t # s \/ d # id
    BY <1>1, <1>2 DEF Used
  <2>2. /\ item[publish_items[t][d]] # Null
        /\ item[publish_items[t][d]].session = t
        /\ item[publish_items[t][d]].id = d
        /\ publish_items[t][d] \in Item
    BY <1>1, <2>1, UsedFinite DEF Placed
  <2>3. publish_items[t][d] # i
    BY <1>2, <2>1, <2>2
  <2> QED
    BY <1>1, <2>1, <2>2, <2>3 DEF Cells
<1> QED
  BY <1>4, <1>5, <1>6, <1>7, <1>8, <1>9

(* An answer leaves the publish items as they are, but for being announced *)
(* and takes back the reference of the question.                           *)
LEMMA AnswerItems ==
    ASSUME IInv, NEW p \in pending, NEW res, NEW items \in Cells, Answer(p, res, items)
    PROVE  /\ Alike(item', items)
           /\ \A k : /\ Cardinality(OfKey(pending', k)) \in Nat
                     /\ Cardinality(OfKey(pending, k)) =
                          Cardinality(OfKey(pending', k)) + (IF p.key = k THEN 1 ELSE 0)
<1>1. item' = items \/ item' = WithAnnounced(items, p.result)
  BY DEF Answer
<1>2. pending' = pending \ {p} /\ IsFiniteSet(pending)
  BY DEF Answer, IInv, CellsOK
<1>3. \A k : /\ Cardinality(OfKey(pending \ {p}, k)) \in Nat
             /\ Cardinality(OfKey(pending, k)) =
                  Cardinality(OfKey(pending \ {p}, k)) + (IF p.key = k THEN 1 ELSE 0)
  BY <1>2, AskedLess
<1> QED
  BY <1>1, <1>2, <1>3, AnnouncedAlike

-----------------------------------------------------------------------------
(* Every step keeps the invariant.                                         *)

(* Steps that touch no item, question or reference.                        *)
LEMMA QuietStep ==
    ASSUME IInv, UNCHANGED <<reference_count, item, result, pending, handling, deleting>>,
           \/ UNCHANGED tables
           \/ \E s \in Session : SessionCreate(s)
    PROVE  IInv'
<1>1. CellsOK /\ Placed /\ NotFreedEarly
  BY DEF IInv
<1>2. /\ publish_items' \in [Session -> Seq(Item \cup {Null})]
      /\ next_free_publish_item' \in [Session -> Nat \ {0}]
      /\ \A s \in Session : publish_items'[s] = publish_items[s] \/ publish_items'[s] = <<>>
  <2>1. CASE UNCHANGED tables
    BY <1>1, <2>1 DEF tables, CellsOK
  <2>2. CASE \E s \in Session : SessionCreate(s)
    BY <1>1, <2>2 DEF SessionCreate, CellsOK
  <2> QED
    BY <2>1, <2>2
<1>3. DeletedKept
  BY DEF DeletedKept, tables, SessionCreate, Idle
<1>4. Counted' /\ Room'
  BY <1>3, NothingCounts
<1>5. Alike(item', item)
  BY <1>1, AnnouncedAlike DEF CellsOK, Cells
<1>6. Placed'
  BY <1>1, <1>2, <1>5, PlacedKept
<1>7. NotFreedEarly'
  BY <1>1 DEF NotFreedEarly, Holders
<1> QED
  BY <1>1, <1>2, <1>4, <1>6, <1>7 DEF IInv, CellsOK

(* A message brings its result, and the loop over its items.               *)
LEMMA MessageStep ==
    ASSUME IInv, NEW s \in Session, NEW r \in Result, NEW kind \in Kind,
           NEW count \in Nat, HandleMessage(s, r, kind, count)
    PROVE  IInv'
<1>1. /\ CellsOK /\ Counted /\ Room /\ Placed /\ NotFreedEarly
      /\ handling = Null /\ deleting = Null /\ deleting' = Null /\ result[r] = Null
      /\ UNCHANGED <<reference_count, item, publish_items, next_free_publish_item, pending>>
  BY DEF HandleMessage, Idle, IInv, subs, tables
<1>2. /\ NewResult(s, count) \in ResultCell /\ NewResult(s, count) # Null
      /\ NewResult(s, count).remaining = count
      /\ NewResult(s, count).room = 0 /\ NewResult(s, count).blocked = <<>>
  <2>1. <<>> \in Seq(Item)
    OBVIOUS
  <2>2. NewResult(s, count) \in ResultCell
    BY <2>1 DEF NewResult, ResultCell
  <2>3. NewResult(s, count) # Null
    BY <2>2, SessionsAssumption
  <2> QED
    BY <2>2, <2>3 DEF NewResult
<1>3. /\ result' \in [Result -> ResultCell \cup {Null}]
      /\ \A q \in Result : result'[q] = IF q = r THEN NewResult(s, count) ELSE result[q]
  BY <1>1, <1>2 DEF HandleMessage, CellsOK
<1>4. /\ handling' \in Handling \cup {Null}
      /\ handling' = Null <=> count = 0
      /\ handling' # Null => handling'.result = r /\ handling'.todo = count
  BY SessionsAssumption DEF HandleMessage, Handling
<1>5. \A p \in pending : p.result \in Result /\ p.result # r
  BY <1>1 DEF Counted, Asked, CellsOK, Owed
<1>6. AnswersCounted'
  <2> SUFFICES ASSUME NEW q \in Result, result'[q] # Null
               PROVE  result'[q].remaining =
                        Cardinality({p \in pending : p.result = q}) + ToAsk(q)'
    BY <1>1 DEF AnswersCounted
  <2>1. ToAsk(q) = 0 /\ ToAsk(q)' = IF q = r THEN count ELSE 0
    BY <1>1, <1>4 DEF ToAsk
  <2>2. CASE q = r
    <3>1. {p \in pending : p.result = q} = {}
      BY <1>5, <2>2
    <3>2. Cardinality({p \in pending : p.result = q}) = 0
      BY <3>1, FS_EmptySet
    <3>3. result'[q].remaining = count
      BY <1>2, <1>3, <2>2
    <3> QED
      BY <2>1, <2>2, <3>2, <3>3
  <2>3. CASE q # r
    BY <1>1, <1>3, <2>1, <2>3 DEF Counted, AnswersCounted
  <2> QED
    BY <2>2, <2>3
<1>7. Counted'
  BY <1>1, <1>2, <1>3, <1>4, <1>5, <1>6 DEF Counted, OneLoop, HandlingOK, DeletingOK, Asked
<1>8. Room'
  BY <1>1, <1>2, <1>3 DEF Room, RoomLeft, Unallocated
<1>9. Placed' /\ NotFreedEarly'
  BY <1>1 DEF Placed, Used, NotFreedEarly, Holders
<1> QED
  BY <1>1, <1>3, <1>4, <1>7, <1>8, <1>9 DEF IInv, CellsOK

(* A question about k, or about no subscription, when k is requested.      *)
LEMMA AskStep ==
    ASSUME IInv, handling # Null, NEW kind \in Kind, NEW k \in Key \cup {Null},
           pending' = pending \cup {Owe(handling.result, handling.todo, kind, k)},
           Dispatched,
           UNCHANGED <<item, publish_items, next_free_publish_item, result, deleting>>,
           reference_count' = IF k = Null THEN reference_count
                              ELSE [reference_count EXCEPT ![k] = @ + 1]
    PROVE  IInv'
<1>1. CellsOK /\ Placed /\ NotFreedEarly
  BY DEF IInv
<1>2. /\ Counted' /\ Room'
      /\ pending' \subseteq Owed /\ IsFiniteSet(pending')
      /\ handling' \in Handling \cup {Null}
      /\ \A k2 : Cardinality(OfKey(pending', k2)) =
                   Cardinality(OfKey(pending, k2)) + (IF k = k2 THEN 1 ELSE 0)
  BY QuestionCounts
<1>3. /\ reference_count \in [Key -> Nat] /\ reference_count' \in [Key -> Nat]
      /\ \A k2 \in Key : reference_count'[k2] =
           reference_count[k2] + (IF k = k2 THEN 1 ELSE 0)
  BY <1>1, SessionsAssumption DEF CellsOK
<1>4. NotFreedEarly'
  <2> SUFFICES ASSUME NEW k2 \in Key PROVE Holders(k2)' <= reference_count'[k2]
    BY DEF NotFreedEarly
  <2>1. Holders(k2) <= reference_count[k2]
    BY <1>1 DEF NotFreedEarly
  <2>2. Cardinality(OfKey(pending, k2)) \in Nat /\ Cardinality(Points(item, k2)) \in Nat
    BY <1>1, SessionsAssumption, FS_Subset, FS_CardinalityType DEF OfKey, Points, CellsOK
  <2>3. Holders(k2) = Cardinality(Points(item, k2)) + Cardinality(OfKey(pending, k2))
    BY HoldersNamed
  <2>4. Holders(k2)' = Cardinality(Points(item, k2)) + Cardinality(OfKey(pending', k2))
    BY HoldersNamed
  <2>5. Cardinality(OfKey(pending', k2)) =
          Cardinality(OfKey(pending, k2)) + (IF k = k2 THEN 1 ELSE 0)
    BY <1>2
  <2>6. /\ reference_count[k2] \in Nat
        /\ reference_count'[k2] = reference_count[k2] + (IF k = k2 THEN 1 ELSE 0)
    BY <1>3
  <2> QED
    BY <2>1, <2>2, <2>3, <2>4, <2>5, <2>6
<1>5. Placed'
  BY <1>1 DEF Placed, Used
<1> QED
  BY <1>1, <1>2, <1>3, <1>4, <1>5 DEF IInv, CellsOK

LEMMA DispatchStep == IInv /\ Dispatch => IInv'
<1> SUFFICES ASSUME IInv, Dispatch PROVE IInv'
  OBVIOUS
<1> USE DEF subs, tables, Kind
<1>1. CASE DispatchCall
  BY <1>1, AskStep DEF DispatchCall
<1>2. ASSUME NEW k \in Key, DispatchSubscribe(k) PROVE IInv'
  BY <1>2, AskStep, SessionsAssumption DEF DispatchSubscribe
<1>3. CASE DispatchSubscribeFails
  BY <1>3, AskStep DEF DispatchSubscribeFails
<1>4. CASE DispatchUnknown
  BY <1>4, AskStep DEF DispatchUnknown
<1> QED
  BY <1>1, <1>2, <1>3, <1>4 DEF Dispatch

(* An unsubscribe takes the item and asks about its subscription.          *)
LEMMA UnsubscribeStep ==
    ASSUME IInv, NEW id, DispatchUnsubscribe(id)
    PROVE  IInv'
<1> DEFINE s == handling.session
           i == publish_items[s][id]
           k == item[i].key
<1>1. /\ CellsOK /\ Placed /\ handling # Null /\ s \in Session
      /\ id \in Used(s) /\ UNCHANGED <<reference_count, result, deleting>>
  BY DEF DispatchUnsubscribe, IInv, CellsOK, Handling, Used
<1>2. i \in Item /\ item[i] # Null /\ k \in Key
  BY <1>1, UsedFinite DEF Placed, CellsOK, PublishItem
<1>3. /\ pending' = pending \cup {Owe(handling.result, handling.todo, "unsubscribe", k)}
      /\ item' = [item EXCEPT ![i] = Null]
      /\ publish_items' = [publish_items EXCEPT ![s][id] = Null]
      /\ next_free_publish_item' = NextFreeAfter(s, id)
      /\ Dispatched
  BY DEF DispatchUnsubscribe
<1>4. /\ Counted' /\ Room'
      /\ pending' \subseteq Owed /\ IsFiniteSet(pending')
      /\ handling' \in Handling \cup {Null}
      /\ \A k2 : Cardinality(OfKey(pending', k2)) =
                   Cardinality(OfKey(pending, k2)) + (IF k = k2 THEN 1 ELSE 0)
  <2> HIDE DEF k
  <2> QED
    BY <1>1, <1>2, <1>3, QuestionCounts DEF Kind
<1>5. /\ item' \in Cells /\ Placed' /\ NotFreedEarly'
      /\ publish_items' \in [Session -> Seq(Item \cup {Null})]
  BY <1>1, <1>3, <1>4, ItemReleased
<1>6. next_free_publish_item' \in [Session -> Nat \ {0}]
  BY <1>1, <1>3, UsedFinite DEF NextFreeAfter, CellsOK
<1> QED
  BY <1>1, <1>4, <1>5, <1>6 DEF IInv, CellsOK, Cells

(* What the invariant says of the result of a question.                    *)
LEMMA ResultOf ==
    ASSUME IInv, NEW p \in pending
    PROVE  /\ p \in Owed /\ p.result \in Result /\ p.key \in Key \cup {Null}
           /\ result[p.result] \in ResultCell /\ result[p.result] # Null
           /\ deleting # Null => result[p.result].session # deleting.session
           /\ result[p.result].room # 0 =>
                Len(result[p.result].blocked) + result[p.result].remaining
                  <= result[p.result].room
           /\ result[p.result].room = 0 => result[p.result].blocked = <<>>
<1>1. /\ p \in Owed /\ p.result \in Result /\ p.key \in Key \cup {Null}
      /\ result[p.result] # Null
  BY DEF IInv, CellsOK, Owed, Counted, Asked
<1>2. result[p.result] \in ResultCell
  BY <1>1 DEF IInv, CellsOK
<1>3. deleting # Null => result[p.result].session # deleting.session
  BY <1>1 DEF IInv, Counted, DeletingOK
<1> QED
  BY <1>1, <1>2, <1>3 DEF IInv, Room, RoomLeft, Unallocated

(* Room is allocated for all answers that can still come.                  *)
LEMMA WithRoomOK ==
    ASSUME IInv, NEW p \in pending
    PROVE  LET old == result[p.result]
               new == WithRoom(old)
           IN  /\ new \in ResultCell
               /\ new.session = old.session /\ new.remaining = old.remaining
               /\ new.blocked = old.blocked
               /\ new.room # 0 => Len(new.blocked) + new.remaining <= new.room
               /\ new.room = 0 => new.blocked = <<>> /\ new.remaining = 0
<1> DEFINE old == result[p.result]
<1>1. /\ old \in ResultCell
      /\ old.room # 0 => Len(old.blocked) + old.remaining <= old.room
      /\ old.room = 0 => old.blocked = <<>>
  BY ResultOf
<1> HIDE DEF old
<1>2. CASE old.room # 0
  BY <1>1, <1>2 DEF WithRoom, old
<1>3. CASE old.room = 0
  <2>1. WithRoom(old) = [old EXCEPT !.room = old.remaining]
    BY <1>3 DEF WithRoom
  <2>2. /\ WithRoom(old) \in ResultCell
        /\ WithRoom(old).session = old.session
        /\ WithRoom(old).remaining = old.remaining
        /\ WithRoom(old).blocked = <<>> /\ WithRoom(old).room = old.remaining
        /\ old.remaining \in Nat /\ Len(<<>>) = 0
    BY <1>1, <1>3, <2>1 DEF ResultCell
  <2> QED
    BY <1>1, <1>3, <2>2 DEF old
<1> QED
  BY <1>2, <1>3

(* A question about a subscription holds a reference to it.                *)
LEMMA QuestionHolds ==
    ASSUME IInv, NEW p \in pending, p.key \in Key
    PROVE  reference_count \in [Key -> Nat] /\ reference_count[p.key] > 0
<1>1. IsFiniteSet(pending) /\ item \in Cells /\ reference_count \in [Key -> Nat]
  BY DEF IInv, CellsOK, Cells
<1>2. /\ Cardinality(OfKey(pending \ {p}, p.key)) \in Nat
      /\ Cardinality(OfKey(pending, p.key)) =
           Cardinality(OfKey(pending \ {p}, p.key)) + (IF p.key = p.key THEN 1 ELSE 0)
  BY <1>1, AskedLess
<1>3. Cardinality(Points(item, p.key)) \in Nat
  BY SessionsAssumption, FS_Subset, FS_CardinalityType DEF Points
<1>4. Cardinality(Points(item, p.key)) + Cardinality(OfKey(pending, p.key))
        <= reference_count[p.key]
  BY HoldersNamed DEF IInv, NotFreedEarly
<1> QED
  BY <1>1, <1>2, <1>3, <1>4

(* After an answer the reference of the question is gone, and items may    *)
(* have gained one.                                                        *)
LEMMA AnswerHolders ==
    ASSUME IInv, NEW p \in pending, NEW res, NEW items \in Cells, Answer(p, res, items),
           NEW gain \in [Key -> {0, 1}],
           \A x \in Key : Cardinality(Points(items, x)) =
                            Cardinality(Points(item, x)) + gain[x],
           NEW x \in Key
    PROVE  /\ Holders(x) \in Nat
           /\ Holders(x)' \in Nat
           /\ Holders(x)' + (IF p.key = x THEN 1 ELSE 0) = Holders(x) + gain[x]
<1>1. /\ Alike(item', items)
      /\ Cardinality(OfKey(pending', x)) \in Nat
      /\ Cardinality(OfKey(pending, x)) =
           Cardinality(OfKey(pending', x)) + (IF p.key = x THEN 1 ELSE 0)
  BY AnswerItems
<1>2. Points(item', x) = Points(items, x)
  BY <1>1, AlikePoints
<1>3. Cardinality(Points(item, x)) \in Nat
  BY SessionsAssumption, FS_Subset, FS_CardinalityType DEF Points
<1>4. Holders(x) = Cardinality(Points(item, x)) + Cardinality(OfKey(pending, x))
  BY HoldersNamed
<1>5. Holders(x)' = Cardinality(Points(items, x)) + Cardinality(OfKey(pending', x))
  BY <1>2, HoldersNamed
<1>6. /\ Cardinality(Points(items, x)) = Cardinality(Points(item, x)) + gain[x]
      /\ gain[x] \in {0, 1}
  OBVIOUS
<1> QED
  BY <1>1, <1>3, <1>4, <1>5, <1>6

(* References after an answer: the one of the question is passed on to a   *)
(* new publish item of subscription k, or was not needed.                  *)
LEMMA AnswerReferences ==
    ASSUME IInv, NEW p \in pending, NEW res, NEW items \in Cells, Answer(p, res, items),
           NEW gain \in [Key -> {0, 1}],
           \A x \in Key : Cardinality(Points(items, x)) =
                            Cardinality(Points(item, x)) + gain[x],
           reference_count' \in [Key -> Nat],
           \A x \in Key : reference_count[x] + gain[x] <=
                            reference_count'[x] + (IF p.key = x THEN 1 ELSE 0)
    PROVE  NotFreedEarly'
<1> SUFFICES ASSUME NEW x \in Key PROVE Holders(x)' <= reference_count'[x]
  BY DEF NotFreedEarly
<1>1. /\ Holders(x) \in Nat /\ Holders(x)' \in Nat
      /\ Holders(x)' + (IF p.key = x THEN 1 ELSE 0) = Holders(x) + gain[x]
  BY AnswerHolders
<1>2. Holders(x) <= reference_count[x]
  BY DEF IInv, NotFreedEarly
<1>3. /\ reference_count[x] + gain[x] <=
           reference_count'[x] + (IF p.key = x THEN 1 ELSE 0)
      /\ gain[x] \in {0, 1} /\ reference_count'[x] \in Nat /\ reference_count[x] \in Nat
  BY DEF IInv, CellsOK
<1> QED
  BY <1>1, <1>2, <1>3

(* An answer that makes no publish item; the table may have grown.         *)
LEMMA PlainStep ==
    ASSUME IInv, NEW p \in pending, NEW res \in ResultCell,
           res.session = result[p.result].session,
           res.remaining = result[p.result].remaining,
           res.room # 0 => Len(res.blocked) + res.remaining <= res.room + 1,
           res.room = 0 => res.blocked = <<>>,
           Answer(p, res, item),
           UNCHANGED <<handling, deleting, next_free_publish_item>>,
           \/ UNCHANGED publish_items
           \/ /\ res.session # Null
              /\ publish_items' =
                   [publish_items EXCEPT ![res.session] = GrownTable(res.session)],
           reference_count' \in [Key -> Nat],
           \A x \in Key : reference_count[x] <=
                            reference_count'[x] + (IF p.key = x THEN 1 ELSE 0)
    PROVE  IInv'
<1>1. CellsOK /\ Placed /\ item \in Cells /\ publish_items \in [Session -> Seq(Item \cup {Null})]
  BY DEF IInv, CellsOK, Cells
<1>2. res.session # Null => res.session \in Session
  BY DEF ResultCell
<1>3. /\ publish_items' \in [Session -> Seq(Item \cup {Null})]
      /\ \A s \in Session :
           \/ publish_items'[s] = publish_items[s]
           \/ s = res.session /\ publish_items'[s] = GrownTable(s)
  BY <1>1, <1>2, Grown
<1>4. DeletedKept
  <2>1. deleting # Null => deleting.session \in Session /\ res.session # deleting.session
    BY <1>1, ResultOf DEF CellsOK, Deleting
  <2> QED
    BY <1>3, <2>1 DEF DeletedKept
<1>5. /\ Counted' /\ Room'
      /\ result' \in [Result -> ResultCell \cup {Null}]
      /\ pending' \subseteq Owed /\ IsFiniteSet(pending')
  BY <1>4, AnswerCounts
<1>6. Alike(item', item)
  BY <1>1, AnswerItems
<1>7. Placed'
  <2>1. \A s \in Session : \A id \in DOMAIN publish_items'[s] :
          publish_items'[s][id] # Null =>
            /\ id \in DOMAIN publish_items[s]
            /\ publish_items'[s][id] = publish_items[s][id]
    BY <1>1, <1>3, Grown
  <2> QED
    BY <1>1, <1>6, <2>1, PlacedKept
<1>8. NotFreedEarly'
  <2> DEFINE gain == [x \in Key |-> 0]
  <2>1. gain \in [Key -> {0, 1}]
    OBVIOUS
  <2>2. /\ \A x \in Key : Cardinality(Points(item, x)) =
                            Cardinality(Points(item, x)) + gain[x]
        /\ \A x \in Key : reference_count[x] + gain[x] <=
                            reference_count'[x] + (IF p.key = x THEN 1 ELSE 0)
    <3>1. \A x \in Key : /\ Cardinality(Points(item, x)) \in Nat
                         /\ reference_count[x] \in Nat
      BY <1>1, SessionsAssumption, FS_Subset, FS_CardinalityType DEF Points, CellsOK
    <3> QED
      BY <3>1
  <2> HIDE DEF gain
  <2> QED
    BY <1>1, <2>1, <2>2, AnswerReferences
<1>9. item' \in Cells
  BY <1>6 DEF Alike
<1> QED
  BY <1>1, <1>3, <1>5, <1>7, <1>8, <1>9 DEF IInv, CellsOK, Cells

(* One reference is given back, or passed on to subscription k.            *)
LEMMA ReferencesPassed ==
    ASSUME IInv, NEW p \in pending, p.key \in Key, NEW k \in Key
    PROVE  /\ Released(p.key) \in [Key -> Nat]
           /\ Aliased(p.key, k) \in [Key -> Nat]
           /\ \A x \in Key :
                /\ reference_count[x] = Released(p.key)[x] + (IF p.key = x THEN 1 ELSE 0)
                /\ reference_count[x] + (IF k = x THEN 1 ELSE 0)
                     = Aliased(p.key, k)[x] + (IF p.key = x THEN 1 ELSE 0)
<1>1. reference_count \in [Key -> Nat] /\ reference_count[p.key] > 0
  BY QuestionHolds
<1>2. \A x \in Key : Released(p.key)[x] =
                       reference_count[x] - (IF p.key = x THEN 1 ELSE 0)
  BY <1>1 DEF Released
<1>3. \A x \in Key : Aliased(p.key, k)[x] =
                       reference_count[x] + (IF k = x THEN 1 ELSE 0)
                                          - (IF p.key = x THEN 1 ELSE 0)
  BY <1>1 DEF Aliased
<1>4. DOMAIN Released(p.key) = Key /\ DOMAIN Aliased(p.key, k) = Key
  BY <1>1 DEF Released, Aliased
<1>5. Released(p.key) \in [Key -> Nat]
  BY <1>1 DEF Released
<1>6. Aliased(p.key, k) \in [Key -> Nat]
  BY <1>1 DEF Aliased
<1> QED
  BY <1>1, <1>2, <1>3, <1>5, <1>6

LEMMA PlainReturnStep ==
    ASSUME IInv, NEW p \in pending,
           \/ ReturnCall(p)
           \/ ReturnUnsubscribe(p)
           \/ ReturnSubscribeReject(p)
    PROVE  IInv'
<1> DEFINE res == result[p.result]
<1>1. /\ p.key \in Key \cup {Null}
      /\ res \in ResultCell
      /\ res.room # 0 => Len(res.blocked) + res.remaining <= res.room + 1
      /\ res.room = 0 => res.blocked = <<>>
  <2>1. /\ res \in ResultCell
        /\ res.room # 0 => Len(res.blocked) + res.remaining <= res.room
        /\ res.room = 0 => res.blocked = <<>>
        /\ p.key \in Key \cup {Null}
    BY ResultOf
  <2> HIDE DEF res
  <2>2. Len(res.blocked) \in Nat /\ res.remaining \in Nat /\ res.room \in Nat
    BY <2>1 DEF ResultCell
  <2> QED
    BY <2>1, <2>2
<1>2. /\ Answer(p, res, item)
      /\ UNCHANGED <<handling, deleting, publish_items, next_free_publish_item>>
      /\ \/ UNCHANGED reference_count
         \/ p.key # Null /\ reference_count' = Released(p.key)
  BY DEF ReturnCall, ReturnUnsubscribe, ReturnSubscribeReject, SubscribeAnswerSafe,
     calls, tables
<1>3. /\ reference_count' \in [Key -> Nat]
      /\ \A x \in Key : reference_count[x] <=
                          reference_count'[x] + (IF p.key = x THEN 1 ELSE 0)
  <2>1. reference_count \in [Key -> Nat]
    BY DEF IInv, CellsOK
  <2>2. CASE UNCHANGED reference_count
    BY <2>1, <2>2
  <2>3. CASE p.key # Null /\ reference_count' = Released(p.key)
    <3>1. p \in pending /\ p.key \in Key
      BY <1>1, <2>3
    <3>2. /\ Released(p.key) \in [Key -> Nat]
          /\ \A x \in Key :
               reference_count[x] = Released(p.key)[x] + (IF p.key = x THEN 1 ELSE 0)
      BY <3>1, ReferencesPassed
    <3> QED
      BY <2>1, <2>3, <3>2
  <2> QED
    BY <1>2, <2>2, <2>3
<1> HIDE DEF res
<1>4. res.session = result[p.result].session /\ res.remaining = result[p.result].remaining
  BY DEF res
<1> QED
  BY <1>1, <1>2, <1>3, <1>4, PlainStep

LEMMA FailsStep ==
    ASSUME IInv, NEW p \in pending, NEW k \in Key \cup {Null}, NEW what,
           ReturnSubscribeFails(p, k, what)
    PROVE  IInv'
<1> DEFINE old == result[p.result]
           res == IF what = "item" THEN WithRoom(old) ELSE old
<1>1. /\ p.key \in Key \cup {Null}
      /\ res \in ResultCell
      /\ res.session = old.session /\ res.remaining = old.remaining
      /\ res.room # 0 => Len(res.blocked) + res.remaining <= res.room
      /\ res.room = 0 => res.blocked = <<>>
  BY ResultOf, WithRoomOK
<1>2. /\ Answer(p, res, item)
      /\ UNCHANGED <<handling, deleting, next_free_publish_item>>
      /\ old.session # Null
      /\ \/ UNCHANGED publish_items
         \/ publish_items' = [publish_items EXCEPT ![old.session] = GrownTable(old.session)]
  BY DEF ReturnSubscribeFails, calls
<1>3. /\ reference_count' \in [Key -> Nat]
      /\ \A x \in Key : reference_count[x] <=
                          reference_count'[x] + (IF p.key = x THEN 1 ELSE 0)
  <2>1. reference_count \in [Key -> Nat]
    BY DEF IInv, CellsOK
  <2>2. CASE k = Null
    BY <2>1, <2>2 DEF ReturnSubscribeFails
  <2>3. CASE k # Null
    <3>1. /\ k \in Key /\ p.key \in Key
          /\ reference_count' = Released(p.key) \/ reference_count' = Aliased(p.key, k)
      BY <1>1, <2>3 DEF ReturnSubscribeFails
    <3>2. \A x \in Key : /\ reference_count[x] \in Nat
                         /\ (IF k = x THEN 1 ELSE 0) \in Nat
      BY <2>1
    <3>3. CASE reference_count' = Released(p.key)
      BY <3>1, <3>3, ReferencesPassed
    <3>4. CASE reference_count' = Aliased(p.key, k)
      <4>1. Aliased(p.key, k) \in [Key -> Nat]
        BY <3>1, ReferencesPassed
      <4>2. ASSUME NEW x \in Key
            PROVE  reference_count[x] <=
                     reference_count'[x] + (IF p.key = x THEN 1 ELSE 0)
        <5>1. reference_count[x] + (IF k = x THEN 1 ELSE 0)
                = Aliased(p.key, k)[x] + (IF p.key = x THEN 1 ELSE 0)
          BY <3>1, ReferencesPassed
        <5>2. Aliased(p.key, k)[x] \in Nat
          BY <4>1
        <5> QED
          BY <2>1, <3>4, <5>1, <5>2
      <4> QED
        BY <3>4, <4>1, <4>2
    <3> QED
      BY <3>1, <3>3, <3>4
  <2> QED
    BY <2>2, <2>3
<1> HIDE DEF res
<1>4. res.room # 0 => Len(res.blocked) + res.remaining <= res.room + 1
  BY <1>1 DEF ResultCell
<1> QED
  BY <1>1, <1>2, <1>3, <1>4, PlainStep

(* A new publish item of subscription k gets a free id of the session, and *)
(* a reference.                                                            *)
LEMMA SubscribeStep ==
    ASSUME IInv, NEW p \in pending, NEW k \in Key, NEW i \in Item,
           result[p.result].session # Null,
           Subscribe(p, k, i), UNCHANGED <<handling, deleting>>,
           reference_count' \in [Key -> Nat],
           \A x \in Key : reference_count[x] + (IF k = x THEN 1 ELSE 0) <=
                            reference_count'[x] + (IF p.key = x THEN 1 ELSE 0)
    PROVE  IInv'
<1> DEFINE old == WithRoom(result[p.result])
           new == [old EXCEPT !.blocked = Append(@, i)]
           s == result[p.result].session
           id == NextFreeId(s)
           cell == [session |-> s, key |-> k, id |-> id, by |-> p.result]
           items == [item EXCEPT ![i] = cell]
           table == [GrownTable(s) EXCEPT ![id] = i]
<1>1. /\ CellsOK /\ Placed /\ item \in Cells
      /\ publish_items \in [Session -> Seq(Item \cup {Null})]
      /\ next_free_publish_item \in [Session -> Nat \ {0}]
      /\ p.result \in Result /\ result[p.result] \in ResultCell /\ s \in Session
  BY ResultOf DEF IInv, CellsOK, Cells, ResultCell
<1>2. /\ old \in ResultCell /\ old.session = s
      /\ old.remaining = result[p.result].remaining
      /\ old.room # 0 => Len(old.blocked) + old.remaining <= old.room
      /\ old.room = 0 => old.remaining = 0
  BY WithRoomOK
<1>3. /\ id \in Nat \ {0}
      /\ GrownTable(s) \in Seq(Item \cup {Null})
      /\ \A d \in DOMAIN GrownTable(s) : GrownTable(s)[d] # Null =>
           /\ d \in DOMAIN publish_items[s]
           /\ GrownTable(s)[d] = publish_items[s][d]
  BY <1>1, Grown
<1>4. /\ item[i] = Null
      /\ publish_items' = [publish_items EXCEPT ![s] = table]
      /\ next_free_publish_item' = [next_free_publish_item EXCEPT ![s] = id + 1]
      /\ Answer(p, new, items)
  BY <1>2 DEF Subscribe
<1>5. cell \in PublishItem
  BY <1>1, <1>3 DEF PublishItem
<1>6. /\ cell.session = s /\ cell.key = k /\ cell.id = id
      /\ items \in Cells /\ items[i] = cell
      /\ \A j \in Item \ {i} : items[j] = item[j]
  BY <1>1, <1>5 DEF Cells
<1>7. /\ new \in ResultCell
      /\ new.session = s /\ new.remaining = result[p.result].remaining
      /\ new.room # 0 => Len(new.blocked) + new.remaining <= new.room + 1
      /\ new.room = 0 => new.blocked = <<>>
  <2> HIDE DEF old
  <2>1. /\ old.blocked \in Seq(Item) /\ Len(old.blocked) \in Nat
        /\ old.remaining \in Nat /\ old.room \in Nat
        /\ Append(old.blocked, i) \in Seq(Item)
        /\ Len(Append(old.blocked, i)) = Len(old.blocked) + 1
    BY <1>2 DEF ResultCell
  <2>2. /\ new \in ResultCell
        /\ new.session = old.session /\ new.remaining = old.remaining
        /\ new.room = old.room /\ new.blocked = Append(old.blocked, i)
    BY <1>2, <2>1 DEF ResultCell
  <2>3. new.remaining > 1 \/ new.remaining = 1
    BY <1>4 DEF Answer
  <2> HIDE DEF new
  <2> QED
    BY <1>2, <2>1, <2>2, <2>3
<1> HIDE DEF new, old, items, cell
<1>8. table \in Seq(Item \cup {Null})
  <2> DEFINE grown == GrownTable(s)
  <2>1. grown \in Seq(Item \cup {Null})
    BY <1>3
  <2> HIDE DEF grown, id
  <2>2. [grown EXCEPT ![id] = i] \in Seq(Item \cup {Null})
    <3>1. grown \in [1..Len(grown) -> Item \cup {Null}] /\ Len(grown) \in Nat
      BY <2>1
    <3>2. [grown EXCEPT ![id] = i] \in [1..Len(grown) -> Item \cup {Null}]
      BY <3>1
    <3> QED
      BY <3>1, <3>2
  <2> QED
    BY <2>2 DEF grown, id
<1>9. /\ publish_items' \in [Session -> Seq(Item \cup {Null})]
      /\ publish_items'[s] = table
      /\ \A t \in Session \ {s} : publish_items'[t] = publish_items[t]
      /\ next_free_publish_item' \in [Session -> Nat \ {0}]
  <2> HIDE DEF table, s, id
  <2> QED
    BY <1>1, <1>3, <1>4, <1>8
<1>10. DeletedKept
  <2>1. deleting # Null => deleting.session \in Session /\ s # deleting.session
    BY <1>1, ResultOf DEF CellsOK, Deleting
  <2> QED
    BY <1>9, <2>1 DEF DeletedKept
<1>11. /\ Counted' /\ Room'
       /\ result' \in [Result -> ResultCell \cup {Null}]
       /\ pending' \subseteq Owed /\ IsFiniteSet(pending')
  BY <1>4, <1>7, <1>10, AnswerCounts
<1>12. Alike(item', items)
  BY <1>4, <1>6, AnswerItems
<1>13. NotFreedEarly'
  <2> DEFINE gain == [x \in Key |-> IF k = x THEN 1 ELSE 0]
  <2>1. gain \in [Key -> {0, 1}]
    OBVIOUS
  <2>2. \A x \in Key : Cardinality(Points(items, x)) =
                         Cardinality(Points(item, x)) + (IF k = x THEN 1 ELSE 0)
    <3>1. \A x : Cardinality(Points([item EXCEPT ![i] = cell], x)) =
                   Cardinality(Points(item, x)) + (IF cell.key = x THEN 1 ELSE 0)
      BY <1>1, <1>4, <1>5, PointsMore
    <3> QED
      BY <1>6, <3>1 DEF items
  <2>3. /\ \A x \in Key : Cardinality(Points(items, x)) =
                            Cardinality(Points(item, x)) + gain[x]
        /\ \A x \in Key : reference_count[x] + gain[x] <=
                            reference_count'[x] + (IF p.key = x THEN 1 ELSE 0)
    BY <2>2
  <2> HIDE DEF gain
  <2> QED
    BY <1>4, <1>6, <2>1, <2>3, AnswerReferences
<1>14. Placed'
  <2> SUFFICES ASSUME NEW t \in Session, NEW d \in Used(t)'
               PROVE  /\ item'[publish_items'[t][d]] # Null
                      /\ item'[publish_items'[t][d]].session = t
                      /\ item'[publish_items'[t][d]].id = d
    BY DEF Placed
  <2> DEFINE j == publish_items'[t][d]
  <2>1. d \in DOMAIN publish_items'[t] /\ j # Null
    BY DEF Used
  <2>2. CASE t = s /\ d = id
    <3>1. j = i
      BY <1>3, <1>9, <2>1, <2>2
    <3>2. items[i] # Null
      BY <1>5, <1>6, SessionsAssumption
    <3> QED
      BY <1>6, <1>12, <2>2, <3>1, <3>2 DEF Alike
  <2>3. CASE ~ (t = s /\ d = id)
    <3>1. d \in Used(t) /\ j = publish_items[t][d]
      BY <1>1, <1>3, <1>9, <2>1, <2>3 DEF Used
    <3>2. /\ j \in Item /\ item[j] # Null
          /\ item[j].session = t /\ item[j].id = d
      BY <1>1, <3>1, UsedFinite DEF Placed
    <3>3. items[j] = item[j]
      BY <1>4, <1>6, <3>2
    <3> HIDE DEF j
    <3>4. item'[j] # Null /\ item'[j].session = t /\ item'[j].id = d
      BY <1>12, <3>2, <3>3 DEF Alike
    <3> QED
      BY <3>4 DEF j
  <2> QED
    BY <2>2, <2>3
<1> QED
  BY <1>1, <1>9, <1>11, <1>12, <1>13, <1>14 DEF IInv, CellsOK, Alike, Cells

LEMMA ReturnStep == IInv /\ (\E p \in pending : Return(p)) => IInv'
<1> SUFFICES ASSUME IInv, NEW p \in pending, Return(p) PROVE IInv'
  OBVIOUS
<1>0. p.key \in Key \cup {Null}
  BY ResultOf
<1>1. CASE ReturnCall(p) \/ ReturnUnsubscribe(p) \/ ReturnSubscribeReject(p)
  BY <1>1, PlainReturnStep
<1>2. ASSUME NEW i \in Item, ReturnSubscribeAccept(p, i) PROVE IInv'
  <2>1. /\ p.key \in Key /\ result[p.result].session # Null
        /\ Subscribe(p, p.key, i) /\ UNCHANGED <<handling, deleting, reference_count>>
    BY <1>0, <1>2 DEF ReturnSubscribeAccept, SubscribeAnswerSafe
  <2>2. reference_count \in [Key -> Nat]
    BY DEF IInv, CellsOK
  <2>3. \A x \in Key : reference_count[x] + (IF p.key = x THEN 1 ELSE 0) <=
                         reference_count'[x] + (IF p.key = x THEN 1 ELSE 0)
    BY <2>1, <2>2
  <2> QED
    BY <2>1, <2>2, <2>3, SubscribeStep
<1>3. ASSUME NEW i \in Item, NEW k \in Key \ {p.key}, ReturnSubscribeAlias(p, k, i)
      PROVE  IInv'
  <2>1. /\ p.key \in Key /\ result[p.result].session # Null
        /\ Subscribe(p, k, i) /\ UNCHANGED <<handling, deleting>>
        /\ reference_count' = Aliased(p.key, k)
    BY <1>0, <1>3 DEF ReturnSubscribeAlias, SubscribeAnswerSafe
  <2>2. /\ reference_count' \in [Key -> Nat]
        /\ \A x \in Key : reference_count[x] + (IF k = x THEN 1 ELSE 0) <=
                            reference_count'[x] + (IF p.key = x THEN 1 ELSE 0)
    BY <2>1, ReferencesPassed
  <2> QED
    BY <2>1, <2>2, SubscribeStep
<1>4. ASSUME NEW k \in Key \cup {Null}, NEW what \in Fails, ReturnSubscribeFails(p, k, what)
      PROVE  IInv'
  BY <1>4, FailsStep
<1>5. CASE SubscribeAnswerCrashes(p)
  BY <1>5, QuietStep DEF SubscribeAnswerCrashes, subs, answers, calls
<1> QED
  BY <1>1, <1>2, <1>3, <1>4, <1>5 DEF Return

(* The results of a session that is deleted lose it and nothing else.      *)
LEMMA OrphanedOK ==
    ASSUME CellsOK, NEW s \in Session
    PROVE  /\ Orphaned(s) \in [Result -> ResultCell \cup {Null}]
           /\ \A r \in Result :
                /\ Orphaned(s)[r] = Null <=> result[r] = Null
                /\ result[r] # Null =>
                     /\ Orphaned(s)[r].session # s
                     /\ Orphaned(s)[r].remaining = result[r].remaining
                     /\ Orphaned(s)[r].room = result[r].room
                     /\ Orphaned(s)[r].blocked = result[r].blocked
<1> SUFFICES ASSUME NEW r \in Result
             PROVE  /\ Orphaned(s)[r] \in ResultCell \cup {Null}
                    /\ Orphaned(s)[r] = Null <=> result[r] = Null
                    /\ result[r] # Null =>
                         /\ Orphaned(s)[r].session # s
                         /\ Orphaned(s)[r].remaining = result[r].remaining
                         /\ Orphaned(s)[r].room = result[r].room
                         /\ Orphaned(s)[r].blocked = result[r].blocked
  BY DEF Orphaned
<1>1. result[r] \in ResultCell \cup {Null}
  BY DEF CellsOK
<1>2. CASE result[r] # Null /\ result[r].session = s
  <2>1. Orphaned(s)[r] = [result[r] EXCEPT !.session = Null]
    BY <1>2 DEF Orphaned
  <2>2. Orphaned(s)[r] \in ResultCell
    BY <1>1, <1>2, <2>1 DEF ResultCell
  <2> QED
    BY <1>1, <1>2, <2>1, <2>2, SessionsAssumption DEF ResultCell
<1>3. CASE ~ (result[r] # Null /\ result[r].session = s)
  BY <1>1, <1>3 DEF Orphaned
<1> QED
  BY <1>2, <1>3

LEMMA SessionDeleteStep ==
    ASSUME IInv, NEW s \in Session, SessionDelete(s)
    PROVE  IInv'
<1>1. /\ CellsOK /\ Counted /\ Room /\ Placed /\ NotFreedEarly
      /\ handling = Null /\ deleting = Null /\ result' = Orphaned(s)
      /\ UNCHANGED <<reference_count, item, publish_items, next_free_publish_item,
                     pending, handling, deleting>>
  BY DEF SessionDelete, Idle, IInv, subs, tables, calls
<1>2. /\ result' \in [Result -> ResultCell \cup {Null}]
      /\ \A r \in Result :
           /\ result'[r] = Null <=> result[r] = Null
           /\ result[r] # Null => /\ result'[r].remaining = result[r].remaining
                                  /\ result'[r].room = result[r].room
                                  /\ result'[r].blocked = result[r].blocked
  BY <1>1, OrphanedOK
<1>3. AnswersCounted'
  BY <1>1, <1>2 DEF Counted, AnswersCounted, ToAsk
<1>4. Counted'
  BY <1>1, <1>2, <1>3 DEF Counted, OneLoop, HandlingOK, DeletingOK, Asked, CellsOK, Owed
<1>5. Room'
  BY <1>1, <1>2 DEF Room, RoomLeft, Unallocated
<1>6. Placed' /\ NotFreedEarly'
  BY <1>1 DEF Placed, Used, NotFreedEarly, Holders
<1> QED
  BY <1>1, <1>2, <1>4, <1>5, <1>6 DEF IInv, CellsOK

(* The loop over the publish items asks about one of them.                 *)
LEMMA DeleteItemStep ==
    ASSUME IInv, handling = Null, NEW s \in Session, NEW dummy \in Result,
           DeleteItem(s, dummy), Used(s) # {},
           result' \in [Result -> ResultCell \cup {Null}], Room',
           result'[dummy] # Null,
           \A r \in Result : result'[r] # Null =>
             /\ result'[r].session # s
             /\ result'[r].remaining = Cardinality(OfResult(pending, r))
                                         + (IF r = dummy THEN Cardinality(Used(s)) ELSE 0),
           \A p \in pending : /\ result'[p.result] # Null
                              /\ p.result = dummy => p.n > Cardinality(Used(s))
    PROVE  IInv'
<1> DEFINE id == Min(Used(s))
           i == publish_items[s][id]
           k == item[i].key
           n == Cardinality(Used(s))
           q == Owe(dummy, n, "unsubscribe", k)
<1>1. CellsOK /\ Placed /\ IsFiniteSet(pending)
  BY DEF IInv, CellsOK
<1>2. /\ Used(s) \subseteq Nat /\ IsFiniteSet(Used(s))
      /\ n \in Nat \ {0}
  BY <1>1, UsedFinite
<1>3. id \in Used(s)
  BY <1>2, MinInSet
<1>4. i \in Item /\ item[i] # Null /\ k \in Key
  BY <1>1, <1>3, UsedFinite DEF Placed, CellsOK, PublishItem
<1>5. /\ item' = [item EXCEPT ![i] = Null]
      /\ publish_items' = [publish_items EXCEPT ![s][id] = Null]
      /\ pending' = pending \cup {q}
      /\ UNCHANGED <<reference_count, next_free_publish_item, handling>>
      /\ deleting' = IF Used(s) = {id} THEN Null ELSE [session |-> s, result |-> dummy]
  BY DEF DeleteItem
<1>6. /\ q.result = dummy /\ q.n = n /\ q.key = k /\ q \in Owed
      /\ \A p \in pending : p.result = dummy => p.n \in Nat /\ p # q
  BY <1>1, <1>2, <1>4 DEF Owe, Owed, Kind, CellsOK
<1>7. q \notin pending
  BY <1>6
<1> HIDE DEF q
<1>8. /\ IsFiniteSet(pending')
      /\ \A r : /\ Cardinality(OfResult(pending, r)) \in Nat
                /\ Cardinality(OfResult(pending', r)) =
                     Cardinality(OfResult(pending, r)) + (IF dummy = r THEN 1 ELSE 0)
      /\ \A x : /\ Cardinality(OfKey(pending, x)) \in Nat
                /\ Cardinality(OfKey(pending', x)) =
                     Cardinality(OfKey(pending, x)) + (IF k = x THEN 1 ELSE 0)
  <2> HIDE DEF n, k
  <2>1. /\ IsFiniteSet(pending \cup {q})
        /\ \A r : /\ Cardinality(OfResult(pending, r)) \in Nat
                  /\ Cardinality(OfResult(pending \cup {q}, r)) =
                       Cardinality(OfResult(pending, r)) + (IF q.result = r THEN 1 ELSE 0)
        /\ \A x : /\ Cardinality(OfKey(pending, x)) \in Nat
                  /\ Cardinality(OfKey(pending \cup {q}, x)) =
                       Cardinality(OfKey(pending, x)) + (IF q.key = x THEN 1 ELSE 0)
    BY <1>1, <1>7, AskedMore
  <2> QED
    BY <1>5, <1>6, <2>1
<1>9. /\ item' \in Cells /\ Placed' /\ NotFreedEarly'
      /\ publish_items' \in [Session -> Seq(Item \cup {Null})]
      /\ Used(s)' = Used(s) \ {id}
  BY <1>3, <1>5, <1>8, ItemReleased
<1>10. /\ Cardinality(Used(s))' = n - 1
       /\ Used(s) = {id} <=> n = 1
       /\ Used(s) = {id} <=> Used(s)' = {}
  <2>1. Cardinality(Used(s) \ {id}) = n - 1 /\ IsFiniteSet(Used(s) \ {id})
    BY <1>2, <1>3, FS_RemoveElement
  <2>2. Used(s) = {id} <=> Used(s) \ {id} = {}
    BY <1>3
  <2>3. Cardinality(Used(s) \ {id}) = 0 <=> Used(s) \ {id} = {}
    BY <2>1, FS_EmptySet
  <2> QED
    BY <1>2, <1>9, <2>1, <2>2, <2>3
<1>11. /\ deleting' \in Deleting \cup {Null}
       /\ deleting' = Null <=> n = 1
       /\ deleting' # Null => deleting'.session = s /\ deleting'.result = dummy
  <2>1. [session |-> s, result |-> dummy] \in Deleting
    BY DEF Deleting
  <2>2. [session |-> s, result |-> dummy] # Null
    BY <2>1, SessionsAssumption
  <2> QED
    BY <1>5, <1>10, <2>1, <2>2
<1>12. \A r : ToAsk(r)' = IF r = dummy THEN n - 1 ELSE 0
  <2>1. CASE deleting' = Null
    BY <1>5, <1>11, <2>1 DEF ToAsk
  <2>2. CASE deleting' # Null
    BY <1>2, <1>5, <1>10, <1>11, <2>2 DEF ToAsk
  <2> QED
    BY <2>1, <2>2
<1>13. AnswersCounted'
  <2> SUFFICES ASSUME NEW r \in Result, result'[r] # Null
               PROVE  result'[r].remaining =
                        Cardinality(OfResult(pending', r)) + ToAsk(r)'
    BY DEF AnswersCounted, OfResult
  <2>1. CASE r = dummy
    BY <1>2, <1>8, <1>12, <2>1
  <2>2. CASE r # dummy
    BY <1>8, <1>12, <2>2
  <2> QED
    BY <2>1, <2>2
<1>14. OneLoop' /\ HandlingOK' /\ Asked'
  BY <1>5, <1>6 DEF OneLoop, HandlingOK, Asked
<1>15. DeletingOK'
  <2> SUFFICES ASSUME deleting' # Null
               PROVE  /\ Used(s)' # {}
                      /\ \A p \in pending' : p.result = dummy =>
                           p.n > Cardinality(Used(s))'
    BY <1>11 DEF DeletingOK
  <2>1. Used(s)' # {}
    BY <1>10, <1>11
  <2>2. ASSUME NEW p \in pending', p.result = dummy PROVE p.n > n - 1
    <3>1. p = q \/ (p \in pending /\ p.n > n /\ p.n \in Nat)
      BY <1>5, <1>6, <2>2
    <3> HIDE DEF n
    <3> QED
      BY <1>2, <1>6, <3>1
  <2> QED
    BY <1>10, <2>1, <2>2
<1>16. pending' \subseteq Owed
  BY <1>1, <1>5, <1>6 DEF CellsOK
<1> QED
  BY <1>1, <1>5, <1>8, <1>9, <1>11, <1>13, <1>14, <1>15, <1>16
  DEF IInv, Counted, CellsOK, Cells

LEMMA SessionDeleteBeginStep ==
    ASSUME IInv, NEW s \in Session, NEW dummy \in Result, SessionDeleteBegin(s, dummy)
    PROVE  IInv'
<1> DEFINE n == Cardinality(Used(s))
           new == NewResult(Null, n)
<1>1. /\ CellsOK /\ Counted /\ Room /\ handling = Null /\ deleting = Null
      /\ result[dummy] = Null /\ Used(s) # {} /\ DeleteItem(s, dummy)
      /\ result' = [Orphaned(s) EXCEPT ![dummy] = new]
  BY DEF SessionDeleteBegin, Idle, IInv
<1>2. n \in Nat
  BY <1>1, UsedFinite
<1>3. new \in ResultCell /\ new # Null
  <2>1. <<>> \in Seq(Item)
    OBVIOUS
  <2>2. new \in ResultCell
    BY <1>2, <2>1 DEF NewResult, ResultCell
  <2> QED
    BY <2>2, SessionsAssumption
<1>4. /\ new.session = Null /\ new.remaining = n /\ new.room = 0 /\ new.blocked = <<>>
  BY DEF NewResult
<1> HIDE DEF new
<1>5. /\ result' \in [Result -> ResultCell \cup {Null}]
      /\ result'[dummy] = new
      /\ \A r \in Result \ {dummy} :
           /\ result'[r] = Null <=> result[r] = Null
           /\ result[r] # Null => /\ result'[r].session # s
                                  /\ result'[r].remaining = result[r].remaining
                                  /\ result'[r].room = result[r].room
                                  /\ result'[r].blocked = result[r].blocked
  BY <1>1, <1>3, OrphanedOK
<1>6. Room'
  BY <1>1, <1>4, <1>5 DEF Room, RoomLeft, Unallocated
<1>7. \A p \in pending : p.result \in Result \ {dummy} /\ result'[p.result] # Null
  BY <1>1, <1>5 DEF Counted, Asked, CellsOK, Owed
<1>8. \A r \in Result : result'[r] # Null =>
        /\ result'[r].session # s
        /\ result'[r].remaining =
             Cardinality(OfResult(pending, r)) + (IF r = dummy THEN n ELSE 0)
  <2> SUFFICES ASSUME NEW r \in Result, result'[r] # Null
               PROVE  /\ result'[r].session # s
                      /\ result'[r].remaining =
                           Cardinality(OfResult(pending, r)) + (IF r = dummy THEN n ELSE 0)
    OBVIOUS
  <2>1. CASE r = dummy
    <3>1. OfResult(pending, r) = {}
      BY <1>7, <2>1 DEF OfResult
    <3>2. Cardinality(OfResult(pending, r)) = 0
      BY <3>1, FS_EmptySet
    <3> HIDE DEF n
    <3> QED
      BY <1>2, <1>4, <1>5, <2>1, <3>2, SessionsAssumption
  <2>2. CASE r # dummy
    <3>1. ToAsk(r) = 0
      BY <1>1 DEF ToAsk
    <3>2. result[r].remaining = Cardinality(OfResult(pending, r)) + ToAsk(r)
      BY <1>1, <1>5, <2>2 DEF Counted, AnswersCounted, OfResult
    <3> QED
      BY <1>5, <2>2, <3>1, <3>2
  <2> QED
    BY <2>1, <2>2
<1> QED
  BY <1>1, <1>3, <1>5, <1>6, <1>7, <1>8, DeleteItemStep

LEMMA SessionDeleteItemStep == IInv /\ SessionDeleteItem => IInv'
<1> SUFFICES ASSUME IInv, SessionDeleteItem PROVE IInv'
  OBVIOUS
<1> DEFINE s == deleting.session
           dummy == deleting.result
<1>1. /\ CellsOK /\ Counted /\ Room /\ deleting # Null /\ handling = Null
      /\ s \in Session /\ dummy \in Result
      /\ UNCHANGED result /\ DeleteItem(s, dummy)
  BY DEF SessionDeleteItem, IInv, Counted, OneLoop, CellsOK, Deleting
<1>2. /\ Used(s) # {} /\ result[dummy] # Null
      /\ \A r \in Result : result[r] # Null => result[r].session # s
      /\ \A p \in pending : /\ result[p.result] # Null
                            /\ p.result = dummy => p.n > Cardinality(Used(s))
  BY <1>1 DEF Counted, DeletingOK, Asked
<1>3. /\ result' \in [Result -> ResultCell \cup {Null}] /\ Room'
      /\ \A r : result'[r] = result[r]
  BY <1>1 DEF CellsOK, Room, RoomLeft, Unallocated
<1>4. \A r \in Result : result[r] # Null =>
        result[r].remaining = Cardinality(OfResult(pending, r))
                                + (IF r = dummy THEN Cardinality(Used(s)) ELSE 0)
  <2> SUFFICES ASSUME NEW r \in Result, result[r] # Null
               PROVE  result[r].remaining = Cardinality(OfResult(pending, r))
                                + (IF r = dummy THEN Cardinality(Used(s)) ELSE 0)
    OBVIOUS
  <2>1. Cardinality(Used(s)) \in Nat
    BY <1>1, UsedFinite
  <2>2. ToAsk(r) = IF r = dummy THEN Cardinality(Used(s)) ELSE 0
    BY <1>1, <2>1 DEF ToAsk
  <2>3. result[r].remaining = Cardinality(OfResult(pending, r)) + ToAsk(r)
    BY <1>1 DEF Counted, AnswersCounted, OfResult
  <2> QED
    BY <2>2, <2>3
<1> QED
  BY <1>1, <1>2, <1>3, <1>4, DeleteItemStep

-----------------------------------------------------------------------------
(* Between sessions and messages nothing is asked, referenced or counted.  *)
LEMMA InitInv == Init => IInv
<1> SUFFICES ASSUME Init PROVE IInv
  OBVIOUS
<1> USE SessionsAssumption DEF Init
<1>1. CellsOK
  <2>1. IsFiniteSet(pending)
    BY FS_EmptySet
  <2>2. publish_items \in [Session -> Seq(Item \cup {Null})]
    OBVIOUS
  <2> QED
    BY <2>1, <2>2 DEF CellsOK
<1>2. Counted /\ Room
  BY DEF Counted, OneLoop, HandlingOK, DeletingOK, Asked, AnswersCounted,
     Room, RoomLeft, Unallocated
<1>3. Placed
  BY DEF Placed, Used
<1>4. NotFreedEarly
  <2> SUFFICES ASSUME NEW k \in Key PROVE Holders(k) <= reference_count[k]
    BY DEF NotFreedEarly
  <2>1. Points(item, k) = {} /\ OfKey(pending, k) = {}
    BY DEF Points, OfKey
  <2>2. Cardinality(Points(item, k)) = 0 /\ Cardinality(OfKey(pending, k)) = 0
    BY <2>1, FS_EmptySet
  <2> QED
    BY <2>2, HoldersNamed
<1> QED
  BY <1>1, <1>2, <1>3, <1>4 DEF IInv

(* The invariant is inductive.                                             *)
LEMMA NextInv == IInv /\ [Next]_vars => IInv'
<1> SUFFICES ASSUME IInv, [Next]_vars PROVE IInv'
  OBVIOUS
<1>1. ASSUME NEW s \in Session, Receive(s, 0) PROVE IInv'
  <2>1. CASE SessionCreate(s)
    BY <2>1, QuietStep DEF SessionCreate, subs, calls
  <2>2. CASE HandleHello(s)
    BY <2>2, QuietStep DEF HandleHello, subs, answers, calls
  <2>3. ASSUME NEW r \in Result, NEW kind \in Kind, NEW count \in 0..MaxItems,
               HandleMessage(s, r, kind, count)
        PROVE  IInv'
    BY <2>3, MessageStep, SessionsAssumption
  <2> QED
    BY <1>1, <2>1, <2>2, <2>3 DEF Receive
<1>2. ASSUME NEW s \in Session, Delete(s) PROVE IInv'
  BY <1>2, SessionDeleteStep, SessionDeleteBeginStep DEF Delete
<1>3. CASE Dispatch
  BY <1>3, DispatchStep
<1>4. ASSUME NEW id \in Ids, DispatchUnsubscribe(id) PROVE IInv'
  BY <1>4, UnsubscribeStep
<1>5. CASE \E p \in pending : Return(p)
  BY <1>5, ReturnStep
<1>6. CASE (\E k \in Key : Publish(k)) \/ Republish
  BY <1>6, QuietStep DEF Publish, Republish, Notify, subs
<1>7. CASE RepublishNothing
  BY <1>7, QuietStep DEF RepublishNothing, subs, answers
<1>8. CASE SessionDeleteItem
  BY <1>8, SessionDeleteItemStep
<1>9. CASE UNCHANGED vars
  BY <1>9, QuietStep DEF vars, subs, answers, calls
<1> QED
  BY <1>1, <1>2, <1>3, <1>4, <1>5, <1>6, <1>7, <1>8, <1>9 DEF Next

(* The inductive invariant holds in every state.                           *)
THEOREM InvCorrect == Spec => []IInv
  BY InitInv, NextInv, PTL DEF Spec

(* A subscription is not freed while a publish item or an unanswered item  *)
(* of a message points to it, whatever client and application do and       *)
(* whichever allocation fails (wpcp_release_subscription).                 *)
THEOREM NotFreedEarlyCorrect == Spec => []NotFreedEarly
<1>1. IInv => NotFreedEarly
  BY DEF IInv
<1> QED
  BY InvCorrect, <1>1, PTL

(* Every answer finds its result, and is counted as the last one exactly   *)
(* when nothing is asked with it any more (wpcp_release_result), also      *)
(* while its session is deleted.                                           *)
THEOREM AnswersCorrect == Spec => [](Asked /\ AnswersCounted)
<1>1. IInv => Asked /\ AnswersCounted
  BY DEF IInv, Counted
<1> QED
  BY InvCorrect, <1>1, PTL

(* blocked_items is never written beyond what was allocated with its first *)
(* item (wpcp_result_get_blocked_publish_item_target).                     *)
THEOREM RoomLeftCorrect == Spec => []RoomLeft
<1>1. IInv => RoomLeft
  BY DEF IInv, Room
<1> QED
  BY InvCorrect, <1>1, PTL

(* What the tables of publish ids hold are live publish items of their     *)
(* session, under their own id (wpcp_session_release_publish_item).        *)
THEOREM PlacedCorrect == Spec => []Placed
<1>1. IInv => Placed
  BY DEF IInv
<1> QED
  BY InvCorrect, <1>1, PTL

-----------------------------------------------------------------------------
(* Nothing is leaked, as long as a publish item is all there may be no     *)
(* memory for: the other failures of wpcp_return_subscribe_internal keep   *)
(* the reference of a question nobody will answer any more.                *)
OnlyItemsFail == Fails \cap {"table", "blocked"} = {}

(* Only questions about subscriptions hold one.                            *)
CallsHoldNothing == \A p \in pending : p.kind = "call" => p.key = Null

NoLeak ==
    /\ CallsHoldNothing
    /\ NotLeaked

(* A reference count that changes as the holders do.                       *)
LEMMA LeakFollows ==
    ASSUME IInv, NotLeaked,
           \A x \in Key : /\ Holders(x) \in Nat /\ Holders(x)' \in Nat
                          /\ reference_count'[x] \in Nat
                          /\ \E more, less \in {0, 1} :
                               /\ Holders(x)' + less = Holders(x) + more
                               /\ reference_count'[x] + less = reference_count[x] + more
    PROVE  NotLeaked'
<1> SUFFICES ASSUME NEW x \in Key PROVE reference_count'[x] <= Holders(x)'
  BY DEF NotLeaked
<1>1. PICK more \in {0, 1}, less \in {0, 1} :
        /\ Holders(x)' + less = Holders(x) + more
        /\ reference_count'[x] + less = reference_count[x] + more
  OBVIOUS
<1>2. /\ reference_count[x] \in Nat /\ reference_count[x] <= Holders(x)
      /\ Holders(x) \in Nat /\ Holders(x)' \in Nat /\ reference_count'[x] \in Nat
  BY DEF IInv, CellsOK, NotLeaked
<1> QED
  BY <1>1, <1>2

LEMMA PlainHolders ==
    ASSUME IInv, NEW p \in pending, NEW res, Answer(p, res, item), NEW x \in Key
    PROVE  /\ Holders(x) \in Nat
           /\ Holders(x)' \in Nat
           /\ Holders(x)' + (IF p.key = x THEN 1 ELSE 0) = Holders(x)
<1> DEFINE gain == [y \in Key |-> 0]
<1>1. item \in Cells /\ gain \in [Key -> {0, 1}]
  BY DEF IInv, CellsOK, Cells
<1>2. \A y \in Key : Cardinality(Points(item, y)) =
                       Cardinality(Points(item, y)) + gain[y]
  <2>1. \A y \in Key : Cardinality(Points(item, y)) \in Nat
    BY SessionsAssumption, FS_Subset, FS_CardinalityType DEF Points
  <2> QED
    BY <2>1
<1>3. gain[x] = 0
  OBVIOUS
<1> HIDE DEF gain
<1>4. /\ Holders(x) \in Nat /\ Holders(x)' \in Nat
      /\ Holders(x)' + (IF p.key = x THEN 1 ELSE 0) = Holders(x) + gain[x]
  BY <1>1, <1>2, AnswerHolders
<1> QED
  BY <1>3, <1>4

LEMMA SubscribeHolders ==
    ASSUME IInv, NEW p \in pending, NEW k \in Key, NEW i \in Item,
           result[p.result].session # Null, Subscribe(p, k, i), NEW x \in Key
    PROVE  /\ Holders(x) \in Nat
           /\ Holders(x)' \in Nat
           /\ Holders(x)' + (IF p.key = x THEN 1 ELSE 0) =
                Holders(x) + (IF k = x THEN 1 ELSE 0)
<1> DEFINE s == result[p.result].session
           cell == [session |-> s, key |-> k, id |-> NextFreeId(s), by |-> p.result]
           items == [item EXCEPT ![i] = cell]
           gain == [y \in Key |-> IF k = y THEN 1 ELSE 0]
<1>1. /\ CellsOK /\ item \in Cells /\ s \in Session /\ p.result \in Result
  BY ResultOf DEF IInv, CellsOK, Cells, ResultCell
<1>2. cell \in PublishItem /\ cell.key = k
  BY <1>1, Grown DEF PublishItem
<1>3. item[i] = Null /\ \E res : Answer(p, res, items)
  <2>1. WithRoom(result[p.result]).session = s
    BY WithRoomOK
  <2>2. Answer(p, [WithRoom(result[p.result]) EXCEPT !.blocked = Append(@, i)], items)
    BY <2>1 DEF Subscribe
  <2> QED
    BY <2>2 DEF Subscribe
<1> HIDE DEF cell
<1>4. /\ items \in Cells
      /\ \A y \in Key : Cardinality(Points(items, y)) =
                          Cardinality(Points(item, y)) + (IF cell.key = y THEN 1 ELSE 0)
  BY <1>1, <1>2, <1>3, PointsMore
<1>5. /\ gain \in [Key -> {0, 1}]
      /\ \A y \in Key : gain[y] = IF cell.key = y THEN 1 ELSE 0
  BY <1>2
<1> HIDE DEF gain, items
<1>6. /\ Holders(x) \in Nat /\ Holders(x)' \in Nat
      /\ Holders(x)' + (IF p.key = x THEN 1 ELSE 0) = Holders(x) + gain[x]
  BY <1>3, <1>4, <1>5, AnswerHolders
<1> QED
  BY <1>2, <1>5, <1>6

(* An answer leaves the questions before it as they were.                  *)
LEMMA ReturnLeakStep ==
    ASSUME OnlyItemsFail, IInv, IInv', NoLeak, NEW p \in pending, Return(p)
    PROVE  NoLeak'
<1>1. /\ reference_count \in [Key -> Nat] /\ reference_count' \in [Key -> Nat]
      /\ p.key \in Key \cup {Null}
      /\ Null \notin Key
  BY ResultOf, SessionsAssumption DEF IInv, CellsOK
<1>2. pending' \subseteq pending
  BY DEF Return, ReturnCall, ReturnUnsubscribe, ReturnSubscribeReject,
     ReturnSubscribeAccept, ReturnSubscribeAlias, ReturnSubscribeFails,
     SubscribeAnswerCrashes, Subscribe, Answer, answers
<1>3. CallsHoldNothing'
  BY <1>2 DEF NoLeak, CallsHoldNothing
<1> DEFINE Follows(x) ==
             /\ Holders(x) \in Nat /\ Holders(x)' \in Nat
             /\ \E more, less \in {0, 1} :
                  /\ Holders(x)' + less = Holders(x) + more
                  /\ reference_count'[x] + less = reference_count[x] + more
<1>4. ASSUME NEW x \in Key, ~ SubscribeAnswerCrashes(p) PROVE Follows(x)
  <2> DEFINE less == IF p.key = x THEN 1 ELSE 0
  <2>1. ASSUME NEW res, Answer(p, res, item),
               reference_count'[x] + less = reference_count[x]
        PROVE  Follows(x)
    <3>1. /\ Holders(x) \in Nat /\ Holders(x)' \in Nat
          /\ Holders(x)' + less = Holders(x)
      BY <2>1, PlainHolders
    <3> QED
      BY <1>1, <2>1, <3>1
  <2>2. ASSUME NEW k \in Key, NEW i \in Item,
               result[p.result].session # Null, Subscribe(p, k, i),
               reference_count'[x] + less = reference_count[x] + (IF k = x THEN 1 ELSE 0)
        PROVE  Follows(x)
    <3>1. /\ Holders(x) \in Nat /\ Holders(x)' \in Nat
          /\ Holders(x)' + less = Holders(x) + (IF k = x THEN 1 ELSE 0)
      BY <2>2, SubscribeHolders
    <3> QED
      BY <2>2, <3>1
  <2>3. p.key \in Key => Released(p.key)[x] + less = reference_count[x]
    BY <1>1, ReferencesPassed
  <2>4. CASE ReturnCall(p)
    <3>1. p.key = Null /\ UNCHANGED reference_count /\ Answer(p, result[p.result], item)
      BY <2>4 DEF ReturnCall, NoLeak, CallsHoldNothing
    <3> QED
      BY <1>1, <2>1, <3>1
  <2>5. CASE ReturnUnsubscribe(p) \/ ReturnSubscribeReject(p)
    <3>1. /\ Answer(p, result[p.result], item)
          /\ reference_count' = IF p.key = Null THEN reference_count ELSE Released(p.key)
      BY <2>5 DEF ReturnUnsubscribe, ReturnSubscribeReject, SubscribeAnswerSafe
    <3> QED
      BY <1>1, <2>1, <2>3, <3>1
  <2>6. ASSUME NEW i \in Item, ReturnSubscribeAccept(p, i) PROVE Follows(x)
    <3>1. /\ p.key \in Key /\ result[p.result].session # Null
          /\ Subscribe(p, p.key, i) /\ UNCHANGED reference_count
      BY <1>1, <2>6 DEF ReturnSubscribeAccept, SubscribeAnswerSafe
    <3> QED
      BY <1>1, <2>2, <3>1
  <2>7. ASSUME NEW i \in Item, NEW k \in Key \ {p.key}, ReturnSubscribeAlias(p, k, i)
        PROVE  Follows(x)
    <3>1. /\ p.key \in Key /\ result[p.result].session # Null
          /\ Subscribe(p, k, i) /\ reference_count' = Aliased(p.key, k)
      BY <1>1, <2>7 DEF ReturnSubscribeAlias, SubscribeAnswerSafe
    <3>2. Aliased(p.key, k)[x] + less = reference_count[x] + (IF k = x THEN 1 ELSE 0)
      BY <3>1, ReferencesPassed
    <3> QED
      BY <2>2, <3>1, <3>2
  <2>8. ASSUME NEW k \in Key \cup {Null}, NEW what \in Fails,
               ReturnSubscribeFails(p, k, what)
        PROVE  Follows(x)
    <3>1. /\ what = "item" /\ k # Null /\ p.key \in Key
          /\ \E res : Answer(p, res, item)
          /\ reference_count' = Released(p.key)
      BY <1>1, <2>8 DEF ReturnSubscribeFails, OnlyItemsFail
    <3> QED
      BY <2>1, <2>3, <3>1
  <2> QED
    BY <1>4, <2>4, <2>5, <2>6, <2>7, <2>8 DEF Return
<1>5. NotLeaked'
  <2>1. CASE SubscribeAnswerCrashes(p)
    BY <2>1 DEF SubscribeAnswerCrashes, subs, answers, NoLeak, NotLeaked, Holders
  <2>2. CASE ~ SubscribeAnswerCrashes(p)
    <3> HIDE DEF Follows
    <3>1. \A x \in Key : Follows(x)
      BY <1>4, <2>2
    <3> QED
      BY <1>1, <3>1, LeakFollows DEF Follows, NoLeak
  <2> QED
    BY <2>1, <2>2
<1> QED
  BY <1>3, <1>5 DEF NoLeak

(* A question of the loop over a message holds what it was given.          *)
LEMMA AskLeakStep ==
    ASSUME IInv, IInv', NoLeak, handling # Null, NEW kind \in Kind, NEW k \in Key \cup {Null},
           kind = "call" => k = Null,
           pending' = pending \cup {Owe(handling.result, handling.todo, kind, k)},
           Dispatched, UNCHANGED <<item, result, deleting>>,
           reference_count' = IF k = Null THEN reference_count
                              ELSE [reference_count EXCEPT ![k] = @ + 1]
    PROVE  NoLeak'
<1>1. /\ reference_count \in [Key -> Nat] /\ reference_count' \in [Key -> Nat]
      /\ Null \notin Key /\ IsFiniteSet(pending)
  BY SessionsAssumption DEF IInv, CellsOK
<1>2. CallsHoldNothing'
  BY DEF NoLeak, CallsHoldNothing, Owe
<1>3. ASSUME NEW x \in Key
      PROVE  /\ Holders(x) \in Nat /\ Holders(x)' \in Nat
             /\ reference_count'[x] \in Nat
             /\ \E more, less \in {0, 1} :
                  /\ Holders(x)' + less = Holders(x) + more
                  /\ reference_count'[x] + less = reference_count[x] + more
  <2>1. /\ Cardinality(Points(item, x)) \in Nat /\ Cardinality(OfKey(pending, x)) \in Nat
        /\ Holders(x) = Cardinality(Points(item, x)) + Cardinality(OfKey(pending, x))
        /\ Holders(x)' = Cardinality(Points(item, x)) + Cardinality(OfKey(pending', x))
    BY <1>1, SessionsAssumption, FS_Subset, FS_CardinalityType, HoldersNamed
    DEF Points, OfKey
  <2>2. Cardinality(OfKey(pending', x)) =
          Cardinality(OfKey(pending, x)) + (IF k = x THEN 1 ELSE 0)
    BY QuestionCounts
  <2>3. reference_count'[x] = reference_count[x] + (IF k = x THEN 1 ELSE 0)
    BY <1>1
  <2>4. CASE k = x
    <3>1. Holders(x)' + 0 = Holders(x) + 1 /\ reference_count'[x] + 0 = reference_count[x] + 1
      BY <1>1, <2>1, <2>2, <2>3, <2>4
    <3> QED
      BY <1>1, <2>1, <2>2, <3>1
  <2>5. CASE k # x
    <3>1. Holders(x)' + 0 = Holders(x) + 0 /\ reference_count'[x] + 0 = reference_count[x] + 0
      BY <1>1, <2>1, <2>2, <2>3, <2>5
    <3> QED
      BY <1>1, <2>1, <2>2, <3>1
  <2> QED
    BY <2>4, <2>5
<1>4. NotLeaked'
  BY <1>3, LeakFollows DEF NoLeak
<1> QED
  BY <1>2, <1>4 DEF NoLeak

(* A released publish item passes its reference to the question.           *)
LEMMA ReleaseLeakStep ==
    ASSUME IInv, NoLeak, NEW s \in Session, NEW id \in Used(s), NEW r, NEW n, NEW i,
           i = publish_items[s][id],
           item' = [item EXCEPT ![i] = Null],
           publish_items' = [publish_items EXCEPT ![s][id] = Null],
           pending' = pending \cup {Owe(r, n, "unsubscribe", item[i].key)},
           Owe(r, n, "unsubscribe", item[i].key) \notin pending,
           UNCHANGED reference_count
    PROVE  NoLeak'
<1> DEFINE q == Owe(r, n, "unsubscribe", item[i].key)
<1>1. IsFiniteSet(pending) /\ q \notin pending
  BY DEF IInv, CellsOK
<1>2. q.key = item[i].key /\ q.kind = "unsubscribe"
  BY DEF Owe
<1> HIDE DEF q
<1>3. \A k : /\ Cardinality(OfKey(pending, k)) \in Nat
             /\ Cardinality(OfKey(pending \cup {q}, k)) =
                  Cardinality(OfKey(pending, k)) + (IF q.key = k THEN 1 ELSE 0)
  BY <1>1, AskedMore
<1>4. \A k : Cardinality(OfKey(pending', k)) =
               Cardinality(OfKey(pending, k)) + (IF item[i].key = k THEN 1 ELSE 0)
  BY <1>2, <1>3 DEF q
<1>5. \A x \in Key : Holders(x)' = Holders(x)
  BY <1>4, ItemReleased
<1>6. CallsHoldNothing'
  BY <1>2 DEF q, NoLeak, CallsHoldNothing
<1> QED
  BY <1>5, <1>6 DEF NoLeak, NotLeaked

LEMMA DispatchLeakStep == IInv /\ IInv' /\ NoLeak /\ Dispatch => NoLeak'
<1> SUFFICES ASSUME IInv, IInv', NoLeak, Dispatch PROVE NoLeak'
  OBVIOUS
<1> USE DEF subs, tables, Kind
<1>1. CASE DispatchCall
  BY <1>1, AskLeakStep DEF DispatchCall
<1>2. ASSUME NEW k \in Key, DispatchSubscribe(k) PROVE NoLeak'
  BY <1>2, AskLeakStep, SessionsAssumption DEF DispatchSubscribe
<1>3. CASE DispatchSubscribeFails
  BY <1>3, AskLeakStep DEF DispatchSubscribeFails
<1>4. CASE DispatchUnknown
  BY <1>4, AskLeakStep DEF DispatchUnknown
<1> QED
  BY <1>1, <1>2, <1>3, <1>4 DEF Dispatch

LEMMA UnsubscribeLeakStep ==
    ASSUME IInv, NoLeak, NEW id, DispatchUnsubscribe(id)
    PROVE  NoLeak'
<1> DEFINE s == handling.session
           i == publish_items[s][id]
           q == Owe(handling.result, handling.todo, "unsubscribe", item[i].key)
<1>1. /\ handling # Null /\ s \in Session /\ id \in Used(s)
      /\ UNCHANGED reference_count
  BY DEF DispatchUnsubscribe, IInv, CellsOK, Handling, Used
<1>2. q \notin pending
  <2>1. /\ handling.todo \in Nat
        /\ \A p \in pending : p.n \in Nat
        /\ \A p \in pending : p.result = handling.result => p.n > handling.todo
    BY <1>1 DEF IInv, CellsOK, Handling, Owed, Counted, HandlingOK
  <2>2. q.result = handling.result /\ q.n = handling.todo
    BY DEF Owe
  <2> HIDE DEF q
  <2> QED
    BY <2>1, <2>2
<1>3. /\ item' = [item EXCEPT ![i] = Null]
      /\ publish_items' = [publish_items EXCEPT ![s][id] = Null]
      /\ pending' = pending \cup {q}
  BY DEF DispatchUnsubscribe
<1> QED
  BY <1>1, <1>2, <1>3, ReleaseLeakStep

(* The loop over the publish items of a session that is deleted; questions *)
(* with dummy are numbered above what is left.                             *)
LEMMA DeleteItemLeakStep ==
    ASSUME IInv, NoLeak, NEW s \in Session, NEW dummy, DeleteItem(s, dummy), Used(s) # {},
           \A p \in pending : p.result = dummy => p.n > Cardinality(Used(s))
    PROVE  NoLeak'
<1> DEFINE id == Min(Used(s))
           i == publish_items[s][id]
           q == Owe(dummy, Cardinality(Used(s)), "unsubscribe", item[i].key)
<1>1. CellsOK
  BY DEF IInv
<1>2. Used(s) \in SUBSET Nat /\ Cardinality(Used(s)) \in Nat
  BY <1>1, UsedFinite
<1>3. id \in Used(s)
  BY <1>2, MinInSet
<1>4. q \notin pending
  <2>1. q.result = dummy /\ q.n = Cardinality(Used(s))
    BY DEF Owe
  <2> HIDE DEF q
  <2> QED
    BY <1>2, <2>1
<1>5. /\ item' = [item EXCEPT ![i] = Null]
      /\ publish_items' = [publish_items EXCEPT ![s][id] = Null]
      /\ pending' = pending \cup {q}
      /\ UNCHANGED reference_count
  BY DEF DeleteItem
<1> HIDE DEF id
<1> QED
  BY <1>3, <1>4, <1>5, ReleaseLeakStep

LEMMA LeakStep ==
    ASSUME OnlyItemsFail
    PROVE  IInv /\ IInv' /\ NoLeak /\ [Next]_vars => NoLeak'
<1> SUFFICES ASSUME IInv, IInv', NoLeak, [Next]_vars PROVE NoLeak'
  OBVIOUS
<1> DEFINE Same == UNCHANGED <<reference_count, item, pending>>
<1>1. Same => NoLeak'
  BY DEF NoLeak, CallsHoldNothing, NotLeaked, Holders
<1>2. ASSUME NEW s \in Session, Receive(s, 0) PROVE Same
  BY <1>2 DEF Receive, SessionCreate, HandleHello, HandleMessage, subs, answers
<1>3. ASSUME NEW s \in Session, Delete(s) PROVE NoLeak'
  <2>1. CASE SessionDelete(s)
    BY <1>1, <2>1 DEF SessionDelete, subs
  <2>2. ASSUME NEW dummy \in Result, SessionDeleteBegin(s, dummy) PROVE NoLeak'
    <3>1. \A p \in pending : p.result # dummy
      BY <2>2 DEF SessionDeleteBegin, IInv, Counted, Asked
    <3> QED
      BY <2>2, <3>1, DeleteItemLeakStep DEF SessionDeleteBegin
  <2> QED
    BY <1>3, <2>1, <2>2 DEF Delete
<1>4. CASE Dispatch
  BY <1>4, DispatchLeakStep
<1>5. ASSUME NEW id \in Ids, DispatchUnsubscribe(id) PROVE NoLeak'
  BY <1>5, UnsubscribeLeakStep
<1>6. CASE \E p \in pending : Return(p)
  BY <1>6, ReturnLeakStep
<1>7. CASE (\E k \in Key : Publish(k)) \/ Republish \/ RepublishNothing
  BY <1>1, <1>7 DEF Publish, Republish, RepublishNothing, Notify, subs, answers
<1>8. CASE SessionDeleteItem
  <2>1. /\ deleting.session \in Session /\ Used(deleting.session) # {}
        /\ DeleteItem(deleting.session, deleting.result)
        /\ \A p \in pending : p.result = deleting.result =>
             p.n > Cardinality(Used(deleting.session))
    BY <1>8 DEF SessionDeleteItem, IInv, CellsOK, Deleting, Counted, DeletingOK
  <2> QED
    BY <2>1, DeleteItemLeakStep
<1>9. CASE UNCHANGED vars
  BY <1>1, <1>9 DEF vars, subs, answers
<1> QED
  BY <1>1, <1>2, <1>3, <1>4, <1>5, <1>6, <1>7, <1>8, <1>9 DEF Next

(* What callers that are prompt do is something callers can do.            *)
LEMMA PromptSteps == [PromptNext]_vars => [Next]_vars
<1>1. \A s \in Session : Receive(s, 1) => Receive(s, 0)
  BY SessionsAssumption DEF Receive
<1> QED
  BY <1>1 DEF PromptNext, Next

(* A subscription is freed as soon as nothing points to it, when only      *)
(* publish items can not be allocated (wpcp_return_subscribe_internal      *)
(* keeps the reference in the other failures); for any callers, and so for *)
(* prompt ones.                                                            *)
THEOREM NotLeakedCorrect ==
    ASSUME OnlyItemsFail
    PROVE  (Spec => []NotLeaked) /\ (PromptSpec => []NotLeaked)
<1>1. Init => NoLeak
  <2> SUFFICES ASSUME Init PROVE NoLeak
    OBVIOUS
  <2>1. CallsHoldNothing
    BY DEF Init, CallsHoldNothing
  <2>2. NotLeaked
    <3> SUFFICES ASSUME NEW k \in Key PROVE reference_count[k] <= Holders(k)
      BY DEF NotLeaked
    <3>1. Holders(k) \in Nat
      <4>1. IsFiniteSet(pending)
        BY FS_EmptySet DEF Init
      <4>2. Cardinality(Points(item, k)) \in Nat /\ Cardinality(OfKey(pending, k)) \in Nat
        BY <4>1, SessionsAssumption, FS_Subset, FS_CardinalityType DEF Points, OfKey
      <4> QED
        BY <4>2, HoldersNamed
    <3> QED
      BY <3>1 DEF Init
  <2> QED
    BY <2>1, <2>2 DEF NoLeak
<1>2. IInv /\ IInv' /\ NoLeak /\ [Next]_vars => NoLeak'
  BY LeakStep
<1>3. NoLeak => NotLeaked
  BY DEF NoLeak
<1> QED
  BY InitInv, NextInv, PromptSteps, <1>1, <1>2, <1>3, PTL DEF Spec, PromptSpec
=============================================================================
