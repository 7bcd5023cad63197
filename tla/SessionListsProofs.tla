------------------------ MODULE SessionListsProofs ------------------------
(***************************************************************************)
(* The lists, tables and ids of Sessions agree, whatever client and        *)
(* application do; and with clients and applications that are prompt,      *)
(* notifications follow the result with their id and nothing is used       *)
(* through a NULL pointer.  All of it for any number of sessions,          *)
(* subscriptions, items and messages.                                      *)
(***************************************************************************)
EXTENDS SessionsProofs

(* The types of what IInv does not speak of.                               *)
ListTypes ==
    /\ ListsOK
    /\ session \in [Session -> {"none", "new", "open", "deleting"}]
    /\ republish \in Item \cup {Null}
    /\ early \in BOOLEAN
    /\ undefined \in BOOLEAN

(* A publish item is in the table of its session, under its id.            *)
InTables ==
    \A i \in Item : item[i] # Null =>
        /\ session[item[i].session] \in {"open", "deleting"}
        /\ item[i].id \in DOMAIN publish_items[item[i].session]
        /\ publish_items[item[i].session][item[i].id] = i

InHandles ==
    \A k \in Key :
        /\ IsInjective(publish_handle[k])
        /\ ToSet(publish_handle[k]) = {i \in Item : item[i] # Null /\ item[i].key = k}

InResults ==
    \A s \in Session :
        /\ IsInjective(results[s])
        /\ ToSet(results[s]) = {r \in Result : result[r] # Null /\ result[r].session = s}

(* Only an open session has results, and a new one has no ids yet.         *)
OpenOnly ==
    /\ \A r \in Result : result[r] # Null /\ result[r].session # Null =>
         session[result[r].session] = "open"
    /\ \A s \in Session : session[s] = "new" => next_free_publish_item[s] = 1

Lists ==
    /\ ListTypes
    /\ InTables
    /\ InHandles
    /\ InResults
    /\ OpenOnly
    /\ LeastIds

-----------------------------------------------------------------------------
(* What a prompt application and client keep, besides.                     *)

(* Whom a result blocks is a publish item that it announces.               *)
BlocksItsOwn ==
    \A r \in Result : result[r] # Null /\ result[r].session # Null =>
        \A i \in ToSet(result[r].blocked) :
            item[i] # Null /\ item[i].by = r /\ item[i].session = result[r].session

(* An item that is not announced yet is blocked by the result that will.   *)
BlockedUntilAnnounced ==
    \A i \in Item :
        (item[i] # Null /\ item[i].by # Null /\ session[item[i].session] = "open") =>
            /\ result[item[i].by] # Null
            /\ result[item[i].by].session = item[i].session
            /\ i \in ToSet(result[item[i].by].blocked)

HeldAreBlocked ==
    \A r \in Result :
        /\ result[r] = Null => held[r] = {}
        /\ result[r] # Null /\ result[r].session # Null =>
             held[r] \subseteq ToSet(result[r].blocked)

(* Sessions do not go while a subscribe is answered, or a message handled. *)
SessionsStay ==
    /\ \A p \in pending : p.kind = "subscribe" => result[p.result].session # Null
    /\ handling # Null => result[handling.result].session = handling.session
    /\ \A s \in Session : session[s] = "deleting" =>
         deleting # Null /\ deleting.session = s
    /\ republish # Null =>
         item[republish] # Null /\ session[item[republish].session] = "open"

(* Without memory for a subscription the application gets NULL.            *)
NullGiven ==
    "subscription" \notin Fails =>
        /\ \A p \in pending : p.kind = "subscribe" => p.key # Null
        /\ ~ undefined

Prompt ==
    /\ BlocksItsOwn
    /\ BlockedUntilAnnounced
    /\ HeldAreBlocked
    /\ SessionsStay
    /\ NullGiven
    /\ NotesAfterResult

-----------------------------------------------------------------------------
(* Lists.                                                                  *)

(* The least number of a set is in it and is not above any other.          *)
LEMMA MinLeast ==
    ASSUME NEW S \in SUBSET Nat, S # {}
    PROVE  Min(S) \in S /\ \A n \in S : Min(S) <= n
<1>1. Min(S) \in S
  BY MinInSet
<1> DEFINE R == {ss \in Nat \X Nat : ss[1] < ss[2]}
<1>2. IsWellFoundedOn(R, Nat)
  BY NatLessThanWellFounded, Zenon DEF OpToRel
<1>3. PICK x \in S : \A y \in S : ~ (<<y, x>> \in R)
  <2> HIDE DEF R
  <2> QED
    BY <1>2, WFMin, Zenon
<1>4. \A y \in S : x <= y
  <2> TAKE y \in S
  <2>1. ~ (<<y, x>> \in R)
    BY <1>3
  <2> QED
    BY <2>1
<1> QED
  BY <1>1, <1>4 DEF Min

LEMMA RemoveAtOK ==
    ASSUME NEW S, NEW list \in Seq(S), NEW n \in 1..Len(list)
    PROVE  /\ RemoveAt(list, n) \in Seq(S)
           /\ Len(RemoveAt(list, n)) = Len(list) - 1
           /\ \A m \in 1..Len(list) - 1 :
                RemoveAt(list, n)[m] = IF m < n THEN list[m] ELSE list[m + 1]
<1> DEFINE left == SubSeq(list, 1, n - 1)
           right == SubSeq(list, n + 1, Len(list))
<1>1. Len(list) \in Nat /\ \A m \in 1..Len(list) : list[m] \in S
  OBVIOUS
<1>2. /\ left \in Seq(S)
      /\ Len(left) = n - 1
      /\ \A m \in 1..n - 1 : left[m] = list[m]
  <2>1. /\ 1 \in Int /\ n - 1 \in Int
        /\ \A m \in 1..n - 1 : list[m] \in S /\ (1 + m) - 1 = m
        /\ IF 1 <= n - 1 THEN ((n - 1) - 1) + 1 = n - 1 ELSE n - 1 = 0
    BY <1>1
  <2>2. /\ left \in Seq(S)
        /\ Len(left) = IF 1 <= n - 1 THEN ((n - 1) - 1) + 1 ELSE 0
        /\ \A m \in 1..((n - 1) - 1) + 1 : left[m] = list[(1 + m) - 1]
    BY <2>1, SubSeqProperties
  <2> HIDE DEF left
  <2> QED
    BY <1>1, <2>1, <2>2
<1>3. /\ right \in Seq(S)
      /\ Len(right) = Len(list) - n
      /\ \A m \in 1..Len(list) - n : right[m] = list[n + m]
  <2>1. /\ n + 1 \in Int /\ Len(list) \in Int
        /\ \A m \in n + 1..Len(list) : list[m] \in S
    BY <1>1
  <2>2. /\ right \in Seq(S)
        /\ Len(right) = IF n + 1 <= Len(list) THEN (Len(list) - (n + 1)) + 1 ELSE 0
        /\ \A m \in 1..(Len(list) - (n + 1)) + 1 : right[m] = list[((n + 1) + m) - 1]
    BY <2>1, SubSeqProperties
  <2>3. /\ (Len(list) - (n + 1)) + 1 = Len(list) - n
        /\ ~ (n + 1 <= Len(list)) => Len(list) - n = 0
        /\ \A m \in 1..Len(list) - n : ((n + 1) + m) - 1 = n + m
    BY <1>1
  <2> HIDE DEF left, right
  <2> QED
    BY <2>2, <2>3
<1> HIDE DEF left, right
<1>4. /\ left \o right \in Seq(S)
      /\ Len(left \o right) = (n - 1) + (Len(list) - n)
      /\ \A m \in 1..(n - 1) + (Len(list) - n) :
           (left \o right)[m] = IF m <= n - 1 THEN left[m] ELSE right[m - (n - 1)]
  <2>1. /\ left \o right \in Seq(S)
        /\ Len(left \o right) = Len(left) + Len(right)
        /\ \A m \in 1..Len(left) + Len(right) :
             (left \o right)[m] = IF m <= Len(left) THEN left[m] ELSE right[m - Len(left)]
    <3>1. left \in Seq(S) /\ right \in Seq(S)
      BY <1>2, <1>3
    <3> QED
      BY <3>1, ConcatProperties
  <2> QED
    BY <1>2, <1>3, <2>1
<1>5. (n - 1) + (Len(list) - n) = Len(list) - 1
  BY <1>1
<1>6. ASSUME NEW m \in 1..Len(list) - 1
      PROVE  (left \o right)[m] = IF m < n THEN list[m] ELSE list[m + 1]
  <2>1. CASE m < n
    <3>1. m <= n - 1 /\ m \in 1..n - 1
      BY <2>1, <1>1
    <3> QED
      BY <3>1, <2>1, <1>2, <1>4, <1>5
  <2>2. CASE ~ (m < n)
    <3>1. ~ (m <= n - 1) /\ m - (n - 1) \in 1..Len(list) - n /\ n + (m - (n - 1)) = m + 1
      BY <2>2, <1>1
    <3> QED
      BY <3>1, <2>2, <1>3, <1>4, <1>5
  <2> QED
    BY <2>1, <2>2
<1> QED
  BY <1>4, <1>5, <1>6 DEF RemoveAt, left, right

(* What is unlinked from a list that holds nothing twice is gone, and      *)
(* nothing else is.                                                        *)
LEMMA RemoveFirstOK ==
    ASSUME NEW S, NEW list \in Seq(S), IsInjective(list), NEW e
    PROVE  /\ RemoveFirst(list, e) \in Seq(S)
           /\ IsInjective(RemoveFirst(list, e))
           /\ ToSet(RemoveFirst(list, e)) = ToSet(list) \ {e}
<1>1. /\ Len(list) \in Nat /\ DOMAIN list = 1..Len(list)
      /\ \A n \in 1..Len(list) : list[n] \in S
      /\ \A m, n \in 1..Len(list) : list[m] = list[n] => m = n
  BY DEF IsInjective
<1>2. CASE e \notin ToSet(list)
  <2>1. RemoveFirst(list, e) = list
    BY <1>1, <1>2 DEF RemoveFirst, ToSet
  <2> QED
    BY <2>1, <1>2
<1>3. CASE e \in ToSet(list)
  <2>1. PICK n \in 1..Len(list) : list[n] = e
    BY <1>1, <1>3 DEF ToSet
  <2>2. SelectInSeq(list, LAMBDA v : v = e) = n
    <3> DEFINE I == {i \in 1..Len(list) : list[i] = e}
    <3>1. I = {n}
      BY <1>1, <2>1
    <3>2. Min(I) = n
      BY <3>1, <1>1 DEF Min
    <3>3. SelectInSeq(list, LAMBDA v : v = e) = IF I # {} THEN Min(I) ELSE 0
      BY DEF SelectInSeq
    <3> QED
      BY <3>1, <3>2, <3>3
  <2> DEFINE new == RemoveAt(list, n)
  <2>3. RemoveFirst(list, e) = new
    BY <1>1, <2>1, <2>2 DEF RemoveFirst
  <2> HIDE DEF new
  <2>4. /\ new \in Seq(S) /\ Len(new) = Len(list) - 1 /\ DOMAIN new = 1..Len(list) - 1
        /\ \A m \in 1..Len(list) - 1 : new[m] = IF m < n THEN list[m] ELSE list[m + 1]
    <3>1. /\ new \in Seq(S) /\ Len(new) = Len(list) - 1
          /\ \A m \in 1..Len(list) - 1 : new[m] = IF m < n THEN list[m] ELSE list[m + 1]
      BY RemoveAtOK DEF new
    <3> QED
      BY <3>1
  <2>5. IsInjective(new)
    BY <1>1, <2>1, <2>4 DEF IsInjective
  <2>6. \A m \in DOMAIN new : new[m] \in ToSet(list) \ {e}
    BY <1>1, <2>1, <2>4 DEF ToSet
  <2>7. ASSUME NEW x \in ToSet(list) \ {e} PROVE \E m \in DOMAIN new : new[m] = x
    <3>1. PICK m \in 1..Len(list) : list[m] = x
      BY <1>1 DEF ToSet
    <3>2. CASE m < n
      BY <3>1, <3>2, <2>1, <2>4, <1>1
    <3>3. CASE m > n
      <4>1. m - 1 \in 1..Len(list) - 1 /\ new[m - 1] = list[m]
        BY <3>3, <2>1, <2>4, <1>1
      <4> QED
        BY <4>1, <3>1, <2>4
    <3> QED
      BY <3>1, <3>2, <3>3, <2>1
  <2>8. ToSet(new) = ToSet(list) \ {e}
    BY <2>6, <2>7 DEF ToSet
  <2> QED
    BY <2>3, <2>4, <2>5, <2>8
<1> QED
  BY <1>2, <1>3

(* A new head of a list.                                                   *)
LEMMA NewHead ==
    ASSUME NEW S, NEW list \in Seq(S), IsInjective(list), NEW e \in S,
           e \notin ToSet(list)
    PROVE  /\ <<e>> \o list \in Seq(S)
           /\ IsInjective(<<e>> \o list)
           /\ ToSet(<<e>> \o list) = ToSet(list) \cup {e}
<1> DEFINE new == <<e>> \o list
<1>1. /\ Len(list) \in Nat /\ DOMAIN list = 1..Len(list)
      /\ \A n \in 1..Len(list) : list[n] \in S /\ list[n] # e
      /\ \A m, n \in 1..Len(list) : list[m] = list[n] => m = n
  BY DEF IsInjective, ToSet
<1>2. /\ new \in Seq(S) /\ Len(new) = Len(list) + 1 /\ DOMAIN new = 1..Len(list) + 1
      /\ new[1] = e
      /\ \A n \in 1..Len(list) + 1 : n # 1 => new[n] = list[n - 1]
  BY <1>1
<1> HIDE DEF new
<1>3. IsInjective(new)
  <2> SUFFICES ASSUME NEW m \in 1..Len(list) + 1, NEW n \in 1..Len(list) + 1,
                      new[m] = new[n]
               PROVE  m = n
    BY <1>2 DEF IsInjective
  <2>1. m # 1 => m - 1 \in 1..Len(list) /\ new[m] = list[m - 1]
    BY <1>1, <1>2
  <2>2. n # 1 => n - 1 \in 1..Len(list) /\ new[n] = list[n - 1]
    BY <1>1, <1>2
  <2> QED
    BY <1>1, <1>2, <2>1, <2>2
<1>4. ToSet(new) = ToSet(list) \cup {e}
  <2>1. \A n \in 1..Len(list) + 1 : new[n] \in ToSet(list) \cup {e}
    <3> TAKE n \in 1..Len(list) + 1
    <3>1. n # 1 => n - 1 \in 1..Len(list)
      BY <1>1
    <3> QED
      BY <1>1, <1>2, <3>1 DEF ToSet
  <2>2. \A n \in 1..Len(list) : list[n] = new[n + 1] /\ n + 1 \in 1..Len(list) + 1
    <3> TAKE n \in 1..Len(list)
    <3>1. n + 1 \in 1..Len(list) + 1 /\ n + 1 # 1 /\ (n + 1) - 1 = n
      BY <1>1
    <3> QED
      BY <1>2, <3>1
  <2>3. e \in ToSet(new) /\ ToSet(list) \subseteq ToSet(new)
    <3>1. 1 \in 1..Len(list) + 1
      BY <1>1
    <3> QED
      BY <1>1, <1>2, <2>2, <3>1 DEF ToSet
  <2>4. ToSet(new) \subseteq ToSet(list) \cup {e}
    BY <1>2, <2>1 DEF ToSet
  <2> QED
    BY <2>3, <2>4
<1> QED
  BY <1>2, <1>3, <1>4 DEF new

-----------------------------------------------------------------------------
(* Publish items.                                                          *)
ItemsAgree == InTables /\ InHandles /\ LeastIds

(* Tables that only grow keep what they have.                              *)
Extended ==
    \A s \in Session : \A id \in DOMAIN publish_items[s] :
        id \in DOMAIN publish_items'[s] /\ publish_items'[s][id] = publish_items[s][id]

(* Sessions do not open again, and those with publish items stay.          *)
SessionsKept ==
    /\ \A s \in Session : session'[s] = "open" => session[s] \in {"new", "open"}
    /\ \A i \in Item : item[i] # Null =>
         session'[item[i].session] \in {"open", "deleting"}

LEMMA ItemTypes ==
    ASSUME IInv, NEW i \in Item, item[i] # Null
    PROVE  /\ item[i] \in PublishItem /\ item[i].session \in Session
           /\ item[i].key \in Key /\ item[i].id \in Nat \ {0}
           /\ item[i].by \in Result \cup {Null}
BY DEF IInv, CellsOK, PublishItem

(* The publish items stay what they are.                                   *)
LEMMA ItemsKept ==
    ASSUME IInv, Lists, Alike(item', item), Extended, SessionsKept,
           UNCHANGED <<publish_handle, next_free_publish_item>>
    PROVE  ItemsAgree'
<1>1. InTables'
  <2> SUFFICES ASSUME NEW i \in Item, item'[i] # Null
               PROVE  /\ session'[item'[i].session] \in {"open", "deleting"}
                      /\ item'[i].id \in DOMAIN publish_items'[item'[i].session]
                      /\ publish_items'[item'[i].session][item'[i].id] = i
    BY DEF InTables
  <2>1. /\ item[i] # Null /\ item'[i].session = item[i].session
        /\ item'[i].id = item[i].id /\ item[i].session \in Session
    BY ItemTypes DEF Alike
  <2>2. /\ item[i].id \in DOMAIN publish_items[item[i].session]
        /\ publish_items[item[i].session][item[i].id] = i
    BY <2>1 DEF Lists, InTables
  <2> QED
    BY <2>1, <2>2 DEF Extended, SessionsKept
<1>2. InHandles'
  <2>1. \A k \in Key : {i \in Item : item'[i] # Null /\ item'[i].key = k}
                         = {i \in Item : item[i] # Null /\ item[i].key = k}
    BY DEF Alike
  <2> QED
    BY <2>1 DEF Lists, InHandles
<1>3. LeastIds'
  <2> SUFFICES ASSUME NEW s \in Session, session'[s] = "open",
                      NEW id \in 1..next_free_publish_item[s] - 1
               PROVE  id \in DOMAIN publish_items'[s] /\ publish_items'[s][id] # Null
    BY DEF LeastIds
  <2>1. CASE session[s] = "open"
    BY <2>1 DEF Lists, LeastIds, Extended
  <2>2. CASE session[s] = "new"
    BY <2>2 DEF Lists, OpenOnly
  <2> QED
    BY <2>1, <2>2 DEF SessionsKept
<1> QED
  BY <1>1, <1>2, <1>3 DEF ItemsAgree

(* A publish item is released.                                             *)
LEMMA ItemGone ==
    ASSUME IInv, Lists, NEW s \in Session, NEW id \in Used(s), NEW i,
           i = publish_items[s][id],
           publish_handle' = Unlisted(i),
           item' = [item EXCEPT ![i] = Null],
           publish_items' = [publish_items EXCEPT ![s][id] = Null],
           \A x \in Session : session'[x] = "open" => session[x] = "open",
           \A j \in Item : item[j] # Null /\ j # i =>
             session'[item[j].session] \in {"open", "deleting"},
           \/ next_free_publish_item' = NextFreeAfter(s, id)
           \/ UNCHANGED next_free_publish_item /\ session'[s] # "open"
    PROVE  ItemsAgree' /\ publish_handle' \in [Key -> Seq(Item)]
<1>1. /\ CellsOK /\ Placed /\ item \in [Item -> PublishItem \cup {Null}]
      /\ publish_items \in [Session -> Seq(Item \cup {Null})]
      /\ next_free_publish_item \in [Session -> Nat \ {0}]
  BY DEF IInv, CellsOK
<1>2. /\ i \in Item /\ item[i] # Null /\ item[i].session = s /\ item[i].id = id
      /\ id \in DOMAIN publish_items[s] /\ id \in Nat \ {0}
      /\ item[i].key \in Key
  BY <1>1, UsedFinite, ItemTypes DEF Placed, Used
<1> DEFINE k == item[i].key
<1>3. /\ publish_items'[s] = [publish_items[s] EXCEPT ![id] = Null]
      /\ \A x \in Session : x # s => publish_items'[x] = publish_items[x]
      /\ \A x \in Session : DOMAIN publish_items'[x] = DOMAIN publish_items[x]
  BY <1>1, <1>2
<1>4. \A j \in Item : item'[j] = IF j = i THEN Null ELSE item[j]
  BY <1>1
<1>5. InTables'
  <2> SUFFICES ASSUME NEW j \in Item, item'[j] # Null
               PROVE  /\ session'[item'[j].session] \in {"open", "deleting"}
                      /\ item'[j].id \in DOMAIN publish_items'[item'[j].session]
                      /\ publish_items'[item'[j].session][item'[j].id] = j
    BY DEF InTables
  <2>1. /\ j # i /\ item'[j] = item[j] /\ item[j] # Null
        /\ item[j].session \in Session
    BY <1>4, ItemTypes
  <2>2. /\ item[j].id \in DOMAIN publish_items[item[j].session]
        /\ publish_items[item[j].session][item[j].id] = j
    BY <2>1 DEF Lists, InTables
  <2>3. item[j].session = s => item[j].id # id
    BY <2>1, <2>2
  <2> QED
    BY <1>3, <2>1, <2>2, <2>3
<1>6. /\ publish_handle \in [Key -> Seq(Item)]
      /\ IsInjective(publish_handle[k])
      /\ publish_handle[k] \in Seq(Item)
      /\ publish_handle' = [publish_handle EXCEPT ![k] = RemoveFirst(publish_handle[k], i)]
  BY <1>2 DEF Lists, ListTypes, ListsOK, InHandles, Unlisted
<1>7. /\ RemoveFirst(publish_handle[k], i) \in Seq(Item)
      /\ IsInjective(RemoveFirst(publish_handle[k], i))
      /\ ToSet(RemoveFirst(publish_handle[k], i)) = ToSet(publish_handle[k]) \ {i}
  BY <1>6, RemoveFirstOK
<1>8. publish_handle' \in [Key -> Seq(Item)]
  BY <1>6, <1>7
<1>9. InHandles'
  <2> SUFFICES ASSUME NEW x \in Key
               PROVE  /\ IsInjective(publish_handle'[x])
                      /\ ToSet(publish_handle'[x]) =
                           {j \in Item : item'[j] # Null /\ item'[j].key = x}
    BY DEF InHandles
  <2>1. /\ IsInjective(publish_handle[x])
        /\ ToSet(publish_handle[x]) = {j \in Item : item[j] # Null /\ item[j].key = x}
    BY DEF Lists, InHandles
  <2>2. {j \in Item : item'[j] # Null /\ item'[j].key = x}
          = {j \in Item : item[j] # Null /\ item[j].key = x} \ {i}
    BY <1>4
  <2>3. CASE x = k
    <3>1. publish_handle'[x] = RemoveFirst(publish_handle[x], i)
      BY <1>2, <1>6, <2>3
    <3> QED
      BY <1>7, <2>1, <2>2, <2>3, <3>1
  <2>4. CASE x # k
    <3>1. publish_handle'[x] = publish_handle[x]
      BY <1>6, <2>4
    <3>2. i \notin {j \in Item : item[j] # Null /\ item[j].key = x}
      BY <2>4
    <3> QED
      BY <2>1, <2>2, <3>1, <3>2
  <2> QED
    BY <2>3, <2>4
<1>10. LeastIds'
  <2> SUFFICES ASSUME NEW x \in Session, session'[x] = "open",
                      NEW n \in 1..next_free_publish_item'[x] - 1
               PROVE  n \in DOMAIN publish_items'[x] /\ publish_items'[x][n] # Null
    BY DEF LeastIds
  <2>1. \A m \in 1..next_free_publish_item[x] - 1 :
          m \in DOMAIN publish_items[x] /\ publish_items[x][m] # Null
    BY DEF Lists, LeastIds
  <2>2. CASE x = s
    <3>1. next_free_publish_item'[s] =
            IF id < next_free_publish_item[s] THEN id ELSE next_free_publish_item[s]
      BY <1>1, <2>2 DEF NextFreeAfter
    <3>2. n \in 1..next_free_publish_item[s] - 1 /\ n # id
      BY <1>1, <1>2, <2>2, <3>1
    <3> QED
      BY <1>3, <2>1, <2>2, <3>2
  <2>3. CASE x # s
    <3>1. next_free_publish_item'[x] = next_free_publish_item[x]
      BY <1>1, <2>3 DEF NextFreeAfter
    <3> QED
      BY <1>3, <2>1, <2>3, <3>1
  <2> QED
    BY <2>2, <2>3
<1> QED
  BY <1>5, <1>8, <1>9, <1>10 DEF ItemsAgree

(* The next free id is in the table, free, and every id from the hint to   *)
(* it is used.                                                             *)
LEMMA GrownMore ==
    ASSUME CellsOK, NEW s \in Session
    PROVE  /\ \A id \in DOMAIN publish_items[s] :
                id \in DOMAIN GrownTable(s) /\ GrownTable(s)[id] = publish_items[s][id]
           /\ NextFreeId(s) \in DOMAIN GrownTable(s)
           /\ NextFreeId(s) \in DOMAIN publish_items[s] =>
                publish_items[s][NextFreeId(s)] = Null
           /\ \A id \in Nat : next_free_publish_item[s] <= id /\ id < NextFreeId(s) =>
                id \in DOMAIN publish_items[s] /\ publish_items[s][id] # Null
<1> DEFINE old == publish_items[s]
           first == next_free_publish_item[s]
           free == {id \in first..Len(old) : old[id] = Null}
           n == IF Len(old) = 0 THEN Additional - 1 ELSE Additional
           new == [i \in 1..n |-> Null]
<1>1. /\ old \in Seq(Item \cup {Null}) /\ Len(old) \in Nat /\ DOMAIN old = 1..Len(old)
      /\ first \in Nat \ {0}
  BY DEF CellsOK
<1>2. n \in Nat \ {0}
  BY SessionsAssumption, <1>1
<1>3. /\ new \in Seq({Null}) /\ Len(new) = n
  BY <1>2
<1>4. /\ DOMAIN (old \o new) = 1..Len(old) + n
      /\ \A id \in 1..Len(old) : (old \o new)[id] = old[id]
  <2> HIDE DEF old, new, n
  <2>1. /\ old \in Seq(Item \cup {Null}) /\ new \in Seq(Item \cup {Null})
    BY <1>1, <1>3
  <2>2. /\ old \o new \in Seq(Item \cup {Null})
        /\ Len(old \o new) = Len(old) + Len(new)
        /\ \A id \in 1..Len(old) + Len(new) :
             (old \o new)[id] = IF id <= Len(old) THEN old[id] ELSE new[id - Len(old)]
    BY <2>1, ConcatProperties
  <2> QED
    BY <1>1, <1>2, <1>3, <2>2
<1>5. GrownTable(s) = IF NextFreeId(s) <= Len(old) THEN old ELSE old \o new
  BY DEF GrownTable
<1>6. NextFreeId(s) = IF free # {} THEN Min(free) ELSE Len(old) + 1
  BY DEF NextFreeId
<1>7. free # {} => Min(free) \in free /\ \A id \in free : Min(free) <= id
  <2>1. free \in SUBSET Nat
    BY <1>1
  <2> HIDE DEF free
  <2> QED
    BY <2>1, MinLeast
<1> HIDE DEF new, n
<1>8. CASE free # {}
  <2>1. /\ NextFreeId(s) \in 1..Len(old) /\ old[NextFreeId(s)] = Null
        /\ NextFreeId(s) <= Len(old)
    BY <1>1, <1>6, <1>7, <1>8
  <2>2. ASSUME NEW id \in Nat, first <= id, id < NextFreeId(s)
        PROVE  id \in 1..Len(old) /\ old[id] # Null
    <3>1. id \in first..Len(old) /\ id \notin free /\ id \in 1..Len(old)
      <4> HIDE DEF free
      <4>1. id \in first..Len(old) /\ id \in 1..Len(old)
        BY <1>1, <2>1, <2>2
      <4>2. id \notin free
        BY <1>6, <1>7, <1>8, <2>1, <2>2
      <4> QED
        BY <4>1, <4>2
    <3> QED
      BY <3>1
  <2> HIDE DEF old, free
  <2> QED
    BY <1>1, <1>5, <2>1, <2>2 DEF old, first
<1>9. CASE free = {}
  <2>1. NextFreeId(s) = Len(old) + 1
    BY <1>6, <1>9
  <2>2. ASSUME NEW id \in Nat, first <= id, id < NextFreeId(s)
        PROVE  id \in 1..Len(old) /\ old[id] # Null
    <3>1. id \in first..Len(old) /\ id \in 1..Len(old)
      <4> HIDE DEF old
      <4> QED
        BY <1>1, <2>1, <2>2
    <3> QED
      BY <1>9, <3>1
  <2> HIDE DEF old, free
  <2>3. GrownTable(s) = old \o new
    <3>1. ~ (NextFreeId(s) <= Len(old))
      BY <1>1, <2>1
    <3> QED
      BY <1>5, <3>1
  <2> QED
    BY <1>1, <1>2, <1>4, <2>1, <2>2, <2>3 DEF old, first
<1> QED
  BY <1>8, <1>9

(* A publish item is made.                                                 *)
LEMMA ItemNew ==
    ASSUME IInv, Lists, NEW p \in pending, NEW k \in Key, NEW i \in Item,
           result[p.result].session # Null, Subscribe(p, k, i), UNCHANGED session
    PROVE  ItemsAgree' /\ publish_handle' \in [Key -> Seq(Item)]
<1> DEFINE s == result[p.result].session
           id == NextFreeId(s)
           cell == [session |-> s, key |-> k, id |-> id, by |-> p.result]
           items == [item EXCEPT ![i] = cell]
           grown == GrownTable(s)
           table == [grown EXCEPT ![id] = i]
<1>1. /\ CellsOK /\ item \in Cells
      /\ publish_items \in [Session -> Seq(Item \cup {Null})]
      /\ next_free_publish_item \in [Session -> Nat \ {0}]
      /\ p.result \in Result /\ result[p.result] # Null /\ s \in Session
      /\ session[s] = "open"
  BY ResultOf DEF IInv, CellsOK, Cells, ResultCell, Lists, OpenOnly
<1>2. /\ id \in Nat \ {0} /\ id \in DOMAIN grown
      /\ \A n \in DOMAIN publish_items[s] :
           n \in DOMAIN grown /\ grown[n] = publish_items[s][n]
      /\ id \in DOMAIN publish_items[s] => publish_items[s][id] = Null
      /\ \A n \in Nat : next_free_publish_item[s] <= n /\ n < id =>
           n \in DOMAIN publish_items[s] /\ publish_items[s][n] # Null
  BY <1>1, Grown, GrownMore
<1>3. /\ item[i] = Null
      /\ publish_handle' = [publish_handle EXCEPT ![k] = <<i>> \o @]
      /\ publish_items' = [publish_items EXCEPT ![s] = table]
      /\ next_free_publish_item' = [next_free_publish_item EXCEPT ![s] = id + 1]
      /\ \E res : Answer(p, res, items)
  <2>1. WithRoom(result[p.result]).session = s
    BY WithRoomOK
  <2>2. Answer(p, [WithRoom(result[p.result]) EXCEPT !.blocked = Append(@, i)], items)
    BY <2>1 DEF Subscribe
  <2> QED
    BY <2>1, <2>2 DEF Subscribe
<1>4. cell \in PublishItem /\ cell # Null
  BY <1>1, <1>2, SessionsAssumption DEF PublishItem
<1>5. /\ cell.session = s /\ cell.key = k /\ cell.id = id
      /\ items \in Cells /\ items[i] = cell
      /\ \A j \in Item \ {i} : items[j] = item[j]
  BY <1>1, <1>4 DEF Cells
<1> HIDE DEF s, id, cell, items, grown
<1>6. Alike(item', items)
  BY <1>3, <1>5, AnswerItems
<1>7. /\ DOMAIN table = DOMAIN grown /\ table[id] = i
      /\ \A n \in DOMAIN grown : n # id => table[n] = grown[n]
  BY <1>2
<1>8. /\ publish_items'[s] = table
      /\ \A x \in Session : x # s => publish_items'[x] = publish_items[x]
      /\ \A x \in Session : next_free_publish_item'[x] =
           IF x = s THEN id + 1 ELSE next_free_publish_item[x]
  BY <1>1, <1>3
<1> HIDE DEF table
<1>9. \A x \in Session : \A n \in DOMAIN publish_items[x] :
        publish_items[x][n] # Null =>
          n \in DOMAIN publish_items'[x] /\ publish_items'[x][n] = publish_items[x][n]
  BY <1>2, <1>7, <1>8
<1>10. InTables'
  <2> SUFFICES ASSUME NEW j \in Item, item'[j] # Null
               PROVE  /\ session'[item'[j].session] \in {"open", "deleting"}
                      /\ item'[j].id \in DOMAIN publish_items'[item'[j].session]
                      /\ publish_items'[item'[j].session][item'[j].id] = j
    BY DEF InTables
  <2>1. /\ items[j] # Null /\ item'[j].session = items[j].session
        /\ item'[j].id = items[j].id
    BY <1>6 DEF Alike
  <2>2. CASE j = i
    BY <1>1, <1>2, <1>5, <1>7, <1>8, <2>1, <2>2
  <2>3. CASE j # i
    <3>1. /\ item[j] # Null /\ item'[j].session = item[j].session
          /\ item'[j].id = item[j].id /\ item[j].session \in Session
      BY <1>5, <2>1, <2>3, ItemTypes
    <3>2. /\ session[item[j].session] \in {"open", "deleting"}
          /\ item[j].id \in DOMAIN publish_items[item[j].session]
          /\ publish_items[item[j].session][item[j].id] = j
      BY <3>1 DEF Lists, InTables
    <3> QED
      BY <1>9, <3>1, <3>2, SessionsAssumption
  <2> QED
    BY <2>2, <2>3
<1>11. /\ publish_handle \in [Key -> Seq(Item)]
       /\ publish_handle[k] \in Seq(Item)
       /\ IsInjective(publish_handle[k]) /\ i \notin ToSet(publish_handle[k])
  BY <1>3 DEF Lists, ListTypes, ListsOK, InHandles
<1>12. /\ <<i>> \o publish_handle[k] \in Seq(Item)
       /\ IsInjective(<<i>> \o publish_handle[k])
       /\ ToSet(<<i>> \o publish_handle[k]) = ToSet(publish_handle[k]) \cup {i}
  BY <1>11, NewHead
<1>13. /\ publish_handle'[k] = <<i>> \o publish_handle[k]
       /\ \A x \in Key : x # k => publish_handle'[x] = publish_handle[x]
       /\ publish_handle' \in [Key -> Seq(Item)]
  BY <1>3, <1>11, <1>12
<1>14. InHandles'
  <2> SUFFICES ASSUME NEW x \in Key
               PROVE  /\ IsInjective(publish_handle'[x])
                      /\ ToSet(publish_handle'[x]) =
                           {j \in Item : item'[j] # Null /\ item'[j].key = x}
    BY DEF InHandles
  <2>1. /\ IsInjective(publish_handle[x])
        /\ ToSet(publish_handle[x]) = {j \in Item : item[j] # Null /\ item[j].key = x}
    BY DEF Lists, InHandles
  <2>2. {j \in Item : item'[j] # Null /\ item'[j].key = x}
          = {j \in Item : items[j] # Null /\ items[j].key = x}
    BY <1>6 DEF Alike
  <2>3. CASE x = k
    <3>1. {j \in Item : items[j] # Null /\ items[j].key = x}
            = {j \in Item : item[j] # Null /\ item[j].key = x} \cup {i}
      BY <1>4, <1>5, <2>3
    <3> QED
      BY <1>12, <1>13, <2>1, <2>2, <2>3, <3>1
  <2>4. CASE x # k
    <3>1. {j \in Item : items[j] # Null /\ items[j].key = x}
            = {j \in Item : item[j] # Null /\ item[j].key = x}
      BY <1>3, <1>5, <2>4
    <3> QED
      BY <1>13, <2>1, <2>2, <2>4, <3>1
  <2> QED
    BY <2>3, <2>4
<1>15. LeastIds'
  <2> SUFFICES ASSUME NEW x \in Session, session'[x] = "open",
                      NEW n \in 1..next_free_publish_item'[x] - 1
               PROVE  n \in DOMAIN publish_items'[x] /\ publish_items'[x][n] # Null
    BY DEF LeastIds
  <2>1. \A m \in 1..next_free_publish_item[x] - 1 :
          m \in DOMAIN publish_items[x] /\ publish_items[x][m] # Null
    BY DEF Lists, LeastIds
  <2>2. CASE x = s
    <3>1. n \in Nat \ {0} /\ n <= id
      BY <1>2, <1>8, <2>2
    <3>2. CASE n = id
      BY <1>2, <1>7, <1>8, <2>2, <3>2, SessionsAssumption
    <3>3. CASE n < id
      <4>1. n \in DOMAIN publish_items[x] /\ publish_items[x][n] # Null
        <5>1. CASE next_free_publish_item[s] <= n
          BY <1>2, <2>2, <3>1, <3>3, <5>1
        <5>2. CASE ~ (next_free_publish_item[s] <= n)
          <6>1. n \in 1..next_free_publish_item[x] - 1
            BY <1>1, <2>2, <3>1, <5>2
          <6> QED
            BY <2>1, <6>1
        <5> QED
          BY <5>1, <5>2
      <4> QED
        BY <1>9, <4>1
    <3> QED
      BY <1>2, <3>1, <3>2, <3>3
  <2>3. CASE x # s
    <3>1. next_free_publish_item'[x] = next_free_publish_item[x]
      BY <1>8, <2>3
    <3> QED
      BY <1>8, <2>1, <2>3, <3>1
  <2> QED
    BY <2>2, <2>3
<1> QED
  BY <1>10, <1>13, <1>14, <1>15 DEF ItemsAgree

-----------------------------------------------------------------------------
(* Results.                                                                *)

(* The results stay where they are.                                        *)
LEMMA ResultsKept ==
    ASSUME InResults, UNCHANGED results,
           \A r \in Result :
             /\ result'[r] = Null <=> result[r] = Null
             /\ result[r] # Null => result'[r].session = result[r].session
    PROVE  InResults'
<1> SUFFICES ASSUME NEW s \in Session
             PROVE  {r \in Result : result'[r] # Null /\ result'[r].session = s}
                      = {r \in Result : result[r] # Null /\ result[r].session = s}
  BY DEF InResults
<1> QED
  OBVIOUS

(* Open sessions stay open while they have results.                        *)
LEMMA OpenKept ==
    ASSUME OpenOnly, UNCHANGED <<session, next_free_publish_item>>,
           \A r \in Result : result'[r] # Null =>
             result[r] # Null /\ result'[r].session = result[r].session
    PROVE  OpenOnly'
BY DEF OpenOnly

(* A result leaves the list of its session with its last answer.           *)
LEMMA AnswerLists ==
    ASSUME IInv, Lists, NEW p \in pending, NEW res \in ResultCell, NEW items,
           res.session = result[p.result].session, Answer(p, res, items)
    PROVE  /\ InResults'
           /\ \A r \in Result : result'[r] # Null =>
                result[r] # Null /\ result'[r].session = result[r].session
           /\ results' \in [Session -> Seq(Result)]
           /\ held' \in [Result -> SUBSET Item]
           /\ early' \in BOOLEAN
<1> DEFINE r == p.result
           s == res.session
<1>1. /\ r \in Result /\ result[r] # Null /\ s = result[r].session
      /\ result \in [Result -> ResultCell \cup {Null}]
      /\ s \in Session \cup {Null}
  BY ResultOf DEF IInv, CellsOK, ResultCell
<1>2. /\ InResults /\ OpenOnly /\ results \in [Session -> Seq(Result)]
      /\ held \in [Result -> SUBSET Item] /\ early \in BOOLEAN
  BY DEF Lists, ListTypes, ListsOK
<1>3. CASE res.remaining > 1
  <2> DEFINE new == [res EXCEPT !.remaining = @ - 1]
  <2>1. /\ result' = [result EXCEPT ![r] = new]
        /\ UNCHANGED <<results, held, early>>
    BY <1>3 DEF Answer
  <2>2. new # Null /\ new.session = s
    <3>1. new \in ResultCell
      BY <1>3 DEF ResultCell
    <3> QED
      BY <3>1, SessionsAssumption DEF ResultCell
  <2> HIDE DEF new, s, r
  <2>3. \A q \in Result :
          /\ result'[q] = Null <=> result[q] = Null
          /\ result[q] # Null => result'[q].session = result[q].session
    BY <1>1, <2>1, <2>2
  <2> QED
    BY <1>2, <2>1, <2>3, ResultsKept
<1>4. CASE res.remaining = 1 /\ s # Null
  <2>1. /\ result' = [result EXCEPT ![r] = Null]
        /\ held' = [held EXCEPT ![r] = {}]
        /\ results' = [results EXCEPT ![s] = RemoveFirst(@, r)]
        /\ early' \in BOOLEAN
    <3>1. /\ result' = [result EXCEPT ![r] = Null]
          /\ held' = [held EXCEPT ![r] = {}]
          /\ results' = [results EXCEPT ![s] = RemoveFirst(@, r)]
          /\ early' = (early \/ \E i \in held[r] : ~ Announced(i)')
      BY <1>4 DEF Answer
    <3> QED
      BY <3>1
  <2> HIDE DEF s, r
  <2>2. \A q \in Result : result'[q] = IF q = r THEN Null ELSE result[q]
    BY <1>1, <2>1
  <2>3. s \in Session /\ results[s] \in Seq(Result) /\ IsInjective(results[s])
    BY <1>1, <1>2, <1>4 DEF InResults
  <2>4. /\ RemoveFirst(results[s], r) \in Seq(Result)
        /\ IsInjective(RemoveFirst(results[s], r))
        /\ ToSet(RemoveFirst(results[s], r)) = ToSet(results[s]) \ {r}
    BY <2>3, RemoveFirstOK
  <2>5. /\ results'[s] = RemoveFirst(results[s], r)
        /\ \A x \in Session : x # s => results'[x] = results[x]
        /\ results' \in [Session -> Seq(Result)]
        /\ held' \in [Result -> SUBSET Item]
    BY <1>2, <2>1, <2>3, <2>4
  <2>6. InResults'
    <3> SUFFICES ASSUME NEW x \in Session
                 PROVE  /\ IsInjective(results'[x])
                        /\ ToSet(results'[x]) =
                             {q \in Result : result'[q] # Null /\ result'[q].session = x}
      BY DEF InResults
    <3>1. /\ IsInjective(results[x])
          /\ ToSet(results[x]) = {q \in Result : result[q] # Null /\ result[q].session = x}
      BY <1>2 DEF InResults
    <3>2. {q \in Result : result'[q] # Null /\ result'[q].session = x}
            = {q \in Result : result[q] # Null /\ result[q].session = x} \ {r}
      BY <2>2
    <3>3. CASE x = s
      BY <2>4, <2>5, <3>1, <3>2, <3>3
    <3>4. CASE x # s
      BY <1>1, <2>5, <3>1, <3>2, <3>4
    <3> QED
      BY <3>3, <3>4
  <2> QED
    BY <2>1, <2>2, <2>5, <2>6
<1>5. CASE res.remaining = 1 /\ s = Null
  <2>1. /\ result' = [result EXCEPT ![r] = Null]
        /\ held' = [held EXCEPT ![r] = {}]
        /\ UNCHANGED <<results, early>>
    BY <1>5 DEF Answer
  <2> HIDE DEF s, r
  <2>2. \A q \in Result : result'[q] = IF q = r THEN Null ELSE result[q]
    BY <1>1, <2>1
  <2>3. InResults'
    <3> SUFFICES ASSUME NEW x \in Session
                 PROVE  {q \in Result : result'[q] # Null /\ result'[q].session = x}
                          = {q \in Result : result[q] # Null /\ result[q].session = x}
      BY <1>2, <2>1 DEF InResults
    <3> QED
      BY <1>1, <1>5, <2>2, SessionsAssumption
  <2>4. held' \in [Result -> SUBSET Item]
    BY <1>2, <2>1
  <2> QED
    BY <1>2, <2>1, <2>2, <2>3, <2>4
<1> QED
  BY <1>3, <1>4, <1>5 DEF Answer

-----------------------------------------------------------------------------
(* Every step keeps the lists.                                             *)

(* Steps that touch no list, table, item or result.                        *)
LEMMA SameLists ==
    ASSUME IInv, Lists,
           UNCHANGED <<publish_handle, item, session, tables, results, result>>,
           held' \in [Result -> SUBSET Item], republish' \in Item \cup {Null},
           early' \in BOOLEAN, undefined' \in BOOLEAN
    PROVE  Lists'
BY DEF Lists, ListTypes, ListsOK, InTables, InHandles, InResults, OpenOnly,
   LeastIds, tables

LEMMA PlainLists ==
    ASSUME IInv, Lists, NEW p \in pending, NEW res \in ResultCell,
           res.session = result[p.result].session, Answer(p, res, item),
           UNCHANGED <<publish_handle, session, next_free_publish_item, republish,
                       undefined>>,
           \/ UNCHANGED publish_items
           \/ \E s \in Session :
                publish_items' = [publish_items EXCEPT ![s] = GrownTable(s)]
    PROVE  Lists'
<1>1. CellsOK /\ item \in Cells /\ publish_items \in [Session -> Seq(Item \cup {Null})]
  BY DEF IInv, CellsOK, Cells
<1>2. /\ InResults'
      /\ \A r \in Result : result'[r] # Null =>
           result[r] # Null /\ result'[r].session = result[r].session
      /\ results' \in [Session -> Seq(Result)]
      /\ held' \in [Result -> SUBSET Item]
      /\ early' \in BOOLEAN
  BY AnswerLists
<1>3. Alike(item', item)
  BY <1>1, AnswerItems
<1>4. Extended
  BY <1>1, GrownMore DEF Extended
<1>5. SessionsKept
  BY DEF SessionsKept, Lists, InTables
<1>6. ItemsAgree'
  BY <1>3, <1>4, <1>5, ItemsKept
<1>7. OpenOnly'
  BY <1>2, OpenKept DEF Lists
<1>8. ListTypes'
  BY <1>2 DEF Lists, ListTypes, ListsOK
<1> QED
  BY <1>2, <1>6, <1>7, <1>8 DEF Lists, ItemsAgree

LEMMA SubscribeLists ==
    ASSUME IInv, Lists, NEW p \in pending, NEW k \in Key, NEW i \in Item,
           result[p.result].session # Null, Subscribe(p, k, i),
           UNCHANGED <<session, undefined>>
    PROVE  Lists'
<1> DEFINE old == WithRoom(result[p.result])
           new == [old EXCEPT !.blocked = Append(@, i)]
<1>1. /\ old \in ResultCell /\ old.session = result[p.result].session
  BY WithRoomOK
<1>2. new \in ResultCell /\ new.session = result[p.result].session
  <2> HIDE DEF old
  <2>1. Append(old.blocked, i) \in Seq(Item)
    BY <1>1 DEF ResultCell
  <2> QED
    BY <1>1, <2>1 DEF ResultCell
<1>3. /\ \E items : Answer(p, new, items)
      /\ republish' \in Item \cup {Null}
  BY DEF Subscribe
<1>4. /\ session[result[p.result].session] = "open"
      /\ result[p.result].session \in Session
  BY ResultOf DEF Lists, OpenOnly, ResultCell
<1> HIDE DEF new, old
<1>5. /\ ItemsAgree' /\ publish_handle' \in [Key -> Seq(Item)]
  BY ItemNew
<1>6. /\ \A x \in Session : session[x] # "open" =>
           next_free_publish_item'[x] = next_free_publish_item[x]
  <2>1. \E n : next_free_publish_item' =
          [next_free_publish_item EXCEPT ![result[p.result].session] = n]
    BY <1>1 DEF Subscribe, old
  <2> QED
    BY <1>4, <2>1 DEF IInv, CellsOK
<1>7. /\ InResults'
      /\ \A r \in Result : result'[r] # Null =>
           result[r] # Null /\ result'[r].session = result[r].session
      /\ results' \in [Session -> Seq(Result)]
      /\ held' \in [Result -> SUBSET Item]
      /\ early' \in BOOLEAN
  BY <1>2, <1>3, AnswerLists
<1>8. OpenOnly'
  BY <1>6, <1>7 DEF Lists, OpenOnly
<1>9. ListTypes'
  BY <1>3, <1>5, <1>7 DEF Lists, ListTypes, ListsOK
<1> QED
  BY <1>5, <1>7, <1>8, <1>9 DEF Lists, ItemsAgree

LEMMA ReturnLists ==
    ASSUME IInv, Lists, NEW p \in pending, Return(p)
    PROVE  Lists'
<1>1. /\ result[p.result] \in ResultCell /\ p.key \in Key \cup {Null}
      /\ result[p.result].session \in Session \cup {Null}
  BY ResultOf DEF ResultCell
<1> USE DEF tables, calls
<1>2. CASE ReturnCall(p) \/ ReturnUnsubscribe(p) \/ ReturnSubscribeReject(p)
  <2>1. /\ Answer(p, result[p.result], item)
        /\ UNCHANGED <<publish_handle, session, next_free_publish_item, republish,
                       undefined, publish_items>>
    BY <1>2 DEF ReturnCall, ReturnUnsubscribe, ReturnSubscribeReject
  <2> QED
    BY <1>1, <2>1, PlainLists
<1>3. ASSUME NEW i \in Item, ReturnSubscribeAccept(p, i) PROVE Lists'
  BY <1>1, <1>3, SubscribeLists DEF ReturnSubscribeAccept, SubscribeAnswerSafe
<1>4. ASSUME NEW i \in Item, NEW k \in Key, ReturnSubscribeAlias(p, k, i) PROVE Lists'
  BY <1>1, <1>4, SubscribeLists DEF ReturnSubscribeAlias, SubscribeAnswerSafe
<1>5. ASSUME NEW k \in Key \cup {Null}, NEW what, ReturnSubscribeFails(p, k, what)
      PROVE  Lists'
  <2> DEFINE res == IF what = "item" THEN WithRoom(result[p.result]) ELSE result[p.result]
  <2>1. res \in ResultCell /\ res.session = result[p.result].session
    BY <1>1, WithRoomOK
  <2>2. /\ Answer(p, res, item)
        /\ UNCHANGED <<publish_handle, session, next_free_publish_item, republish,
                       undefined>>
        /\ \/ UNCHANGED publish_items
           \/ publish_items' = [publish_items EXCEPT ![result[p.result].session] =
                                  GrownTable(result[p.result].session)]
        /\ result[p.result].session \in Session
    BY <1>1, <1>5 DEF ReturnSubscribeFails
  <2> HIDE DEF res
  <2> QED
    BY <2>1, <2>2, PlainLists
<1>6. CASE SubscribeAnswerCrashes(p)
  BY <1>6, SameLists DEF SubscribeAnswerCrashes, subs, answers, Lists, ListTypes, ListsOK
<1> QED
  BY <1>2, <1>3, <1>4, <1>5, <1>6 DEF Return

LEMMA DispatchLists ==
    ASSUME IInv, Lists, Dispatch
    PROVE  Lists'
<1>1. UNCHANGED <<publish_handle, item, session, tables, results, result, held,
                  republish, early, undefined>>
  BY DEF Dispatch, DispatchCall, DispatchSubscribe, DispatchSubscribeFails,
     DispatchUnknown, subs
<1> QED
  BY <1>1, SameLists DEF Lists, ListTypes, ListsOK

LEMMA UnsubscribeLists ==
    ASSUME IInv, Lists, NEW id, DispatchUnsubscribe(id)
    PROVE  Lists'
<1> DEFINE s == handling.session
           i == publish_items[s][id]
<1>1. /\ handling # Null /\ s \in Session /\ id \in Used(s)
      /\ CellsOK /\ Placed
  BY DEF DispatchUnsubscribe, IInv, CellsOK, Handling, Used
<1>2. /\ publish_handle' = Unlisted(i)
      /\ item' = [item EXCEPT ![i] = Null]
      /\ publish_items' = [publish_items EXCEPT ![s][id] = Null]
      /\ next_free_publish_item' = NextFreeAfter(s, id)
      /\ UNCHANGED <<session, results, result, held, republish, early, undefined>>
  BY DEF DispatchUnsubscribe
<1>3. /\ i \in Item /\ item[i] # Null /\ item[i].session = s
      /\ session[s] \in {"open", "deleting"}
  BY <1>1, UsedFinite DEF Placed, Lists, InTables
<1> HIDE DEF s
<1>4. \A j \in Item : item[j] # Null /\ j # i =>
        session'[item[j].session] \in {"open", "deleting"}
  BY <1>2 DEF Lists, InTables
<1>5. ItemsAgree' /\ publish_handle' \in [Key -> Seq(Item)]
  BY <1>1, <1>2, <1>4, ItemGone
<1>6. \A x \in Session : session[x] = "new" =>
        next_free_publish_item'[x] = next_free_publish_item[x]
  BY <1>1, <1>2, <1>3 DEF NextFreeAfter, IInv, CellsOK
<1>7. OpenOnly' /\ InResults'
  BY <1>2, <1>6 DEF Lists, OpenOnly, InResults
<1>8. ListTypes'
  BY <1>2, <1>5 DEF Lists, ListTypes, ListsOK
<1> QED
  BY <1>5, <1>7, <1>8 DEF Lists, ItemsAgree

(* A session comes, with no publish item and no result; or says hello.     *)
LEMMA SessionCreateLists ==
    ASSUME IInv, Lists, NEW s \in Session, SessionCreate(s)
    PROVE  Lists'
<1>1. /\ session[s] = "none"
      /\ session' = [session EXCEPT ![s] = "new"]
      /\ publish_items' = [publish_items EXCEPT ![s] = <<>>]
      /\ next_free_publish_item' = [next_free_publish_item EXCEPT ![s] = 1]
      /\ results' = [results EXCEPT ![s] = <<>>]
      /\ UNCHANGED <<publish_handle, item, result, held, republish, early, undefined>>
  BY DEF SessionCreate, subs, calls
<1>2. /\ publish_items \in [Session -> Seq(Item \cup {Null})]
      /\ next_free_publish_item \in [Session -> Nat \ {0}]
      /\ session \in [Session -> {"none", "new", "open", "deleting"}]
      /\ results \in [Session -> Seq(Result)]
  BY DEF IInv, CellsOK, Lists, ListTypes, ListsOK
<1>3. \A x \in Session : x # s =>
        /\ session'[x] = session[x] /\ publish_items'[x] = publish_items[x]
        /\ next_free_publish_item'[x] = next_free_publish_item[x]
        /\ results'[x] = results[x]
  BY <1>1, <1>2
<1>4. InTables'
  <2> SUFFICES ASSUME NEW i \in Item, item[i] # Null
               PROVE  /\ session'[item[i].session] \in {"open", "deleting"}
                      /\ item[i].id \in DOMAIN publish_items'[item[i].session]
                      /\ publish_items'[item[i].session][item[i].id] = i
    BY <1>1 DEF InTables
  <2>1. /\ item[i].session \in Session
        /\ session[item[i].session] \in {"open", "deleting"}
        /\ item[i].id \in DOMAIN publish_items[item[i].session]
        /\ publish_items[item[i].session][item[i].id] = i
    BY ItemTypes DEF Lists, InTables
  <2>2. item[i].session # s
    BY <1>1, <2>1
  <2> QED
    BY <1>3, <2>1, <2>2
<1>5. InHandles'
  BY <1>1 DEF Lists, InHandles
<1>6. InResults'
  <2>1. InResults /\ OpenOnly
    BY DEF Lists
  <2>2. {r \in Result : result[r] # Null /\ result[r].session = s} = {}
    BY <1>1, <2>1, SessionsAssumption DEF OpenOnly
  <2>3. results'[s] = <<>> /\ IsInjective(<<>>) /\ ToSet(<<>>) = {}
    BY <1>1, <1>2 DEF IsInjective, ToSet
  <2> QED
    BY <1>1, <1>3, <2>1, <2>2, <2>3 DEF InResults
<1>7. OpenOnly' /\ LeastIds'
  <2>1. session'[s] = "new" /\ next_free_publish_item'[s] = 1
    BY <1>1, <1>2
  <2>2. \A r \in Result : result[r] # Null /\ result[r].session # Null =>
          result[r].session \in Session
    BY DEF IInv, CellsOK, ResultCell
  <2>3. \A r \in Result : result[r] # Null /\ result[r].session # Null =>
          result[r].session # s
    BY <1>1 DEF Lists, OpenOnly
  <2>4. OpenOnly'
    BY <1>1, <1>3, <2>1, <2>2, <2>3 DEF Lists, OpenOnly
  <2>5. LeastIds'
    BY <1>3, <2>1 DEF Lists, LeastIds
  <2> QED
    BY <2>4, <2>5
<1>8. ListTypes'
  <2>1. <<>> \in Seq(Result)
    OBVIOUS
  <2> QED
    BY <1>1, <1>2, <2>1 DEF Lists, ListTypes, ListsOK
<1> QED
  BY <1>4, <1>5, <1>6, <1>7, <1>8 DEF Lists

LEMMA HandleHelloLists ==
    ASSUME IInv, Lists, NEW s \in Session, HandleHello(s)
    PROVE  Lists'
<1>1. /\ session[s] = "new"
      /\ session' = [session EXCEPT ![s] = "open"]
      /\ UNCHANGED <<publish_handle, item, publish_items, next_free_publish_item,
                     results, result, held, republish, early, undefined>>
  BY DEF HandleHello, subs, tables, answers, calls
<1>2. /\ session \in [Session -> {"none", "new", "open", "deleting"}]
      /\ item \in Cells
  BY DEF IInv, CellsOK, Cells, Lists, ListTypes
<1>3. \A x \in Session : session'[x] = IF x = s THEN "open" ELSE session[x]
  BY <1>1, <1>2
<1>4. SessionsKept
  <2>1. \A i \in Item : item[i] # Null =>
          item[i].session \in Session /\ session[item[i].session] \in {"open", "deleting"}
    BY ItemTypes DEF Lists, InTables
  <2> QED
    BY <1>1, <1>3, <2>1 DEF SessionsKept
<1>5. Alike(item', item) /\ Extended
  BY <1>1, <1>2, AnnouncedAlike DEF Extended
<1>6. ItemsAgree'
  BY <1>1, <1>4, <1>5, ItemsKept
<1>7. OpenOnly' /\ InResults'
  <2>1. \A r \in Result : result[r] # Null /\ result[r].session # Null =>
          result[r].session \in Session
    BY DEF IInv, CellsOK, ResultCell
  <2>2. OpenOnly'
    BY <1>1, <1>3, <2>1 DEF Lists, OpenOnly
  <2> QED
    BY <1>1, <2>2 DEF Lists, InResults
<1>8. ListTypes'
  BY <1>1, <1>2 DEF Lists, ListTypes, ListsOK
<1> QED
  BY <1>6, <1>7, <1>8 DEF Lists, ItemsAgree

(* A message brings a new result to the head of the list.                  *)
LEMMA MessageLists ==
    ASSUME IInv, Lists, NEW s \in Session, NEW r \in Result, NEW kind \in Kind,
           NEW count \in Nat, HandleMessage(s, r, kind, count)
    PROVE  Lists'
<1> DEFINE new == NewResult(s, count)
<1>1. /\ session[s] = "open" /\ result[r] = Null
      /\ result' = [result EXCEPT ![r] = new]
      /\ results' = [results EXCEPT ![s] = <<r>> \o @]
      /\ UNCHANGED <<publish_handle, item, session, publish_items,
                     next_free_publish_item, held, republish, early, undefined>>
  BY DEF HandleMessage, subs, tables
<1>2. /\ result \in [Result -> ResultCell \cup {Null}]
      /\ results \in [Session -> Seq(Result)]
  BY DEF IInv, CellsOK, Lists, ListTypes, ListsOK
<1>3. new # Null /\ new.session = s
  <2>1. <<>> \in Seq(Item)
    OBVIOUS
  <2>2. new \in ResultCell
    BY <2>1 DEF NewResult, ResultCell
  <2> QED
    BY <2>2, SessionsAssumption DEF NewResult
<1> HIDE DEF new
<1>4. \A q \in Result : result'[q] = IF q = r THEN new ELSE result[q]
  BY <1>1, <1>2
<1>5. /\ results[s] \in Seq(Result) /\ IsInjective(results[s])
      /\ r \notin ToSet(results[s])
  BY <1>1, <1>2 DEF Lists, InResults
<1>6. /\ <<r>> \o results[s] \in Seq(Result)
      /\ IsInjective(<<r>> \o results[s])
      /\ ToSet(<<r>> \o results[s]) = ToSet(results[s]) \cup {r}
  BY <1>5, NewHead
<1>7. /\ results'[s] = <<r>> \o results[s]
      /\ \A x \in Session : x # s => results'[x] = results[x]
      /\ results' \in [Session -> Seq(Result)]
  BY <1>1, <1>2, <1>6
<1>8. InResults'
  <2> SUFFICES ASSUME NEW x \in Session
               PROVE  /\ IsInjective(results'[x])
                      /\ ToSet(results'[x]) =
                           {q \in Result : result'[q] # Null /\ result'[q].session = x}
    BY DEF InResults
  <2>1. /\ IsInjective(results[x])
        /\ ToSet(results[x]) = {q \in Result : result[q] # Null /\ result[q].session = x}
    BY DEF Lists, InResults
  <2>2. CASE x = s
    <3>1. {q \in Result : result'[q] # Null /\ result'[q].session = x}
            = {q \in Result : result[q] # Null /\ result[q].session = x} \cup {r}
      BY <1>3, <1>4, <2>2
    <3> QED
      BY <1>6, <1>7, <2>1, <2>2, <3>1
  <2>3. CASE x # s
    <3>1. {q \in Result : result'[q] # Null /\ result'[q].session = x}
            = {q \in Result : result[q] # Null /\ result[q].session = x}
      BY <1>1, <1>3, <1>4, <2>3
    <3> QED
      BY <1>7, <2>1, <2>3, <3>1
  <2> QED
    BY <2>2, <2>3
<1>9. OpenOnly'
  BY <1>1, <1>3, <1>4 DEF Lists, OpenOnly
<1>10. ListTypes'
  BY <1>1, <1>7 DEF Lists, ListTypes, ListsOK
<1>11. InTables' /\ InHandles' /\ LeastIds'
  BY <1>1 DEF Lists, InTables, InHandles, LeastIds
<1> QED
  BY <1>8, <1>9, <1>10, <1>11 DEF Lists

(* Notifications are held back for publish items only.                     *)
LEMMA NotifyLists ==
    ASSUME IInv, Lists, NEW list \in Seq(Item), Notify(list),
           republish' \in Item \cup {Null}
    PROVE  Lists'
<1>1. ToSet(list) \subseteq Item
  BY DEF ToSet
<1>2. /\ held' = [r \in Result |-> held[r] \cup Held(list, r)]
      /\ early' \in BOOLEAN /\ undefined' \in BOOLEAN
      /\ UNCHANGED <<publish_handle, item, session, tables, results, result>>
  <2>1. /\ early' = (early \/ \E i \in {j \in ToSet(list) : BlockedBy(j) = Null} : ~ Announced(i))
        /\ undefined' = \E i \in ToSet(list) : session[item[i].session] # "open"
    BY DEF Notify
  <2> QED
    BY <2>1 DEF Notify, subs
<1>3. held' \in [Result -> SUBSET Item]
  <2>1. \A r \in Result : held[r] \in SUBSET Item /\ Held(list, r) \in SUBSET Item
    BY <1>1 DEF Lists, ListTypes, ListsOK, Held
  <2> QED
    BY <1>2, <2>1
<1> QED
  BY <1>2, <1>3, SameLists

(* What a session that goes does to its results.                           *)
LEMMA OrphanedLists ==
    ASSUME IInv, Lists, NEW s \in Session,
           \A x \in Session \ {s} : results'[x] = results[x] /\ session'[x] = session[x],
           results'[s] = <<>>, session'[s] # "new",
           UNCHANGED next_free_publish_item,
           \A r \in Result : result'[r] # Null /\ result'[r].session # Null =>
             /\ result[r] # Null /\ result'[r].session = result[r].session
             /\ result'[r].session # s,
           \A r \in Result : result[r] # Null /\ result[r].session # s =>
             result'[r] # Null /\ result'[r].session = result[r].session
    PROVE  InResults' /\ OpenOnly'
<1>1. InResults /\ OpenOnly
  BY DEF Lists
<1>2. \A r \in Result : result[r] # Null => result[r].session \in Session \cup {Null}
  BY DEF IInv, CellsOK, ResultCell
<1>3. InResults'
  <2> SUFFICES ASSUME NEW x \in Session
               PROVE  /\ IsInjective(results'[x])
                      /\ ToSet(results'[x]) =
                           {q \in Result : result'[q] # Null /\ result'[q].session = x}
    BY DEF InResults
  <2>1. CASE x = s
    <3>1. {q \in Result : result'[q] # Null /\ result'[q].session = x} = {}
      BY <2>1, SessionsAssumption
    <3>2. IsInjective(<<>>) /\ ToSet(<<>>) = {}
      BY DEF IsInjective, ToSet
    <3> QED
      BY <2>1, <3>1, <3>2
  <2>2. CASE x # s
    <3>1. {q \in Result : result'[q] # Null /\ result'[q].session = x}
            = {q \in Result : result[q] # Null /\ result[q].session = x}
      BY <2>2, SessionsAssumption
    <3> QED
      BY <1>1, <2>2, <3>1 DEF InResults
  <2> QED
    BY <2>1, <2>2
<1>4. OpenOnly'
  BY <1>1, <1>2 DEF OpenOnly
<1> QED
  BY <1>3, <1>4

LEMMA SessionDeleteLists ==
    ASSUME IInv, Lists, NEW s \in Session, SessionDelete(s)
    PROVE  Lists'
<1>1. /\ Used(s) = {} /\ result' = Orphaned(s)
      /\ session' = [session EXCEPT ![s] = "none"]
      /\ results' = [results EXCEPT ![s] = <<>>]
      /\ UNCHANGED <<publish_handle, item, publish_items, next_free_publish_item,
                     held, republish, early, undefined>>
  BY DEF SessionDelete, subs, tables, calls
<1>2. /\ session \in [Session -> {"none", "new", "open", "deleting"}]
      /\ results \in [Session -> Seq(Result)]
      /\ item \in Cells /\ CellsOK
  BY DEF IInv, CellsOK, Cells, Lists, ListTypes, ListsOK
<1>3. \A x \in Session : /\ session'[x] = IF x = s THEN "none" ELSE session[x]
                         /\ results'[x] = IF x = s THEN <<>> ELSE results[x]
  BY <1>1, <1>2
<1>4. \A i \in Item : item[i] # Null => item[i].session \in Session \ {s}
  <2> SUFFICES ASSUME NEW i \in Item, item[i] # Null
               PROVE  item[i].session \in Session \ {s}
    OBVIOUS
  <2>1. /\ item[i].session \in Session
        /\ item[i].id \in DOMAIN publish_items[item[i].session]
        /\ publish_items[item[i].session][item[i].id] = i
    BY ItemTypes DEF Lists, InTables
  <2>2. item[i].id \in Used(item[i].session)
    BY <2>1, SessionsAssumption DEF Used
  <2> QED
    BY <1>1, <2>1, <2>2
<1>5. SessionsKept
  <2>1. \A i \in Item : item[i] # Null => session[item[i].session] \in {"open", "deleting"}
    BY DEF Lists, InTables
  <2> QED
    BY <1>3, <1>4, <2>1 DEF SessionsKept
<1>6. Alike(item', item) /\ Extended
  BY <1>1, <1>2, AnnouncedAlike DEF Extended
<1>7. ItemsAgree'
  BY <1>1, <1>5, <1>6, ItemsKept
<1>8. \A r \in Result : Orphaned(s)[r] =
        IF result[r] # Null /\ result[r].session = s
        THEN [result[r] EXCEPT !.session = Null] ELSE result[r]
  BY DEF Orphaned
<1>9. \A r \in Result : result[r] # Null =>
        /\ result[r] \in ResultCell
        /\ [result[r] EXCEPT !.session = Null].session = Null
  BY <1>2 DEF CellsOK, ResultCell
<1>10. /\ \A r \in Result : result'[r] # Null /\ result'[r].session # Null =>
             /\ result[r] # Null /\ result'[r].session = result[r].session
             /\ result'[r].session # s
       /\ \A r \in Result : result[r] # Null /\ result[r].session # s =>
             result'[r] # Null /\ result'[r].session = result[r].session
  BY <1>1, <1>8, <1>9, SessionsAssumption
<1>11. InResults' /\ OpenOnly'
  <2>1. /\ \A x \in Session \ {s} : results'[x] = results[x] /\ session'[x] = session[x]
        /\ results'[s] = <<>> /\ session'[s] # "new"
    BY <1>3
  <2> QED
    BY <1>1, <1>10, <2>1, OrphanedLists
<1>12. ListTypes'
  <2>1. <<>> \in Seq(Result)
    OBVIOUS
  <2> QED
    BY <1>1, <1>2, <2>1 DEF Lists, ListTypes, ListsOK
<1> QED
  BY <1>7, <1>11, <1>12 DEF Lists, ItemsAgree

(* The loop over the publish items of a session releases one of them.      *)
LEMMA DeleteItemLists ==
    ASSUME IInv, Lists, NEW s \in Session, NEW dummy, DeleteItem(s, dummy),
           Used(s) # {}, InResults', OpenOnly', results' \in [Session -> Seq(Result)]
    PROVE  Lists'
<1> DEFINE id == Min(Used(s))
           i == publish_items[s][id]
           last == Used(s) = {id}
<1>1. CellsOK /\ Placed
  BY DEF IInv
<1>2. id \in Used(s)
  <2>1. Used(s) \in SUBSET Nat
    BY <1>1, UsedFinite
  <2> QED
    BY <2>1, MinInSet
<1>3. /\ publish_handle' = Unlisted(i)
      /\ item' = [item EXCEPT ![i] = Null]
      /\ publish_items' = [publish_items EXCEPT ![s][id] = Null]
      /\ session' = [session EXCEPT ![s] = IF last THEN "none" ELSE "deleting"]
      /\ UNCHANGED <<next_free_publish_item, held, republish, early, undefined>>
  BY DEF DeleteItem
<1> HIDE DEF id
<1>4. /\ session \in [Session -> {"none", "new", "open", "deleting"}]
      /\ \A x \in Session : session'[x] =
           IF x = s THEN (IF last THEN "none" ELSE "deleting") ELSE session[x]
  BY <1>3 DEF Lists, ListTypes
<1>5. ASSUME NEW j \in Item, item[j] # Null, j # i
      PROVE  session'[item[j].session] \in {"open", "deleting"}
  <2>1. /\ item[j].session \in Session
        /\ session[item[j].session] \in {"open", "deleting"}
        /\ item[j].id \in DOMAIN publish_items[item[j].session]
        /\ publish_items[item[j].session][item[j].id] = j
    BY <1>5, ItemTypes DEF Lists, InTables
  <2>2. CASE item[j].session = s
    <3>1. item[j].id \in Used(s) /\ item[j].id # id
      BY <1>5, <2>1, <2>2, SessionsAssumption DEF Used
    <3> QED
      BY <1>4, <2>2, <3>1
  <2>3. CASE item[j].session # s
    BY <1>4, <2>1, <2>3
  <2> QED
    BY <2>2, <2>3
<1>6. /\ \A x \in Session : session'[x] = "open" => session[x] = "open"
      /\ session'[s] # "open"
  BY <1>4
<1>7. ItemsAgree' /\ publish_handle' \in [Key -> Seq(Item)]
  BY <1>2, <1>3, <1>5, <1>6, ItemGone
<1>8. ListTypes'
  BY <1>3, <1>4, <1>7 DEF Lists, ListTypes, ListsOK
<1> QED
  BY <1>7, <1>8 DEF Lists, ItemsAgree

LEMMA DeleteLists ==
    ASSUME IInv, Lists, (\E s \in Session : Delete(s)) \/ SessionDeleteItem
    PROVE  Lists'
<1>1. ASSUME NEW s \in Session, SessionDelete(s) PROVE Lists'
  BY <1>1, SessionDeleteLists
<1>2. ASSUME NEW s \in Session, NEW dummy \in Result, SessionDeleteBegin(s, dummy)
      PROVE  Lists'
  <2> DEFINE new == NewResult(Null, Cardinality(Used(s)))
  <2>1. /\ Used(s) # {} /\ result[dummy] = Null /\ DeleteItem(s, dummy)
        /\ result' = [Orphaned(s) EXCEPT ![dummy] = new]
        /\ results' = [results EXCEPT ![s] = <<>>]
        /\ session' = [session EXCEPT ![s] = IF Used(s) = {Min(Used(s))}
                                             THEN "none" ELSE "deleting"]
        /\ UNCHANGED next_free_publish_item
    BY <1>2 DEF SessionDeleteBegin, DeleteItem
  <2>2. /\ session \in [Session -> {"none", "new", "open", "deleting"}]
        /\ results \in [Session -> Seq(Result)] /\ CellsOK
    BY DEF IInv, Lists, ListTypes, ListsOK
  <2>3. new.session = Null
    BY DEF NewResult
  <2> HIDE DEF new
  <2>4. /\ session'[s] \in {"none", "deleting"} /\ results'[s] = <<>>
        /\ \A x \in Session \ {s} : session'[x] = session[x] /\ results'[x] = results[x]
    BY <2>1, <2>2
  <2>5. results' \in [Session -> Seq(Result)]
    <3>1. <<>> \in Seq(Result)
      OBVIOUS
    <3> QED
      BY <2>1, <2>2, <3>1
  <2>6. \A r \in Result : result'[r] =
          IF r = dummy THEN new
          ELSE IF result[r] # Null /\ result[r].session = s
               THEN [result[r] EXCEPT !.session = Null] ELSE result[r]
    BY <2>1 DEF Orphaned
  <2>7. \A r \in Result : result[r] # Null =>
          /\ result[r] \in ResultCell
          /\ [result[r] EXCEPT !.session = Null].session = Null
    BY <2>2 DEF CellsOK, ResultCell
  <2>8. /\ \A r \in Result : result'[r] # Null /\ result'[r].session # Null =>
             /\ result[r] # Null /\ result'[r].session = result[r].session
             /\ result'[r].session # s
        /\ \A r \in Result : result[r] # Null /\ result[r].session # s =>
             result'[r] # Null /\ result'[r].session = result[r].session
    BY <2>1, <2>3, <2>6, <2>7, SessionsAssumption
  <2>9. InResults' /\ OpenOnly'
    BY <2>1, <2>4, <2>8, OrphanedLists
  <2> QED
    BY <2>1, <2>5, <2>9, DeleteItemLists
<1>3. CASE SessionDeleteItem
  <2> DEFINE s == deleting.session
  <2>1. /\ s \in Session /\ Used(s) # {} /\ DeleteItem(s, deleting.result)
        /\ \A r \in Result : result[r] # Null => result[r].session # s
        /\ UNCHANGED <<results, result>>
    BY <1>3 DEF SessionDeleteItem, IInv, CellsOK, Deleting, Counted, DeletingOK
  <2>2. /\ session' = [session EXCEPT ![s] = IF Used(s) = {Min(Used(s))}
                                             THEN "none" ELSE "deleting"]
        /\ UNCHANGED next_free_publish_item
    BY <2>1 DEF DeleteItem
  <2> HIDE DEF s
  <2>3. /\ session'[s] \in {"none", "deleting"}
        /\ \A x \in Session \ {s} : session'[x] = session[x]
    BY <2>1, <2>2 DEF Lists, ListTypes
  <2>4. /\ InResults' /\ results' \in [Session -> Seq(Result)]
    BY <2>1 DEF Lists, ListTypes, ListsOK, InResults
  <2>5. OpenOnly'
    <3>1. \A r \in Result : result[r] # Null => result[r].session \in Session \cup {Null}
      BY DEF IInv, CellsOK, ResultCell
    <3> QED
      BY <2>1, <2>2, <2>3, <3>1 DEF Lists, OpenOnly
  <2> QED
    BY <2>1, <2>4, <2>5, DeleteItemLists
<1> QED
  BY <1>1, <1>2, <1>3 DEF Delete

LEMMA NextLists == IInv /\ Lists /\ [Next]_vars => Lists'
<1> SUFFICES ASSUME IInv, Lists, [Next]_vars PROVE Lists'
  OBVIOUS
<1>1. ASSUME NEW s \in Session, Receive(s, 0) PROVE Lists'
  BY <1>1, SessionCreateLists, HandleHelloLists, MessageLists, SessionsAssumption
  DEF Receive
<1>2. CASE (\E s \in Session : Delete(s)) \/ SessionDeleteItem
  BY <1>2, DeleteLists
<1>3. CASE Dispatch \/ \E id \in Ids : DispatchUnsubscribe(id)
  BY <1>3, DispatchLists, UnsubscribeLists
<1>4. CASE \E p \in pending : Return(p)
  BY <1>4, ReturnLists
<1>5. ASSUME NEW k \in Key, Publish(k) PROVE Lists'
  <2>1. publish_handle[k] \in Seq(Item) /\ republish \in Item \cup {Null}
    BY DEF Lists, ListTypes, ListsOK
  <2> QED
    BY <1>5, <2>1, NotifyLists DEF Publish
<1>6. CASE Republish
  <2>1. republish \in Item
    BY <1>6 DEF Republish, Lists, ListTypes
  <2>2. <<republish>> \in Seq(Item)
    BY <2>1
  <2> QED
    BY <1>6, <2>2, NotifyLists DEF Republish
<1>7. CASE RepublishNothing
  BY <1>7, SameLists DEF RepublishNothing, subs, answers, Lists, ListTypes, ListsOK
<1>8. CASE UNCHANGED vars
  BY <1>8, SameLists DEF vars, subs, answers, calls, Lists, ListTypes, ListsOK
<1> QED
  BY <1>1, <1>2, <1>3, <1>4, <1>5, <1>6, <1>7, <1>8 DEF Next

LEMMA InitLists == Init => Lists
<1> SUFFICES ASSUME Init PROVE Lists
  OBVIOUS
<1>1. /\ <<>> \in Seq(Item) /\ <<>> \in Seq(Result)
      /\ IsInjective(<<>>) /\ ToSet(<<>>) = {}
  BY DEF IsInjective, ToSet
<1>2. ListTypes
  BY <1>1 DEF Init, ListTypes, ListsOK
<1>3. InTables /\ OpenOnly /\ LeastIds
  BY DEF Init, InTables, OpenOnly, LeastIds
<1>4. InHandles /\ InResults
  BY <1>1 DEF Init, InHandles, InResults
<1> QED
  BY <1>2, <1>3, <1>4 DEF Lists

(* Every variable stays in its type.                                       *)
THEOREM TypeCorrect == Spec => []TypeOK
<1>1. IInv /\ Lists => TypeOK
  BY DEF IInv, Lists, ListTypes, TypeOK
<1> QED
  BY InitInv, NextInv, InitLists, NextLists, <1>1, PTL DEF Spec

(* The table of a session, the lists of the subscriptions and the ids      *)
(* agree, through growth, release and deletion of a session; a new publish *)
(* item gets the least free id (wpcp_session_get_next_free_publish_id,     *)
(* wpcp_session_release_publish_item, wpcp_publish_item_release).          *)
THEOREM TablesAgreeCorrect == Spec => []TablesAgree
<1>1. IInv /\ Lists => TablesAgree
  BY DEF IInv, Lists, InTables, InHandles, TablesAgree, ItemsListed
<1> QED
  BY InitInv, NextInv, InitLists, NextLists, <1>1, PTL DEF Spec

(* Every answer finds its result in the list of its session, and is the    *)
(* last one when it should be, also when the session is being deleted or   *)
(* gone (wpcp_release_result, wpcp_session_delete).                        *)
THEOREM ResultsAgreeCorrect == Spec => []ResultsAgree
<1>1. IInv /\ Lists => ResultsAgree
  BY DEF IInv, Counted, Lists, InResults, ResultsAgree, ResultsListed
<1> QED
  BY InitInv, NextInv, InitLists, NextLists, <1>1, PTL DEF Spec

-----------------------------------------------------------------------------
(* Prompt callers.                                                         *)
Blocks == BlocksItsOwn /\ BlockedUntilAnnounced /\ HeldAreBlocked

(* The publish items that wait for result r are announced with it.         *)
LEMMA AnnouncedWith ==
    ASSUME NEW items \in Cells, NEW r \in Result, NEW j \in Item
    PROVE  /\ WithAnnounced(items, r)[j] = Null <=> items[j] = Null
           /\ items[j] # Null /\ items[j].by = r =>
                /\ WithAnnounced(items, r)[j].by = Null
                /\ WithAnnounced(items, r)[j].session = items[j].session
           /\ ~ (items[j] # Null /\ items[j].by = r) =>
                WithAnnounced(items, r)[j] = items[j]
<1>1. CASE items[j] # Null /\ items[j].by = r
  <2>1. /\ items[j] \in PublishItem
        /\ WithAnnounced(items, r)[j] = [items[j] EXCEPT !.by = Null]
    BY <1>1 DEF Cells, WithAnnounced
  <2>2. /\ [items[j] EXCEPT !.by = Null] \in PublishItem
        /\ [items[j] EXCEPT !.by = Null].by = Null
        /\ [items[j] EXCEPT !.by = Null].session = items[j].session
    BY <2>1 DEF PublishItem
  <2> QED
    BY <1>1, <2>1, <2>2, SessionsAssumption
<1>2. CASE ~ (items[j] # Null /\ items[j].by = r)
  BY <1>2 DEF WithAnnounced
<1> QED
  BY <1>1, <1>2

(* With its last answer a result announces what it blocked, and only then  *)
(* lets the notifications for it go.                                       *)
LEMMA AnswerPrompt ==
    ASSUME IInv, Lists, Prompt, IInv', NEW p \in pending, NEW res \in ResultCell,
           NEW items \in Cells, Answer(p, res, items),
           res.session = result[p.result].session,
           ToSet(result[p.result].blocked) \subseteq ToSet(res.blocked),
           \A j \in Item : item[j] # Null => items[j] = item[j],
           \A j \in Item : item[j] = Null /\ items[j] # Null =>
             j \in ToSet(res.blocked) \ ToSet(result[p.result].blocked),
           \A j \in ToSet(res.blocked) \ ToSet(result[p.result].blocked) :
             /\ items[j] # Null /\ items[j].by = p.result
             /\ items[j].session = res.session /\ res.session # Null,
           UNCHANGED <<session, handling>>
    PROVE  /\ Blocks' /\ NotesAfterResult' /\ pending' \subseteq pending
           /\ \A q \in pending' : q.kind = "subscribe" => result'[q.result].session # Null
           /\ handling' # Null => result'[handling'.result].session = handling'.session
<1> DEFINE r == p.result
           s == res.session
<1>1. /\ r \in Result /\ result[r] # Null /\ result[r] \in ResultCell
      /\ s = result[r].session /\ s \in Session \cup {Null}
      /\ result \in [Result -> ResultCell \cup {Null}]
      /\ \A j \in ToSet(res.blocked) : j \in Item
      /\ \A q \in Result : result[q] # Null => \A j \in ToSet(result[q].blocked) : j \in Item
      /\ Null \notin Result /\ Null \notin ResultCell
  <2>1. \A c \in ResultCell : \A j \in ToSet(c.blocked) : j \in Item
    BY DEF ResultCell, ToSet
  <2>2. result \in [Result -> ResultCell \cup {Null}]
    BY DEF IInv, CellsOK
  <2>3. /\ r \in Result /\ result[r] # Null /\ result[r] \in ResultCell
        /\ s \in Session \cup {Null}
    BY ResultOf DEF ResultCell
  <2> QED
    BY <2>1, <2>2, <2>3, SessionsAssumption
<1>2. /\ BlocksItsOwn /\ BlockedUntilAnnounced /\ HeldAreBlocked /\ ~ early
      /\ pending' \subseteq pending
  BY DEF Prompt, NotesAfterResult, Answer
<1>3. /\ \A q \in pending : q.kind = "subscribe" => result[q.result].session # Null
      /\ handling # Null => result[handling.result].session = handling.session
      /\ \A q \in pending' : q.result \in Result /\ result'[q.result] # Null
      /\ handling' # Null => handling'.result \in Result /\ result'[handling'.result] # Null
  BY DEF Prompt, SessionsStay, IInv, CellsOK, Owed, Handling, Counted, Asked, HandlingOK
<1>4. \A q \in Result : q # r => result'[q] = result[q]
  BY <1>1 DEF Answer
<1>5. \A q \in Result : result'[q] # Null => result'[q].session = result[q].session
  <2>1. CASE res.remaining > 1
    <3> DEFINE new == [res EXCEPT !.remaining = @ - 1]
    <3>1. result'[r] = new /\ new.session = s
      BY <1>1, <2>1 DEF Answer, ResultCell
    <3> QED
      BY <1>1, <1>4, <3>1
  <2>2. CASE ~ (res.remaining > 1)
    BY <1>1, <1>4, <2>2 DEF Answer
  <2> QED
    BY <2>1, <2>2
<1>6. /\ \A q \in pending' : q.kind = "subscribe" => result'[q.result].session # Null
      /\ handling' # Null => result'[handling'.result].session = handling'.session
  BY <1>2, <1>3, <1>5
<1>7. CASE res.remaining > 1
  <2> DEFINE new == [res EXCEPT !.remaining = @ - 1]
  <2>1. /\ result'[r] = new /\ new.session = s /\ new.blocked = res.blocked
        /\ new \in ResultCell
        /\ item' = items /\ UNCHANGED <<held, early>>
    BY <1>1, <1>7 DEF Answer, ResultCell
  <2> HIDE DEF new, r, s
  <2>2. BlocksItsOwn'
    <3> SUFFICES ASSUME NEW q \in Result, result'[q] # Null, result'[q].session # Null,
                        NEW j \in ToSet(result'[q].blocked)
                 PROVE  /\ items[j] # Null /\ items[j].by = q
                        /\ items[j].session = result'[q].session
      BY <2>1 DEF BlocksItsOwn
    <3>1. CASE q = r /\ j \notin ToSet(result[r].blocked)
      BY <1>1, <2>1, <3>1 DEF r, s
    <3>2. CASE ~ (q = r /\ j \notin ToSet(result[r].blocked))
      <4>1. /\ result[q] # Null /\ j \in ToSet(result[q].blocked)
            /\ result[q].session = result'[q].session
        BY <1>1, <1>4, <1>5, <3>2
      <4>2. /\ item[j] # Null /\ item[j].by = q
            /\ item[j].session = result'[q].session
        BY <1>2, <4>1 DEF BlocksItsOwn
      <4> QED
        BY <1>1, <4>1, <4>2
    <3> QED
      BY <3>1, <3>2
  <2>3. BlockedUntilAnnounced'
    <3> SUFFICES ASSUME NEW j \in Item, items[j] # Null, items[j].by # Null,
                        session[items[j].session] = "open"
                 PROVE  /\ result'[items[j].by] # Null
                        /\ result'[items[j].by].session = items[j].session
                        /\ j \in ToSet(result'[items[j].by].blocked)
      BY <2>1 DEF BlockedUntilAnnounced
    <3>1. CASE item[j] = Null
      BY <1>1, <2>1, <3>1 DEF r, s
    <3>2. CASE item[j] # Null
      <4>1. items[j] = item[j]
        BY <3>2
      <4>2. /\ items[j].by \in Result
            /\ result[items[j].by] # Null
            /\ result[items[j].by].session = items[j].session
            /\ j \in ToSet(result[items[j].by].blocked)
        BY <1>2, <3>2, <4>1, ItemTypes DEF BlockedUntilAnnounced
      <4> QED
        BY <1>1, <1>4, <2>1, <4>2 DEF r
    <3> QED
      BY <3>1, <3>2
  <2>4. HeldAreBlocked'
    BY <1>1, <1>2, <1>4, <2>1 DEF HeldAreBlocked, r
  <2> QED
    BY <1>2, <1>6, <2>1, <2>2, <2>3, <2>4 DEF Blocks, NotesAfterResult
<1>8. CASE ~ (res.remaining > 1)
  <2>1. /\ result'[r] = Null /\ held' = [held EXCEPT ![r] = {}]
        /\ \/ /\ s # Null /\ item' = WithAnnounced(items, r)
              /\ early' = (early \/ \E i \in held[r] : ~ Announced(i)')
           \/ s = Null /\ item' = items /\ UNCHANGED early
    BY <1>1, <1>8 DEF Answer
  <2> HIDE DEF r, s
  <2>2. \A j \in Item : /\ items[j] # Null /\ items[j].by # r => item'[j] = items[j]
                        /\ items[j] = Null => item'[j] = Null
                        /\ s = Null => item'[j] = items[j]
                        /\ s # Null /\ items[j] # Null /\ items[j].by = r =>
                             item'[j] # Null /\ item'[j].by = Null
    BY <1>1, <2>1, AnnouncedWith
  <2>3. BlocksItsOwn'
    <3> SUFFICES ASSUME NEW q \in Result, result'[q] # Null, result'[q].session # Null,
                        NEW j \in ToSet(result'[q].blocked)
                 PROVE  /\ item'[j] # Null /\ item'[j].by = q
                        /\ item'[j].session = result'[q].session
      BY DEF BlocksItsOwn
    <3>1. q # r /\ result'[q] = result[q] /\ j \in Item
      BY <1>1, <1>4, <2>1
    <3>2. item[j] # Null /\ item[j].by = q /\ item[j].session = result'[q].session
      BY <1>2, <3>1 DEF BlocksItsOwn
    <3> QED
      BY <2>2, <3>1, <3>2
  <2>4. BlockedUntilAnnounced'
    <3> SUFFICES ASSUME NEW j \in Item, item'[j] # Null, item'[j].by # Null,
                        session[item'[j].session] = "open"
                 PROVE  /\ result'[item'[j].by] # Null
                        /\ result'[item'[j].by].session = item'[j].session
                        /\ j \in ToSet(result'[item'[j].by].blocked)
      BY DEF BlockedUntilAnnounced
    <3>1. items[j] # Null /\ item'[j] = items[j] /\ (s # Null => items[j].by # r)
      BY <2>2
    <3>2. item[j] # Null
      BY <1>1, <3>1 DEF r, s
    <3>3. items[j] = item[j]
      BY <3>2
    <3>4. /\ items[j].by \in Result
          /\ result[items[j].by] # Null
          /\ result[items[j].by].session = items[j].session
          /\ j \in ToSet(result[items[j].by].blocked)
          /\ items[j].session \in Session
      BY <1>2, <3>1, <3>2, <3>3, ItemTypes DEF BlockedUntilAnnounced
    <3>5. items[j].by # r
      BY <1>1, <3>1, <3>4, SessionsAssumption
    <3> QED
      BY <1>4, <3>1, <3>4, <3>5
  <2>5. HeldAreBlocked' /\ (s # Null => \A j \in held[r] : j \in ToSet(result[r].blocked))
    <3>1. \A q \in Result : q # r => held'[q] = held[q]
      BY <2>1 DEF Lists, ListTypes, ListsOK
    <3>2. held'[r] = {}
      BY <2>1, <1>1 DEF Lists, ListTypes, ListsOK
    <3> QED
      BY <1>1, <1>2, <1>4, <2>1, <3>1, <3>2 DEF HeldAreBlocked
  <2>6. NotesAfterResult'
    <3>1. ASSUME s # Null, NEW j \in held[r] PROVE Announced(j)'
      <4>1. j \in ToSet(result[r].blocked) /\ j \in Item
        BY <1>1, <2>5, <3>1
      <4>2. item[j] # Null /\ item[j].by = r
        BY <1>1, <1>2, <3>1, <4>1 DEF BlocksItsOwn
      <4>3. item'[j] # Null /\ item'[j].by = Null
        BY <2>2, <3>1, <4>1, <4>2
      <4> QED
        BY <4>3 DEF Announced
    <3> QED
      BY <1>2, <2>1, <3>1 DEF NotesAfterResult
  <2> QED
    BY <1>2, <1>6, <2>3, <2>4, <2>5, <2>6 DEF Blocks
<1> QED
  BY <1>7, <1>8

(* Answers with no new publish item.                                       *)
LEMMA PlainPrompt ==
    ASSUME IInv, Lists, Prompt, IInv', NEW p \in pending, NEW res \in ResultCell,
           Answer(p, res, item), res.session = result[p.result].session,
           res.blocked = result[p.result].blocked,
           republish = Null, UNCHANGED <<session, handling, deleting, republish, undefined>>
    PROVE  Prompt'
<1>1. item \in Cells
  BY DEF IInv, CellsOK, Cells
<1>2. /\ Blocks' /\ NotesAfterResult' /\ pending' \subseteq pending
      /\ \A q \in pending' : q.kind = "subscribe" => result'[q.result].session # Null
      /\ handling' # Null => result'[handling'.result].session = handling'.session
  BY <1>1, AnswerPrompt
<1>3. SessionsStay'
  BY <1>2 DEF Prompt, SessionsStay
<1>4. NullGiven'
  BY <1>2 DEF Prompt, NullGiven
<1> QED
  BY <1>2, <1>3, <1>4 DEF Prompt, Blocks

LEMMA SubscribePrompt ==
    ASSUME IInv, Lists, Prompt, IInv', NEW p \in pending, NEW k \in Key, NEW i \in Item,
           result[p.result].session # Null, Subscribe(p, k, i),
           UNCHANGED <<session, handling, deleting, undefined>>
    PROVE  Prompt'
<1> DEFINE old == WithRoom(result[p.result])
           new == [old EXCEPT !.blocked = Append(@, i)]
           s == result[p.result].session
           id == NextFreeId(s)
           cell == [session |-> s, key |-> k, id |-> id, by |-> p.result]
           items == [item EXCEPT ![i] = cell]
<1>1. /\ CellsOK /\ item \in Cells /\ s \in Session /\ p.result \in Result
      /\ result[p.result] # Null /\ session[s] = "open"
  BY ResultOf DEF IInv, CellsOK, Cells, ResultCell, Lists, OpenOnly
<1>2. /\ old \in ResultCell /\ old.session = s /\ old.blocked = result[p.result].blocked
  BY WithRoomOK
<1>3. /\ item[i] = Null /\ Answer(p, new, items)
      /\ republish' \in {i, Null}
  BY <1>2 DEF Subscribe
<1>4. id \in Nat \ {0}
  BY <1>1, Grown
<1>5. cell \in PublishItem /\ cell # Null
  BY <1>1, <1>4, SessionsAssumption DEF PublishItem
<1>6. /\ cell.session = s /\ cell.by = p.result
      /\ items \in Cells /\ items[i] = cell
      /\ \A j \in Item \ {i} : items[j] = item[j]
  BY <1>1, <1>5 DEF Cells
<1>7. /\ new \in ResultCell /\ new.session = s
      /\ ToSet(new.blocked) = ToSet(result[p.result].blocked) \cup {i}
  <2> HIDE DEF old
  <2>1. old.blocked \in Seq(Item) /\ Append(old.blocked, i) \in Seq(Item)
    BY <1>2 DEF ResultCell
  <2>2. ToSet(Append(old.blocked, i)) = ToSet(old.blocked) \cup {i}
    <3>1. /\ Len(old.blocked) \in Nat /\ DOMAIN old.blocked = 1..Len(old.blocked)
          /\ Len(Append(old.blocked, i)) = Len(old.blocked) + 1
          /\ DOMAIN Append(old.blocked, i) = 1..Len(old.blocked) + 1
          /\ \A n \in 1..Len(old.blocked) : Append(old.blocked, i)[n] = old.blocked[n]
          /\ Append(old.blocked, i)[Len(old.blocked) + 1] = i
      BY <2>1
    <3>2. ToSet(Append(old.blocked, i)) \subseteq ToSet(old.blocked) \cup {i}
      BY <3>1 DEF ToSet
    <3>3. ToSet(old.blocked) \cup {i} \subseteq ToSet(Append(old.blocked, i))
      BY <3>1 DEF ToSet
    <3> QED
      BY <3>2, <3>3
  <2> QED
    BY <1>2, <2>1, <2>2 DEF ResultCell
<1> HIDE DEF old, new, cell, items, id
<1>8. i \notin ToSet(result[p.result].blocked)
  BY <1>1, <1>3 DEF Prompt, BlocksItsOwn
<1>9. /\ Blocks' /\ NotesAfterResult' /\ pending' \subseteq pending
      /\ \A q \in pending' : q.kind = "subscribe" => result'[q.result].session # Null
      /\ handling' # Null => result'[handling'.result].session = handling'.session
  <2>1. /\ ToSet(result[p.result].blocked) \subseteq ToSet(new.blocked)
        /\ \A j \in Item : item[j] # Null => items[j] = item[j]
        /\ \A j \in Item : item[j] = Null /\ items[j] # Null =>
             j \in ToSet(new.blocked) \ ToSet(result[p.result].blocked)
        /\ \A j \in ToSet(new.blocked) \ ToSet(result[p.result].blocked) :
             /\ items[j] # Null /\ items[j].by = p.result
             /\ items[j].session = new.session /\ new.session # Null
    BY <1>3, <1>5, <1>6, <1>7, <1>8
  <2> QED
    BY <1>3, <1>6, <1>7, <2>1, AnswerPrompt
<1>10. /\ item'[i] # Null /\ item'[i].session = s
  <2>1. Alike(item', items)
    BY <1>3, <1>6, AnswerItems
  <2> QED
    BY <1>5, <1>6, <2>1 DEF Alike
<1>11. SessionsStay'
  BY <1>1, <1>3, <1>9, <1>10 DEF Prompt, SessionsStay
<1>12. NullGiven'
  BY <1>9 DEF Prompt, NullGiven
<1> QED
  BY <1>9, <1>11, <1>12 DEF Prompt, Blocks

LEMMA ReturnPrompt ==
    ASSUME IInv, Lists, Prompt, IInv', NEW p \in pending, Return(p)
    PROVE  Prompt'
<1>1. /\ result[p.result] \in ResultCell /\ p.key \in Key \cup {Null}
      /\ p.result \in Result
  BY ResultOf
<1> USE DEF tables, calls, Application
<1>2. CASE ReturnCall(p) \/ ReturnUnsubscribe(p) \/ ReturnSubscribeReject(p)
  <2>1. /\ Answer(p, result[p.result], item) /\ republish = Null
        /\ UNCHANGED <<session, handling, deleting, republish, undefined>>
    BY <1>2 DEF ReturnCall, ReturnUnsubscribe, ReturnSubscribeReject,
       SubscribeAnswerSafe, SubscribeAnswer
  <2> QED
    BY <1>1, <2>1, PlainPrompt
<1>3. ASSUME NEW i \in Item, ReturnSubscribeAccept(p, i) PROVE Prompt'
  BY <1>1, <1>3, SubscribePrompt DEF ReturnSubscribeAccept, SubscribeAnswerSafe
<1>4. ASSUME NEW i \in Item, NEW k \in Key, ReturnSubscribeAlias(p, k, i) PROVE Prompt'
  BY <1>1, <1>4, SubscribePrompt DEF ReturnSubscribeAlias, SubscribeAnswerSafe
<1>5. ASSUME NEW k \in Key \cup {Null}, NEW what, ReturnSubscribeFails(p, k, what)
      PROVE  Prompt'
  <2> DEFINE res == IF what = "item" THEN WithRoom(result[p.result]) ELSE result[p.result]
  <2>1. /\ res \in ResultCell /\ res.session = result[p.result].session
        /\ res.blocked = result[p.result].blocked
    BY <1>1, WithRoomOK
  <2>2. /\ Answer(p, res, item) /\ republish = Null
        /\ UNCHANGED <<session, handling, deleting, republish, undefined>>
    BY <1>5 DEF ReturnSubscribeFails, SubscribeAnswer
  <2> HIDE DEF res
  <2> QED
    BY <2>1, <2>2, PlainPrompt
<1>6. CASE SubscribeAnswerCrashes(p)
  <2>1. /\ UNCHANGED <<subs, session, tables, answers, calls, early>>
        /\ p.kind = "subscribe"
        /\ result[p.result].session = Null \/ p.key = Null
    BY <1>6 DEF SubscribeAnswerCrashes, SubscribeAnswer
  <2>2. "subscription" \in Fails
    BY <2>1 DEF Prompt, SessionsStay, NullGiven
  <2>3. BlocksItsOwn' /\ BlockedUntilAnnounced' /\ HeldAreBlocked'
    BY <2>1 DEF Prompt, BlocksItsOwn, BlockedUntilAnnounced, HeldAreBlocked,
       subs, answers
  <2> QED
    BY <2>1, <2>2, <2>3 DEF Prompt, SessionsStay, NullGiven, NotesAfterResult,
       subs, answers, calls
<1> QED
  BY <1>2, <1>3, <1>4, <1>5, <1>6 DEF Return

LEMMA DispatchPrompt ==
    ASSUME IInv, Lists, Prompt, IInv', Dispatch
    PROVE  Prompt'
<1>1. /\ handling # Null /\ republish = Null
      /\ UNCHANGED <<item, session, result, held, deleting, republish, early, undefined>>
      /\ handling' # Null => /\ handling'.result = handling.result
                             /\ handling'.session = handling.session
      /\ \E q : /\ pending' = pending \cup {q}
                /\ q.result = handling.result
                /\ q.kind = "subscribe" => q.key # Null \/ "subscription" \in Fails
  <2> USE SessionsAssumption DEF Application, subs, Dispatched, Owe
  <2>0. handling # Null => handling \in Handling
    BY DEF IInv, CellsOK
  <2>1. /\ handling # Null /\ republish = Null /\ Dispatched
        /\ UNCHANGED <<item, session, result, held, deleting, republish, early, undefined>>
    BY DEF Dispatch, DispatchCall, DispatchSubscribe, DispatchSubscribeFails,
       DispatchUnknown
  <2>2. handling' # Null => /\ handling'.result = handling.result
                            /\ handling'.session = handling.session
    BY <2>0, <2>1 DEF Handling
  <2>3. \E q : /\ pending' = pending \cup {q}
               /\ q.result = handling.result
               /\ q.kind = "subscribe" => q.key # Null \/ "subscription" \in Fails
    <3>1. PICK kind, k :
            /\ pending' = pending \cup {Owe(handling.result, handling.todo, kind, k)}
            /\ kind = "subscribe" => k # Null \/ "subscription" \in Fails
      <4>1. \A k \in Key : k # Null
        OBVIOUS
      <4> HIDE DEF Owe
      <4> QED
        BY <4>1 DEF Dispatch, DispatchCall, DispatchSubscribe, DispatchSubscribeFails,
           DispatchUnknown
    <3> DEFINE q == Owe(handling.result, handling.todo, kind, k)
    <3>2. q.result = handling.result /\ q.kind = kind /\ q.key = k
      OBVIOUS
    <3> HIDE DEF q
    <3>3. pending' = pending \cup {q}
      BY <3>1 DEF q
    <3> QED
      BY <3>1, <3>2, <3>3
  <2> QED
    BY <2>1, <2>2, <2>3
<1>2. handling.session # Null
  BY <1>1, SessionsAssumption DEF IInv, CellsOK, Handling
<1>3. BlocksItsOwn' /\ BlockedUntilAnnounced' /\ HeldAreBlocked' /\ NotesAfterResult'
  BY <1>1 DEF Prompt, BlocksItsOwn, BlockedUntilAnnounced, HeldAreBlocked,
     NotesAfterResult
<1>4. SessionsStay'
  BY <1>1, <1>2 DEF Prompt, SessionsStay
<1>5. NullGiven'
  BY <1>1 DEF Prompt, NullGiven
<1> QED
  BY <1>3, <1>4, <1>5 DEF Prompt

(* A publish item that is released is in no result of an open session.     *)
LEMMA ReleasePrompt ==
    ASSUME IInv, Prompt, NEW i,
           \A r \in Result : result'[r] # Null /\ result'[r].session # Null =>
             result'[r] = result[r] /\ i \notin ToSet(result[r].blocked),
           \A r \in Result : result'[r] = Null => result[r] = Null,
           \A r \in Result : result[r] # Null /\ result'[r] # result[r] =>
             result[r].session = Null \/ session'[result[r].session] # "open",
           \A x \in Session : session'[x] = "open" => session[x] = "open",
           \A j \in Item : item'[j] = IF j = i THEN Null ELSE item[j],
           UNCHANGED held
    PROVE  Blocks'
<1>1. BlocksItsOwn /\ BlockedUntilAnnounced /\ HeldAreBlocked
  BY DEF Prompt
<1>2. \A r \in Result : result[r] # Null => \A j \in ToSet(result[r].blocked) : j \in Item
  BY DEF IInv, CellsOK, ResultCell, ToSet
<1>3. BlocksItsOwn'
  BY <1>1, <1>2 DEF BlocksItsOwn
<1>4. BlockedUntilAnnounced'
  <2> SUFFICES ASSUME NEW j \in Item, item'[j] # Null, item'[j].by # Null,
                      session'[item'[j].session] = "open"
               PROVE  /\ result'[item'[j].by] # Null
                      /\ result'[item'[j].by].session = item'[j].session
                      /\ j \in ToSet(result'[item'[j].by].blocked)
    BY DEF BlockedUntilAnnounced
  <2>1. /\ item'[j] = item[j] /\ item[j] # Null /\ item[j].session \in Session
        /\ item[j].by \in Result
    BY ItemTypes
  <2>2. /\ result[item[j].by] # Null
        /\ result[item[j].by].session = item[j].session
        /\ j \in ToSet(result[item[j].by].blocked)
    BY <1>1, <2>1 DEF BlockedUntilAnnounced
  <2>3. result'[item[j].by] = result[item[j].by]
    BY <2>1, <2>2, SessionsAssumption
  <2> QED
    BY <2>1, <2>2, <2>3
<1>5. HeldAreBlocked'
  BY <1>1 DEF HeldAreBlocked
<1> QED
  BY <1>3, <1>4, <1>5 DEF Blocks

LEMMA UnsubscribePrompt ==
    ASSUME IInv, Lists, Prompt, NEW id, DispatchUnsubscribe(id),
           Announced(publish_items[handling.session][id])
    PROVE  Prompt'
<1> DEFINE s == handling.session
           i == publish_items[s][id]
           q == Owe(handling.result, handling.todo, "unsubscribe", item[i].key)
<1>1. /\ handling # Null /\ s \in Session /\ id \in Used(s) /\ CellsOK
      /\ handling \in Handling
  BY DEF DispatchUnsubscribe, IInv, CellsOK, Handling, Used
<1>2. /\ item' = [item EXCEPT ![i] = Null]
      /\ pending' = pending \cup {q}
      /\ republish = Null /\ Dispatched
      /\ UNCHANGED <<session, result, held, deleting, republish, early, undefined>>
  BY DEF DispatchUnsubscribe, Application
<1>3. i \in Item /\ item[i] # Null /\ item[i].by = Null
  BY <1>1, UsedFinite DEF Announced
<1>4. q.kind = "unsubscribe"
  BY DEF Owe
<1> HIDE DEF q, i, s
<1>5. Blocks'
  <2>1. \A r \in Result : result[r] # Null /\ result[r].session # Null =>
          i \notin ToSet(result[r].blocked)
    BY <1>3, SessionsAssumption DEF Prompt, BlocksItsOwn
  <2>2. \A j \in Item : item'[j] = IF j = i THEN Null ELSE item[j]
    BY <1>1, <1>2 DEF CellsOK
  <2> QED
    BY <1>2, <2>1, <2>2, ReleasePrompt
<1>6. handling' # Null => /\ handling'.result = handling.result
                          /\ handling'.session = handling.session
  BY <1>1, <1>2 DEF Dispatched, Handling
<1>7. SessionsStay'
  BY <1>1, <1>2, <1>4, <1>6 DEF Prompt, SessionsStay
<1>8. NullGiven' /\ NotesAfterResult'
  BY <1>2, <1>4 DEF Prompt, NullGiven, NotesAfterResult
<1> QED
  BY <1>5, <1>7, <1>8 DEF Prompt, Blocks

LEMMA ReceivePrompt ==
    ASSUME IInv, Lists, Prompt, NEW s \in Session, Receive(s, 1)
    PROVE  Prompt'
<1> USE DEF subs, tables, answers, calls, Idle, Application
<1>1. /\ handling = Null /\ deleting = Null /\ republish = Null
      /\ UNCHANGED <<item, held, pending, deleting, republish, early, undefined>>
  BY DEF Receive, SessionCreate, HandleHello, HandleMessage
<1>2. NullGiven' /\ NotesAfterResult'
  BY <1>1 DEF Prompt, NullGiven, NotesAfterResult
<1>3. CASE SessionCreate(s) \/ HandleHello(s)
  <2>1. /\ UNCHANGED <<result, handling>>
        /\ session[s] \in {"none", "new"}
        /\ \A x \in Session : x # s => session'[x] = session[x]
        /\ session'[s] # "deleting"
    BY <1>3 DEF SessionCreate, HandleHello, Lists, ListTypes
  <2>2. \A i \in Item : item[i] # Null => session'[item[i].session] = session[item[i].session]
    BY <2>1, ItemTypes DEF Lists, InTables
  <2>3. BlocksItsOwn' /\ BlockedUntilAnnounced' /\ HeldAreBlocked'
    BY <1>1, <2>1, <2>2 DEF Prompt, BlocksItsOwn, BlockedUntilAnnounced, HeldAreBlocked
  <2>4. SessionsStay'
    BY <1>1, <2>1 DEF Prompt, SessionsStay
  <2> QED
    BY <1>2, <2>3, <2>4 DEF Prompt
<1>4. ASSUME NEW r \in Result, NEW kind \in Kind, NEW count \in 1..MaxItems,
             HandleMessage(s, r, kind, count)
      PROVE  Prompt'
  <2> DEFINE new == NewResult(s, count)
  <2>1. /\ result[r] = Null /\ result' = [result EXCEPT ![r] = new]
        /\ handling' = [session |-> s, result |-> r, kind |-> kind, todo |-> count]
        /\ UNCHANGED session
    BY <1>4, SessionsAssumption DEF HandleMessage
  <2>2. new # Null /\ new.session = s /\ ToSet(new.blocked) = {}
    <3>1. <<>> \in Seq(Item) /\ ToSet(<<>>) = {} /\ count \in Nat
      BY SessionsAssumption DEF ToSet
    <3>2. new \in ResultCell
      BY <3>1 DEF NewResult, ResultCell
    <3> QED
      BY <3>1, <3>2, SessionsAssumption DEF NewResult
  <2> HIDE DEF new
  <2>3. \A q \in Result : result'[q] = IF q = r THEN new ELSE result[q]
    BY <2>1 DEF IInv, CellsOK
  <2>4. held[r] = {}
    BY <2>1 DEF Prompt, HeldAreBlocked
  <2>5. BlocksItsOwn' /\ HeldAreBlocked'
    BY <1>1, <2>2, <2>3, <2>4 DEF Prompt, BlocksItsOwn, HeldAreBlocked
  <2>6. BlockedUntilAnnounced'
    <3> SUFFICES ASSUME NEW i \in Item, item[i] # Null, item[i].by # Null,
                        session[item[i].session] = "open"
                 PROVE  /\ result'[item[i].by] # Null
                        /\ result'[item[i].by].session = item[i].session
                        /\ i \in ToSet(result'[item[i].by].blocked)
      BY <1>1, <2>1 DEF BlockedUntilAnnounced
    <3>1. item[i].by \in Result
      BY ItemTypes
    <3> QED
      BY <2>1, <2>3, <3>1 DEF Prompt, BlockedUntilAnnounced
  <2>7. SessionsStay'
    <3>1. \A p \in pending : p.result \in Result /\ result[p.result] # Null
      BY DEF IInv, CellsOK, Owed, Counted, Asked
    <3>2. \A p \in pending : result'[p.result] = result[p.result]
      BY <2>1, <2>3, <3>1
    <3> QED
      BY <1>1, <2>1, <2>2, <2>3, <3>2 DEF Prompt, SessionsStay
  <2> QED
    BY <1>2, <2>5, <2>6, <2>7 DEF Prompt
<1> QED
  BY <1>3, <1>4 DEF Receive

(* A notification for a publish item that is not announced is held back.   *)
LEMMA HeldBack ==
    ASSUME IInv, Lists, Prompt, NEW i \in Item, item[i] # Null,
           session[item[i].session] = "open"
    PROVE  /\ BlockedBy(i) = Null => Announced(i)
           /\ BlockedBy(i) # Null =>
                result[BlockedBy(i)] # Null /\ i \in ToSet(result[BlockedBy(i)].blocked)
<1> DEFINE s == item[i].session
           list == results[s]
           holds == {n \in DOMAIN list : i \in ToSet(result[list[n]].blocked)}
<1>1. /\ s \in Session /\ list \in Seq(Result)
      /\ ToSet(list) = {r \in Result : result[r] # Null /\ result[r].session = s}
  BY ItemTypes DEF Lists, ListTypes, ListsOK, InResults
<1>2. BlockedBy(i) = IF holds = {} THEN Null ELSE list[Min(holds)]
  BY DEF BlockedBy
<1>3. holds # {} => Min(holds) \in holds
  <2>1. holds \in SUBSET Nat
    BY <1>1
  <2> HIDE DEF holds
  <2> QED
    BY <2>1, MinInSet
<1>4. \A n \in DOMAIN list : list[n] \in Result /\ result[list[n]] # Null
  BY <1>1 DEF ToSet
<1>5. holds = {} => Announced(i)
  <2> SUFFICES ASSUME item[i].by # Null PROVE holds # {}
    BY DEF Announced
  <2>1. /\ item[i].by \in Result /\ result[item[i].by] # Null
        /\ result[item[i].by].session = s
        /\ i \in ToSet(result[item[i].by].blocked)
    BY ItemTypes DEF Prompt, BlockedUntilAnnounced
  <2>2. item[i].by \in ToSet(list)
    BY <1>1, <2>1
  <2>3. PICK n \in DOMAIN list : list[n] = item[i].by
    BY <2>2 DEF ToSet
  <2>4. n \in holds
    BY <2>1, <2>3
  <2> QED
    BY <2>4
<1>6. holds # {} => list[Min(holds)] \in Result /\ result[list[Min(holds)]] # Null
                    /\ i \in ToSet(result[list[Min(holds)]].blocked)
  BY <1>3, <1>4
<1> HIDE DEF holds, list, s
<1> QED
  BY <1>2, <1>5, <1>6, SessionsAssumption

LEMMA NotifyPrompt ==
    ASSUME IInv, Lists, Prompt, NEW list \in Seq(Item), Notify(list),
           \A i \in ToSet(list) : item[i] # Null /\ session[item[i].session] = "open",
           republish' = Null
    PROVE  Prompt'
<1>1. ToSet(list) \subseteq Item
  BY DEF ToSet
<1>2. /\ held' = [r \in Result |-> held[r] \cup Held(list, r)]
      /\ early' = (early \/ \E i \in {j \in ToSet(list) : BlockedBy(j) = Null} : ~ Announced(i))
      /\ undefined' = \E i \in ToSet(list) : session[item[i].session] # "open"
      /\ UNCHANGED <<item, session, result, pending, handling, deleting>>
  BY DEF Notify, subs
<1>3. NotesAfterResult'
  <2>1. \A i \in ToSet(list) : BlockedBy(i) = Null => Announced(i)
    BY <1>1, HeldBack
  <2> QED
    BY <1>2, <2>1 DEF Prompt, NotesAfterResult
<1>4. NullGiven'
  BY <1>2 DEF Prompt, NullGiven
<1>5. HeldAreBlocked'
  <2> SUFFICES ASSUME NEW r \in Result
               PROVE  /\ result[r] = Null => held'[r] = {}
                      /\ result[r] # Null /\ result[r].session # Null =>
                           held'[r] \subseteq ToSet(result[r].blocked)
    BY <1>2 DEF HeldAreBlocked
  <2>1. held'[r] = held[r] \cup Held(list, r)
    BY <1>2
  <2>2. \A i \in Held(list, r) : result[r] # Null /\ i \in ToSet(result[r].blocked)
    BY <1>1, HeldBack, SessionsAssumption DEF Held
  <2> QED
    BY <2>1, <2>2 DEF Prompt, HeldAreBlocked
<1>6. BlocksItsOwn' /\ BlockedUntilAnnounced'
  BY <1>2 DEF Prompt, BlocksItsOwn, BlockedUntilAnnounced
<1>7. SessionsStay'
  BY <1>2 DEF Prompt, SessionsStay
<1> QED
  BY <1>3, <1>4, <1>5, <1>6, <1>7 DEF Prompt

LEMMA SessionDeletePrompt ==
    ASSUME IInv, Lists, Prompt, NEW s \in Session, SessionDelete(s), ~ Subscribing(s)
    PROVE  Prompt'
<1>1. /\ handling = Null /\ deleting = Null /\ republish = Null
      /\ result' = Orphaned(s) /\ session' = [session EXCEPT ![s] = "none"]
      /\ UNCHANGED <<item, held, pending, handling, deleting, republish, early, undefined>>
  BY DEF SessionDelete, Idle, Application, subs, calls
<1>2. /\ session \in [Session -> {"none", "new", "open", "deleting"}] /\ CellsOK
      /\ \A r \in Result : result[r] # Null => result[r] \in ResultCell
  BY DEF Lists, ListTypes, IInv, CellsOK
<1>3. \A x \in Session : session'[x] = IF x = s THEN "none" ELSE session[x]
  BY <1>1, <1>2
<1>4. \A r \in Result :
        /\ result'[r] = Null <=> result[r] = Null
        /\ result[r] # Null /\ result[r].session # s => result'[r] = result[r]
        /\ result[r] # Null /\ result[r].session = s => result'[r].session = Null
  <2>1. \A r \in Result : result'[r] = Null <=> result[r] = Null
    BY <1>1, <1>2, OrphanedOK
  <2>2. \A r \in Result : result[r] # Null => [result[r] EXCEPT !.session = Null].session = Null
    BY <1>2 DEF ResultCell
  <2> QED
    BY <1>1, <2>1, <2>2 DEF Orphaned
<1>5. \A r \in Result : result'[r] # Null /\ result'[r].session # Null =>
        result[r] # Null /\ result'[r] = result[r]
  BY <1>4
<1>6. BlocksItsOwn' /\ HeldAreBlocked'
  BY <1>1, <1>4, <1>5 DEF Prompt, BlocksItsOwn, HeldAreBlocked
<1>7. BlockedUntilAnnounced'
  <2> SUFFICES ASSUME NEW i \in Item, item[i] # Null, item[i].by # Null,
                      session'[item[i].session] = "open"
               PROVE  /\ result'[item[i].by] # Null
                      /\ result'[item[i].by].session = item[i].session
                      /\ i \in ToSet(result'[item[i].by].blocked)
    BY <1>1 DEF BlockedUntilAnnounced
  <2>1. item[i].by \in Result /\ item[i].session \in Session
    BY ItemTypes
  <2>2. session[item[i].session] = "open" /\ item[i].session # s
    BY <1>3, <2>1
  <2> QED
    BY <1>4, <2>1, <2>2 DEF Prompt, BlockedUntilAnnounced
<1>8. SessionsStay'
  <2>1. \A p \in pending : p.kind = "subscribe" =>
          /\ p.result \in Result /\ result[p.result] # Null
          /\ result[p.result].session # s
    BY DEF Subscribing, IInv, CellsOK, Owed, Counted, Asked
  <2> QED
    BY <1>1, <1>3, <1>4, <2>1 DEF Prompt, SessionsStay
<1>9. NullGiven' /\ NotesAfterResult'
  BY <1>1 DEF Prompt, NullGiven, NotesAfterResult
<1> QED
  BY <1>6, <1>7, <1>8, <1>9 DEF Prompt

(* The loop over the publish items of a session, whose results are gone.   *)
LEMMA DeleteItemPrompt ==
    ASSUME IInv, Lists, Prompt, NEW s \in Session, NEW dummy \in Result,
           DeleteItem(s, dummy), Used(s) # {}, handling = Null, republish = Null,
           deleting = Null \/ deleting.session = s,
           \A r \in Result : result'[r] # Null /\ result'[r].session # Null =>
             result'[r] = result[r] /\ result[r].session # s,
           \A r \in Result : result'[r] = Null => result[r] = Null,
           \A r \in Result : result[r] # Null /\ result'[r] # result[r] =>
             result[r].session = Null \/ result[r].session = s,
           \A p \in pending : p.kind = "subscribe" => result'[p.result].session # Null
    PROVE  Prompt'
<1> DEFINE id == Min(Used(s))
           i == publish_items[s][id]
           q == Owe(dummy, Cardinality(Used(s)), "unsubscribe", item[i].key)
           last == Used(s) = {id}
<1>1. CellsOK /\ Placed
  BY DEF IInv
<1>2. id \in Used(s)
  <2>1. Used(s) \in SUBSET Nat
    BY <1>1, UsedFinite
  <2> QED
    BY <2>1, MinInSet
<1>3. i \in Item /\ item[i] # Null /\ item[i].session = s
  BY <1>1, <1>2, UsedFinite DEF Placed
<1>4. /\ item' = [item EXCEPT ![i] = Null]
      /\ pending' = pending \cup {q}
      /\ deleting' = IF last THEN Null ELSE [session |-> s, result |-> dummy]
      /\ session' = [session EXCEPT ![s] = IF last THEN "none" ELSE "deleting"]
      /\ UNCHANGED <<held, handling, republish, early, undefined>>
  BY DEF DeleteItem
<1>5. q.kind = "unsubscribe"
  BY DEF Owe
<1> HIDE DEF q, i, id
<1>6. \A x \in Session : session'[x] =
        IF x = s THEN (IF last THEN "none" ELSE "deleting") ELSE session[x]
  BY <1>4 DEF Lists, ListTypes
<1>7. Blocks'
  <2>1. \A r \in Result : result[r] # Null /\ result[r].session # Null
          /\ result[r].session # s => i \notin ToSet(result[r].blocked)
    BY <1>3 DEF Prompt, BlocksItsOwn
  <2>2. \A j \in Item : item'[j] = IF j = i THEN Null ELSE item[j]
    BY <1>1, <1>4 DEF CellsOK
  <2>3. \A r \in Result : result'[r] # Null /\ result'[r].session # Null =>
          result'[r] = result[r] /\ i \notin ToSet(result[r].blocked)
    BY <2>1
  <2>4. \A r \in Result : result[r] # Null /\ result'[r] # result[r] =>
          result[r].session = Null \/ session'[result[r].session] # "open"
    BY <1>6
  <2>5. \A x \in Session : session'[x] = "open" => session[x] = "open"
    BY <1>6
  <2> QED
    <3>1. UNCHANGED held /\ \A r \in Result : result'[r] = Null => result[r] = Null
      BY <1>4
    <3> HIDE DEF last
    <3> QED
      BY <3>1, <2>2, <2>3, <2>4, <2>5, ReleasePrompt, Zenon
<1>8. SessionsStay'
  <2>1. \A p \in pending' : p.kind = "subscribe" => result'[p.result].session # Null
    BY <1>4, <1>5
  <2>2. \A x \in Session : session'[x] = "deleting" =>
          deleting' # Null /\ deleting'.session = x
    <3> SUFFICES ASSUME NEW x \in Session, session'[x] = "deleting"
                 PROVE  deleting' # Null /\ deleting'.session = x
      OBVIOUS
    <3>1. CASE x = s
      <4>1. ~ last
        BY <1>6, <3>1
      <4>2. [session |-> s, result |-> dummy] # Null
        BY SessionsAssumption DEF Deleting
      <4>3. deleting' = [session |-> s, result |-> dummy]
        BY <1>4, <4>1
      <4> QED
        BY <3>1, <4>2, <4>3
    <3>2. CASE x # s
      <4>1. session[x] = "deleting"
        BY <1>6, <3>2
      <4> QED
        BY <3>2, <4>1 DEF Prompt, SessionsStay
    <3> QED
      BY <3>1, <3>2
  <2> QED
    BY <1>4, <2>1, <2>2 DEF SessionsStay
<1>9. NullGiven' /\ NotesAfterResult'
  BY <1>4, <1>5 DEF Prompt, NullGiven, NotesAfterResult
<1> QED
  BY <1>7, <1>8, <1>9 DEF Prompt, Blocks

LEMMA DeletePrompt ==
    ASSUME IInv, Lists, Prompt,
           \/ \E s \in Session : ~ Subscribing(s) /\ Delete(s)
           \/ SessionDeleteItem
    PROVE  Prompt'
<1>1. ASSUME NEW s \in Session, SessionDelete(s), ~ Subscribing(s) PROVE Prompt'
  BY <1>1, SessionDeletePrompt
<1>2. ASSUME NEW s \in Session, NEW dummy \in Result, SessionDeleteBegin(s, dummy),
             ~ Subscribing(s)
      PROVE  Prompt'
  <2> DEFINE new == NewResult(Null, Cardinality(Used(s)))
  <2>1. /\ Used(s) # {} /\ result[dummy] = Null /\ DeleteItem(s, dummy)
        /\ result' = [Orphaned(s) EXCEPT ![dummy] = new]
        /\ handling = Null /\ deleting = Null /\ republish = Null
    BY <1>2 DEF SessionDeleteBegin, Idle, Application
  <2>2. CellsOK
    BY DEF IInv
  <2>3. new.session = Null /\ new # Null
    <3>1. Cardinality(Used(s)) \in Nat /\ <<>> \in Seq(Item)
      BY <2>2, UsedFinite
    <3>2. new \in ResultCell
      BY <3>1 DEF NewResult, ResultCell
    <3> QED
      BY <3>2, SessionsAssumption DEF NewResult
  <2> HIDE DEF new
  <2>4. \A r \in Result : result'[r] =
          IF r = dummy THEN new
          ELSE IF result[r] # Null /\ result[r].session = s
               THEN [result[r] EXCEPT !.session = Null] ELSE result[r]
    BY <2>1 DEF Orphaned
  <2>5. \A r \in Result : result[r] # Null =>
          /\ [result[r] EXCEPT !.session = Null].session = Null
          /\ [result[r] EXCEPT !.session = Null] # Null
    <3> SUFFICES ASSUME NEW c \in ResultCell
                 PROVE  /\ [c EXCEPT !.session = Null].session = Null
                        /\ [c EXCEPT !.session = Null] # Null
      BY <2>2 DEF CellsOK
    <3>1. [c EXCEPT !.session = Null] \in ResultCell
      BY DEF ResultCell
    <3> QED
      BY <3>1, SessionsAssumption DEF ResultCell
  <2>6. \A p \in pending : p.kind = "subscribe" => result'[p.result].session # Null
    <3> SUFFICES ASSUME NEW p \in pending, p.kind = "subscribe"
                 PROVE  result'[p.result].session # Null
      OBVIOUS
    <3>1. /\ p.result \in Result /\ result[p.result] # Null
          /\ result[p.result].session # Null
          /\ result[p.result].session # s
      BY <1>2 DEF Subscribing, IInv, CellsOK, Owed, Counted, Asked, Prompt, SessionsStay
    <3> QED
      BY <2>1, <2>4, <3>1
  <2>7. /\ \A r \in Result : result'[r] # Null /\ result'[r].session # Null =>
             result'[r] = result[r] /\ result[r].session # s
        /\ \A r \in Result : result'[r] = Null => result[r] = Null
        /\ \A r \in Result : result[r] # Null /\ result'[r] # result[r] =>
             result[r].session = Null \/ result[r].session = s
    BY <2>1, <2>3, <2>4, <2>5
  <2> QED
    BY <2>1, <2>6, <2>7, DeleteItemPrompt
<1>3. CASE SessionDeleteItem
  <2>1. /\ deleting # Null /\ deleting.session \in Session /\ deleting.result \in Result
        /\ Used(deleting.session) # {}
        /\ DeleteItem(deleting.session, deleting.result)
        /\ \A r \in Result : result[r] # Null => result[r].session # deleting.session
        /\ handling = Null /\ republish = Null /\ UNCHANGED result
    BY <1>3 DEF SessionDeleteItem, Application, IInv, CellsOK, Deleting, Counted,
       DeletingOK, OneLoop
  <2>2. \A p \in pending : p.kind = "subscribe" => result'[p.result].session # Null
    BY <2>1 DEF Prompt, SessionsStay
  <2> QED
    BY <2>1, <2>2, DeleteItemPrompt
<1> QED
  BY <1>1, <1>2, <1>3 DEF Delete

LEMMA NextPrompt == IInv /\ Lists /\ Prompt /\ IInv' /\ [PromptNext]_vars => Prompt'
<1> SUFFICES ASSUME IInv, Lists, Prompt, IInv', [PromptNext]_vars PROVE Prompt'
  OBVIOUS
<1>1. ASSUME NEW s \in Session, Receive(s, 1) PROVE Prompt'
  BY <1>1, ReceivePrompt
<1>2. CASE (\E s \in Session : ~ Subscribing(s) /\ Delete(s)) \/ SessionDeleteItem
  BY <1>2, DeletePrompt
<1>3. CASE Dispatch
  BY <1>3, DispatchPrompt
<1>4. ASSUME NEW id \in Ids, DispatchUnsubscribe(id),
             Announced(publish_items[handling.session][id])
      PROVE  Prompt'
  BY <1>4, UnsubscribePrompt
<1>5. CASE \E p \in pending : Return(p)
  BY <1>5, ReturnPrompt
<1>6. ASSUME NEW k \in Key, deleting = Null, Publish(k) PROVE Prompt'
  <2>1. publish_handle[k] \in Seq(Item) /\ republish' = Null
    BY <1>6 DEF Publish, Application, Lists, ListTypes, ListsOK
  <2>2. \A i \in ToSet(publish_handle[k]) :
          item[i] # Null /\ session[item[i].session] = "open"
    <3> SUFFICES ASSUME NEW i \in ToSet(publish_handle[k])
                 PROVE  item[i] # Null /\ session[item[i].session] = "open"
      OBVIOUS
    <3>1. i \in Item /\ item[i] # Null
      BY DEF Lists, InHandles
    <3>2. item[i].session \in Session /\ session[item[i].session] \in {"open", "deleting"}
      BY <3>1, ItemTypes DEF Lists, InTables
    <3> QED
      BY <1>6, <3>1, <3>2 DEF Prompt, SessionsStay
  <2> QED
    BY <1>6, <2>1, <2>2, NotifyPrompt DEF Publish
<1>7. CASE Republish
  <2>1. /\ republish \in Item /\ republish' = Null /\ Notify(<<republish>>)
        /\ item[republish] # Null /\ session[item[republish].session] = "open"
    BY <1>7 DEF Republish, Lists, ListTypes, Prompt, SessionsStay
  <2>2. <<republish>> \in Seq(Item) /\ ToSet(<<republish>>) = {republish}
    BY <2>1 DEF ToSet
  <2> QED
    BY <2>1, <2>2, NotifyPrompt
<1>8. CASE RepublishNothing \/ UNCHANGED vars
  <2>1. /\ UNCHANGED <<item, session, result, held, pending, handling, deleting,
                       early, undefined>>
        /\ republish' \in {republish, Null}
    BY <1>8 DEF RepublishNothing, vars, subs, answers, calls
  <2> QED
    BY <2>1 DEF Prompt, BlocksItsOwn, BlockedUntilAnnounced, HeldAreBlocked,
       SessionsStay, NullGiven, NotesAfterResult
<1> QED
  BY <1>1, <1>2, <1>3, <1>4, <1>5, <1>6, <1>7, <1>8 DEF PromptNext

LEMMA InitPrompt == Init => Prompt
BY DEF Init, Prompt, BlocksItsOwn, BlockedUntilAnnounced, HeldAreBlocked,
   SessionsStay, NullGiven, NotesAfterResult

(* With prompt callers, a notification is queued after the result that     *)
(* tells the client the subscription id in it: whatever is published       *)
(* before waits in blocked_items (wpcp_blocked_item_for_notify_item,       *)
(* wpcp_release_result).                                                   *)
THEOREM NotesAfterResultCorrect == PromptSpec => []NotesAfterResult
<1>1. Prompt => NotesAfterResult
  BY DEF Prompt
<1> QED
  BY InitInv, NextInv, InitLists, NextLists, InitPrompt, NextPrompt, PromptSteps,
     <1>1, PTL DEF PromptSpec

(* With prompt callers, and memory for every subscription, no answer and   *)
(* no notification uses a session or a subscription that is not there      *)
(* (wpcp_return_subscribe_internal, wpcp_session_add_publish_queue_item).  *)
THEOREM NoNullUseCorrect ==
    ASSUME "subscription" \notin Fails
    PROVE  PromptSpec => []NoNullUse
<1>1. Prompt => NoNullUse
  BY DEF Prompt, NullGiven, NoNullUse
<1> QED
  BY InitInv, NextInv, InitLists, NextLists, InitPrompt, NextPrompt, PromptSteps,
     <1>1, PTL DEF PromptSpec
=============================================================================
