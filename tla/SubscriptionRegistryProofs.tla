--------------------- MODULE SubscriptionRegistryProofs ---------------------
(***************************************************************************)
(* The searches of SubscriptionRegistry are correct for every set of keys  *)
(* and every number of subscriptions.                                      *)
(***************************************************************************)
EXTENDS SubscriptionRegistry, SequenceTheorems, TLAPS

(* The keys are strictly ordered.                                          *)
LEMMA LessTransitive ==
    ASSUME NEW k \in Key, NEW l \in Key, NEW m \in Key, Less(k, l), Less(l, m)
    PROVE  Less(k, m)
BY KeyAssumption DEF Less

(* No key comes before itself.                                             *)
LEMMA LessIrreflexive == \A k \in Key : ~Less(k, k)
BY KeyAssumption DEF Less

(* Keys that do not differ in the order are equal.                         *)
LEMMA SameEqual ==
    ASSUME NEW k \in Key, NEW l \in Key, Same(k, l)
    PROVE  k = l
BY KeyAssumption DEF Same, Less

(* The probe is inside the part that was not ruled out.                    *)
LEMMA Middle ==
    ASSUME NEW a \in Nat, NEW b \in Nat, a < b
    PROVE  (a + b) \div 2 \in Nat /\ a <= (a + b) \div 2 /\ (a + b) \div 2 < b
OBVIOUS

(* InsertAt moves the tail of a sequence to make room.                     *)
LEMMA InsertAtElements ==
    ASSUME NEW S, NEW s \in Seq(S), NEW i \in 1..Len(s) + 1, NEW c \in S
    PROVE  /\ InsertAt(s, i, c) \in Seq(S)
           /\ Len(InsertAt(s, i, c)) = Len(s) + 1
           /\ \A j \in 1..Len(s) + 1 :
                InsertAt(s, i, c)[j] =
                  IF j < i THEN s[j] ELSE IF j = i THEN c ELSE s[j - 1]
<1>0. Len(s) \in Nat /\ i \in Nat \ {0}
  OBVIOUS
<1> DEFINE front == SubSeq(s, 1, i - 1)
           back == SubSeq(s, i, Len(s))
<1>1. front \in Seq(S) /\ Len(front) = i - 1 /\ \A j \in 1..i - 1 : front[j] = s[j]
  OBVIOUS
<1>2. /\ back \in Seq(S) /\ Len(back) = Len(s) - i + 1
      /\ \A j \in 1..Len(s) - i + 1 : back[j] = s[i + j - 1]
  OBVIOUS
<1> HIDE DEF front, back
<1>3. <<c>> \in Seq(S) /\ Len(<<c>>) = 1 /\ <<c>>[1] = c
  OBVIOUS
<1>4. /\ front \o <<c>> \in Seq(S) /\ Len(front \o <<c>>) = i
      /\ \A j \in 1..i : (front \o <<c>>)[j] = IF j < i THEN s[j] ELSE c
  BY <1>1, <1>3
<1>5. InsertAt(s, i, c) = (front \o <<c>>) \o back
  BY DEF InsertAt, front, back
<1> DEFINE head == front \o <<c>>
<1> HIDE DEF head
<1>6. head \in Seq(S) /\ Len(head) = i
  BY <1>4 DEF head
<1>7. /\ head \o back \in Seq(S) /\ Len(head \o back) = Len(s) + 1
      /\ \A j \in 1..Len(s) + 1 :
           (head \o back)[j] = IF j <= i THEN head[j] ELSE back[j - i]
  <2>1. /\ head \o back \in Seq(S)
        /\ Len(head \o back) = Len(head) + Len(back)
        /\ \A j \in 1..Len(head) + Len(back) : (head \o back)[j] =
             IF j <= Len(head) THEN head[j] ELSE back[j - Len(head)]
    BY <1>2, <1>6, ConcatProperties
  <2>2. Len(head) + Len(back) = Len(s) + 1
    BY <1>2, <1>6
  <2> QED
    BY <2>1, <2>2, <1>6
<1>8. \A j \in 1..Len(s) + 1 : j > i => back[j - i] = s[j - 1]
  <2> SUFFICES ASSUME NEW j \in 1..Len(s) + 1, j > i PROVE back[j - i] = s[j - 1]
    OBVIOUS
  <2>1. j - i \in 1..Len(s) - i + 1 /\ i + (j - i) - 1 = j - 1
    OBVIOUS
  <2> QED
    BY <2>1, <1>2
<1>9. \A j \in 1..i : head[j] = IF j < i THEN s[j] ELSE c
  BY <1>4 DEF head
<1>10. InsertAt(s, i, c) = head \o back
  BY <1>5 DEF head
<1>11. ASSUME NEW j \in 1..Len(s) + 1
       PROVE  (head \o back)[j] =
                IF j < i THEN s[j] ELSE IF j = i THEN c ELSE s[j - 1]
  <2>1. CASE j <= i
    <3>1. (head \o back)[j] = head[j]
      BY <2>1, <1>7
    <3> QED
      BY <2>1, <3>1, <1>9
  <2>2. CASE j > i
    <3>1. (head \o back)[j] = back[j - i]
      BY <2>2, <1>7
    <3> QED
      BY <2>2, <3>1, <1>8
  <2>3. j <= i \/ j > i
    BY <1>0
  <2> QED
    BY <2>1, <2>2, <2>3
<1> QED
  BY <1>7, <1>10, <1>11

(* RemoveAt moves the tail of a sequence over the element.                 *)
LEMMA RemoveAtElements ==
    ASSUME NEW S, NEW s \in Seq(S), NEW i \in 1..Len(s)
    PROVE  /\ RemoveAt(s, i) \in Seq(S)
           /\ Len(RemoveAt(s, i)) = Len(s) - 1
           /\ \A j \in 1..Len(s) - 1 :
                RemoveAt(s, i)[j] = IF j < i THEN s[j] ELSE s[j + 1]
<1>0. Len(s) \in Nat /\ i \in Nat \ {0}
  OBVIOUS
<1> DEFINE front == SubSeq(s, 1, i - 1)
           back == SubSeq(s, i + 1, Len(s))
<1>1. front \in Seq(S) /\ Len(front) = i - 1 /\ \A j \in 1..i - 1 : front[j] = s[j]
  OBVIOUS
<1>2. /\ back \in Seq(S) /\ Len(back) = Len(s) - i
      /\ \A j \in 1..Len(s) - i : back[j] = s[i + j]
  OBVIOUS
<1> HIDE DEF front, back
<1>3. RemoveAt(s, i) = front \o back
  BY DEF RemoveAt, front, back
<1>4. /\ front \o back \in Seq(S) /\ Len(front \o back) = Len(s) - 1
      /\ \A j \in 1..Len(s) - 1 :
           (front \o back)[j] = IF j <= i - 1 THEN front[j] ELSE back[j - (i - 1)]
  <2>1. /\ front \o back \in Seq(S)
        /\ Len(front \o back) = Len(front) + Len(back)
        /\ \A j \in 1..Len(front) + Len(back) : (front \o back)[j] =
             IF j <= Len(front) THEN front[j] ELSE back[j - Len(front)]
    BY <1>1, <1>2, ConcatProperties
  <2>2. Len(front) + Len(back) = Len(s) - 1
    BY <1>1, <1>2
  <2> QED
    BY <2>1, <2>2, <1>1
<1>5. ASSUME NEW j \in 1..Len(s) - 1
      PROVE  (front \o back)[j] = IF j < i THEN s[j] ELSE s[j + 1]
  <2>1. CASE j < i
    <3>1. j <= i - 1
      BY <2>1, <1>0
    <3>2. (front \o back)[j] = front[j]
      BY <3>1, <1>4
    <3> QED
      BY <2>1, <3>1, <3>2, <1>1
  <2>2. CASE j >= i
    <3>1. j - (i - 1) \in 1..Len(s) - i /\ i + (j - (i - 1)) = j + 1
      BY <2>2, <1>0
    <3>2. (front \o back)[j] = back[j - (i - 1)]
      BY <2>2, <1>4
    <3>3. back[j - (i - 1)] = s[i + (j - (i - 1))]
      BY <3>1, <1>2
    <3> QED
      BY <2>2, <3>1, <3>2, <3>3
  <2>3. j < i \/ j >= i
    BY <1>0
  <2> QED
    BY <2>1, <2>2, <2>3
<1> QED
  BY <1>3, <1>4, <1>5

(* What a sequence lists.                                                  *)
LEMMA ToSetElements ==
    ASSUME NEW S, NEW s \in Seq(S)
    PROVE  \A c : c \in ToSet(s) <=> \E i \in 1..Len(s) : s[i] = c
BY DEF ToSet

-----------------------------------------------------------------------------
(* The inductive invariant.                                                *)

(* The key at a place of the array.                                        *)
KeyAt(i) == key[subscriptions[i]]

(* The array is sorted, without repetition.                                *)
Sorted ==
    \A i, j \in 1..Len(subscriptions) : i < j => Less(KeyAt(i), KeyAt(j))

(* What is outside of low and high was ruled out for a reason.             *)
Bracket ==
    search # "none" =>
        /\ low <= high /\ high <= Len(subscriptions)
        /\ \A i \in 1..Len(subscriptions) :
             /\ i <= low => Less(KeyAt(i), wanted)
             /\ i > high => Less(wanted, KeyAt(i))

(* What is being released is not referenced, but still listed.             *)
Releasing ==
    search = "release" =>
        /\ reference_count[released] = 0
        /\ key[released] = wanted
        /\ released \in ToSet(subscriptions)

(* The inductive invariant: the array is sorted and lists what is          *)
(* referenced, and a running search still has what it looks for between    *)
(* low and high.                                                           *)
IInv ==
    /\ TypeOK
    /\ Registered
    /\ Sorted
    /\ Bracket
    /\ Releasing
    /\ StaysInside

-----------------------------------------------------------------------------
(* The types.                                                              *)
LEMMA TypeInit == Init => TypeOK
<1> SUFFICES ASSUME Init PROVE TypeOK
  OBVIOUS
<1>1. subscriptions \in Seq(Subscription)
  BY DEF Init
<1> QED
  BY <1>1 DEF Init, TypeOK

(* Every step keeps the variables in their types.                          *)
LEMMA TypeStep == TypeOK /\ Bracket /\ [Next]_vars => TypeOK'
<1> SUFFICES ASSUME TypeOK, Bracket, [Next]_vars PROVE TypeOK'
  OBVIOUS
<1> USE DEF TypeOK
<1>0. Pos \in Nat /\ Len(subscriptions) \in Nat
  BY DEF Pos
<1>1. CASE UNCHANGED vars
  BY <1>1 DEF vars, bounds
<1>2. ASSUME NEW k \in Key, Request(k) PROVE TypeOK'
  BY <1>2 DEF Request, StartSearch
<1>3. ASSUME NEW c \in Subscription, Retain(c) PROVE TypeOK'
  BY <1>3 DEF Retain, bounds
<1>4. ASSUME NEW c \in Subscription, Release(c) PROVE TypeOK'
  <2>1. reference_count' \in [Subscription -> Nat]
    BY <1>4 DEF Release
  <2> QED
    BY <1>4, <2>1 DEF Release, StartSearch, bounds
<1>5. CASE GoRight
  BY <1>0, <1>5 DEF GoRight, RightOfPos
<1>6. CASE GoLeft
  BY <1>0, <1>6 DEF GoLeft, LeftOfPos
<1>7. CASE Find
  <2>1. Probe \in Subscription
    BY <1>0, <1>7 DEF Find, InRange, Probe
  <2> QED
    BY <1>7, <2>1 DEF Find, bounds
<1>8. ASSUME NEW c \in Subscription, Insert(c) PROVE TypeOK'
  <2>1. low + 1 \in 1..Len(subscriptions) + 1
    BY <1>0, <1>8 DEF Insert, Bracket
  <2>2. Inserted(c) \in Seq(Subscription)
    BY <2>1, InsertAtElements DEF Inserted
  <2> QED
    BY <1>8, <2>2 DEF Insert, bounds
<1>9. CASE InsertFails
  BY <1>9 DEF InsertFails, bounds
<1>10. CASE RemoveFound
  <2>1. Removed \in Seq(Subscription)
    BY <1>0, <1>10, RemoveAtElements DEF RemoveFound, InRange, Removed
  <2> QED
    BY <1>10, <2>1 DEF RemoveFound, bounds
<1> QED
  BY <1>1, <1>2, <1>3, <1>4, <1>5, <1>6, <1>7, <1>8, <1>9, <1>10
  DEF Next, Call, Search

-----------------------------------------------------------------------------
(* Steps that leave the array and the keys alone.                          *)
LEMMA SortedUnchanged ==
    ASSUME Sorted, UNCHANGED <<subscriptions, key>>
    PROVE  Sorted'
BY DEF Sorted, KeyAt

(* A search starts with nothing ruled out.                                 *)
LEMMA SearchStarts ==
    ASSUME TypeOK, NEW kind, NEW k, StartSearch(kind, k), UNCHANGED subscriptions
    PROVE  Bracket'
BY DEF TypeOK, StartSearch, Bracket

(* While the key of the probe is not the wanted one, and while a release   *)
(* goes on, low and high do not meet, and the probe is between them.       *)
LEMMA ProbeInside ==
    ASSUME IInv, Looking
    PROVE  /\ low < high
           /\ Pos \in Nat /\ low <= Pos /\ Pos < high
           /\ Pos + 1 \in 1..Len(subscriptions)
           /\ InRange
           /\ Probe \in Subscription /\ Probe = subscriptions[Pos + 1]
<1> USE DEF IInv, TypeOK
<1>0. Len(subscriptions) \in Nat
  OBVIOUS
<1>1. search # "none" /\ low <= high /\ high <= Len(subscriptions)
  BY DEF Looking, Bracket
<1>2. low < high
  <2>1. CASE search = "request"
    BY <1>1, <2>1 DEF Looking
  <2>2. CASE search = "release"
    <3>1. PICK i \in 1..Len(subscriptions) : subscriptions[i] = released
      BY <2>2, ToSetElements DEF Releasing
    <3>2. KeyAt(i) = wanted /\ wanted \in Key
      BY <2>2, <3>1 DEF Releasing, KeyAt
    <3>3. ~(i <= low) /\ ~(i > high)
      BY <2>2, <3>2, LessIrreflexive DEF Bracket
    <3> QED
      BY <1>1, <3>3
  <2> QED
    BY <2>1, <2>2 DEF Looking
<1>3. Pos \in Nat /\ low <= Pos /\ Pos < high
  BY <1>2, Middle DEF Pos
<1>4. Pos + 1 \in 1..Len(subscriptions) /\ InRange
  BY <1>0, <1>1, <1>3 DEF InRange
<1> QED
  BY <1>2, <1>3, <1>4 DEF Probe

(* The elements before a smaller one are smaller, those after a greater    *)
(* one are greater.                                                        *)
LEMMA RuledOut ==
    ASSUME IInv, NEW p \in 1..Len(subscriptions)
    PROVE  /\ Less(KeyAt(p), wanted) =>
                \A i \in 1..p : Less(KeyAt(i), wanted)
           /\ Less(wanted, KeyAt(p)) =>
                \A i \in p..Len(subscriptions) : Less(wanted, KeyAt(i))
<1>1. \A i \in 1..Len(subscriptions) : KeyAt(i) \in Key
  BY DEF IInv, TypeOK, KeyAt
<1>2. wanted \in Key /\ Len(subscriptions) \in Nat
  BY DEF IInv, TypeOK
<1>3. ASSUME Less(KeyAt(p), wanted), NEW i \in 1..p
      PROVE  Less(KeyAt(i), wanted)
  <2>1. CASE i = p
    BY <1>3, <2>1
  <2>2. CASE i < p
    <3>1. i \in 1..Len(subscriptions) /\ Less(KeyAt(i), KeyAt(p))
      BY <1>2, <2>2 DEF IInv, Sorted
    <3> QED
      BY <1>1, <1>2, <1>3, <3>1, LessTransitive
  <2> QED
    BY <1>2, <2>1, <2>2
<1>4. ASSUME Less(wanted, KeyAt(p)), NEW i \in p..Len(subscriptions)
      PROVE  Less(wanted, KeyAt(i))
  <2>1. CASE i = p
    BY <1>4, <2>1
  <2>2. CASE p < i
    <3>1. i \in 1..Len(subscriptions) /\ Less(KeyAt(p), KeyAt(i))
      BY <1>2, <2>2 DEF IInv, Sorted
    <3> QED
      BY <1>1, <1>2, <1>4, <3>1, LessTransitive
  <2> QED
    BY <1>2, <2>1, <2>2
<1> QED
  BY <1>3, <1>4

(* The release finds what it was called with.                              *)
LEMMA FindsReleased ==
    ASSUME IInv, search = "release", Same(key[Probe], wanted)
    PROVE  Probe = released
<1> USE DEF IInv, TypeOK
<1>1. Pos + 1 \in 1..Len(subscriptions) /\ Probe = subscriptions[Pos + 1]
  BY ProbeInside DEF Looking
<1>2. KeyAt(Pos + 1) = wanted
  BY <1>1, SameEqual DEF KeyAt
<1>3. PICK i \in 1..Len(subscriptions) : subscriptions[i] = released
  BY ToSetElements DEF Releasing
<1>4. KeyAt(i) = wanted
  BY <1>3 DEF Releasing, KeyAt
<1>5. i = Pos + 1
  <2>1. ~Less(wanted, wanted)
    BY LessIrreflexive
  <2>2. ~(i < Pos + 1) /\ ~(Pos + 1 < i)
    BY <1>1, <1>2, <1>4, <2>1 DEF Sorted
  <2> QED
    BY <1>1, <2>2
<1> QED
  BY <1>1, <1>3, <1>5

-----------------------------------------------------------------------------
(* The array stays sorted when c is inserted where the search ended.       *)
LEMMA InsertSorted ==
    ASSUME IInv, NEW c \in Subscription, Insert(c)
    PROVE  /\ Sorted'
           /\ \A d : d \in ToSet(subscriptions)' <=> d \in ToSet(subscriptions) \cup {c}
<1> DEFINE n == Len(subscriptions)
<1>0. n \in Nat /\ low \in Nat /\ low <= n /\ low = high
  BY DEF IInv, TypeOK, Bracket, Insert
<1>1. low + 1 \in 1..n + 1
  BY <1>0
<1>2. /\ Len(subscriptions') = n + 1
      /\ \A j \in 1..n + 1 : subscriptions'[j] =
           IF j < low + 1 THEN subscriptions[j]
           ELSE IF j = low + 1 THEN c ELSE subscriptions[j - 1]
      /\ subscriptions' \in Seq(Subscription)
  <2>1. subscriptions \in Seq(Subscription)
    BY DEF IInv, TypeOK
  <2>2. subscriptions' = InsertAt(subscriptions, low + 1, c)
    BY DEF Insert, Inserted
  <2> DEFINE longer == InsertAt(subscriptions, low + 1, c)
  <2>3. /\ longer \in Seq(Subscription) /\ Len(longer) = n + 1
        /\ \A j \in 1..n + 1 : longer[j] =
             IF j < low + 1 THEN subscriptions[j]
             ELSE IF j = low + 1 THEN c ELSE subscriptions[j - 1]
    <3>1. \A i \in 1..n + 1 :
            LET t == InsertAt(subscriptions, i, c)
            IN  /\ t \in Seq(Subscription) /\ Len(t) = n + 1
                /\ \A j \in 1..n + 1 : t[j] =
                     IF j < i THEN subscriptions[j]
                     ELSE IF j = i THEN c ELSE subscriptions[j - 1]
      BY <2>1, InsertAtElements
    <3> QED
      BY <1>1, <3>1, Zenon
  <2> HIDE DEF longer
  <2>4. subscriptions' = longer
    BY <2>2 DEF longer
  <2> QED
    BY <2>3, <2>4
<1>3. /\ \A i \in 1..n : subscriptions[i] # c /\ subscriptions[i] \in Subscription
      /\ key'[c] = wanted
      /\ \A d \in Subscription : d # c => key'[d] = key[d]
  BY ToSetElements DEF Insert, IInv, TypeOK
<1>4. ASSUME NEW j \in 1..n + 1
      PROVE  /\ j < low + 1 => KeyAt(j)' = KeyAt(j) /\ j \in 1..n
             /\ j = low + 1 => KeyAt(j)' = wanted
             /\ j > low + 1 => KeyAt(j)' = KeyAt(j - 1) /\ j - 1 \in 1..n
  <2>1. CASE j < low + 1
    <3>1. j \in 1..n /\ subscriptions'[j] = subscriptions[j]
      BY <1>0, <1>2, <2>1
    <3> QED
      BY <1>0, <1>3, <2>1, <3>1 DEF KeyAt
  <2>2. CASE j = low + 1
    <3>1. subscriptions'[j] = c
      BY <1>0, <1>2, <2>2
    <3> QED
      BY <1>0, <1>3, <2>2, <3>1 DEF KeyAt
  <2>3. CASE j > low + 1
    <3>1. j - 1 \in 1..n /\ subscriptions'[j] = subscriptions[j - 1]
      BY <1>0, <1>2, <2>3
    <3> QED
      BY <1>0, <1>3, <2>3, <3>1 DEF KeyAt
  <2> QED
    BY <1>0, <2>1, <2>2, <2>3
<1>5. \A i \in 1..n : /\ i <= low => Less(KeyAt(i), wanted)
                      /\ i > low => Less(wanted, KeyAt(i))
  BY <1>0 DEF IInv, Bracket, Insert
<1>6. ASSUME NEW i \in 1..n + 1, NEW j \in 1..n + 1, i < j
      PROVE  Less(KeyAt(i)', KeyAt(j)')
  <2>1. CASE i = low + 1
    <3>1. j > low + 1 /\ j - 1 > low
      BY <1>0, <1>6, <2>1
    <3> QED
      BY <1>4, <1>5, <2>1, <3>1
  <2>2. CASE j = low + 1
    <3>1. i < low + 1 /\ i <= low
      BY <1>0, <1>6, <2>2
    <3> QED
      BY <1>4, <1>5, <2>2, <3>1
  <2>3. CASE i < low + 1 /\ j < low + 1
    BY <1>4, <1>6, <2>3 DEF IInv, Sorted
  <2>4. CASE i > low + 1 /\ j > low + 1
    <3>1. i - 1 \in 1..n /\ j - 1 \in 1..n /\ i - 1 < j - 1
      BY <1>0, <1>6, <2>4
    <3> QED
      BY <1>4, <2>4, <3>1 DEF IInv, Sorted
  <2>5. CASE i < low + 1 /\ j > low + 1
    <3>1. i \in 1..n /\ j - 1 \in 1..n /\ i < j - 1
      BY <1>0, <1>6, <2>5
    <3> QED
      BY <1>4, <2>5, <3>1 DEF IInv, Sorted
  <2> QED
    BY <1>0, <1>6, <2>1, <2>2, <2>3, <2>4, <2>5
<1>7. Sorted'
  BY <1>2, <1>6 DEF Sorted
<1>8. ASSUME NEW d
      PROVE  d \in ToSet(subscriptions)' <=> d \in ToSet(subscriptions) \cup {c}
  <2>1. d \in ToSet(subscriptions') <=> \E j \in 1..n + 1 : subscriptions'[j] = d
    BY <1>2, ToSetElements
  <2>2. d \in ToSet(subscriptions) <=> \E i \in 1..n : subscriptions[i] = d
    BY ToSetElements DEF IInv, TypeOK
  <2>3. (\E j \in 1..n + 1 : subscriptions'[j] = d)
          => d = c \/ \E i \in 1..n : subscriptions[i] = d
    <3> SUFFICES ASSUME NEW j \in 1..n + 1, subscriptions'[j] = d
                 PROVE  d = c \/ \E i \in 1..n : subscriptions[i] = d
      OBVIOUS
    <3>1. CASE j < low + 1
      BY <1>0, <1>2, <3>1
    <3>2. CASE j = low + 1
      BY <1>0, <1>2, <3>2
    <3>3. CASE j > low + 1
      <4>1. j - 1 \in 1..n /\ subscriptions'[j] = subscriptions[j - 1]
        BY <1>0, <1>2, <3>3
      <4> QED
        BY <4>1
    <3> QED
      BY <1>0, <3>1, <3>2, <3>3
  <2>4. subscriptions'[low + 1] = c
    BY <1>0, <1>1, <1>2
  <2>5. ASSUME NEW i \in 1..n, subscriptions[i] = d
        PROVE  \E j \in 1..n + 1 : subscriptions'[j] = d
    <3>1. CASE i < low + 1
      BY <1>0, <1>2, <2>5, <3>1
    <3>2. CASE i >= low + 1
      <4>1. i + 1 \in 1..n + 1 /\ subscriptions'[i + 1] = subscriptions[(i + 1) - 1]
        BY <1>0, <1>2, <3>2
      <4>2. (i + 1) - 1 = i
        OBVIOUS
      <4> QED
        BY <2>5, <4>1, <4>2
    <3> QED
      BY <1>0, <3>1, <3>2
  <2> QED
    BY <1>1, <2>1, <2>2, <2>3, <2>4, <2>5
<1> QED
  BY <1>7, <1>8

(* The array stays sorted when the probe of a release is removed.          *)
LEMMA RemoveSorted ==
    ASSUME IInv, RemoveFound
    PROVE  /\ Sorted'
           /\ \A d : d \in ToSet(subscriptions)' <=>
                    d \in ToSet(subscriptions) /\ d # released
<1> DEFINE n == Len(subscriptions)
           p == Pos + 1
<1>0. search = "release" /\ Same(key[Probe], wanted)
  BY DEF RemoveFound
<1>1. n \in Nat /\ p \in 1..n /\ subscriptions[p] = released
  BY <1>0, ProbeInside, FindsReleased DEF IInv, TypeOK, Looking
<1>2. /\ Len(subscriptions') = n - 1
      /\ \A j \in 1..n - 1 : subscriptions'[j] =
           IF j < p THEN subscriptions[j] ELSE subscriptions[j + 1]
      /\ subscriptions' \in Seq(Subscription)
  <2>1. subscriptions \in Seq(Subscription)
    BY DEF IInv, TypeOK
  <2>2. subscriptions' = RemoveAt(subscriptions, p)
    BY DEF RemoveFound, Removed
  <2> DEFINE shorter == RemoveAt(subscriptions, p)
  <2>3. /\ shorter \in Seq(Subscription) /\ Len(shorter) = n - 1
        /\ \A j \in 1..n - 1 : shorter[j] =
             IF j < p THEN subscriptions[j] ELSE subscriptions[j + 1]
    BY <1>1, <2>1, RemoveAtElements
  <2> HIDE DEF shorter
  <2>4. subscriptions' = shorter
    BY <2>2 DEF shorter
  <2> QED
    BY <2>3, <2>4
<1> HIDE DEF p
<1>3. key' = key
  BY DEF RemoveFound
<1>4. ASSUME NEW j \in 1..n - 1
      PROVE  /\ j < p => KeyAt(j)' = KeyAt(j) /\ j \in 1..n
             /\ j >= p => KeyAt(j)' = KeyAt(j + 1) /\ j + 1 \in 1..n
  BY <1>1, <1>2, <1>3 DEF KeyAt
<1>5. ASSUME NEW i \in 1..n - 1, NEW j \in 1..n - 1, i < j
      PROVE  Less(KeyAt(i)', KeyAt(j)')
  <2>1. CASE j < p
    <3>1. i \in 1..n /\ j \in 1..n /\ i < p
      BY <1>1, <1>5, <2>1
    <3> QED
      BY <1>4, <1>5, <2>1, <3>1 DEF IInv, Sorted
  <2>2. CASE i < p /\ j >= p
    <3>1. i \in 1..n /\ j + 1 \in 1..n /\ i < j + 1
      BY <1>1, <1>5, <2>2
    <3> QED
      BY <1>4, <2>2, <3>1 DEF IInv, Sorted
  <2>3. CASE i >= p
    <3>1. i + 1 \in 1..n /\ j + 1 \in 1..n /\ i + 1 < j + 1 /\ j >= p
      BY <1>1, <1>5, <2>3
    <3> QED
      BY <1>4, <2>3, <3>1 DEF IInv, Sorted
  <2> QED
    BY <1>1, <1>5, <2>1, <2>2, <2>3
<1>6. Sorted'
  BY <1>2, <1>5 DEF Sorted
<1>7. ASSUME NEW i \in 1..n, i # p
      PROVE  subscriptions[i] # released
  <2>1. KeyAt(i) \in Key
    BY DEF KeyAt, IInv, TypeOK
  <2>2. i < p \/ p < i
    BY <1>1, <1>7
  <2>3. Less(KeyAt(i), KeyAt(p)) \/ Less(KeyAt(p), KeyAt(i))
    BY <1>1, <2>2 DEF IInv, Sorted
  <2>4. KeyAt(i) # KeyAt(p)
    BY <2>1, <2>3, LessIrreflexive
  <2> QED
    BY <1>1, <2>4 DEF KeyAt
<1>8. ASSUME NEW d
      PROVE  d \in ToSet(subscriptions)' <=> d \in ToSet(subscriptions) /\ d # released
  <2>1. d \in ToSet(subscriptions') <=> \E j \in 1..n - 1 : subscriptions'[j] = d
    BY <1>2, ToSetElements
  <2>2. d \in ToSet(subscriptions) <=> \E i \in 1..n : subscriptions[i] = d
    BY ToSetElements DEF IInv, TypeOK
  <2>3. ASSUME NEW j \in 1..n - 1, subscriptions'[j] = d
        PROVE  d # released /\ \E i \in 1..n : subscriptions[i] = d
    <3>1. CASE j < p
      <4>1. j \in 1..n /\ j # p /\ subscriptions[j] = d
        BY <1>1, <1>2, <2>3, <3>1
      <4> QED
        BY <1>7, <4>1
    <3>2. CASE j >= p
      <4>1. j + 1 \in 1..n /\ j + 1 # p /\ subscriptions[j + 1] = d
        BY <1>1, <1>2, <2>3, <3>2
      <4> QED
        BY <1>7, <4>1
    <3> QED
      BY <1>1, <3>1, <3>2
  <2>4. ASSUME NEW i \in 1..n, subscriptions[i] = d, d # released
        PROVE  \E j \in 1..n - 1 : subscriptions'[j] = d
    <3>1. i # p
      BY <1>1, <2>4
    <3>2. CASE i < p
      <4>1. i \in 1..n - 1 /\ subscriptions'[i] = subscriptions[i]
        BY <1>1, <1>2, <3>2
      <4> QED
        BY <2>4, <4>1
    <3>3. CASE i > p
      <4>1. i - 1 \in 1..n - 1 /\ ~(i - 1 < p) /\ (i - 1) + 1 = i
        BY <1>1, <3>3
      <4>2. subscriptions'[i - 1] = subscriptions[i]
        BY <1>2, <4>1
      <4> QED
        BY <2>4, <4>1, <4>2
    <3> QED
      BY <1>1, <3>1, <3>2, <3>3
  <2> QED
    BY <2>1, <2>2, <2>3, <2>4
<1> QED
  BY <1>6, <1>8

-----------------------------------------------------------------------------
(* An empty registry is sorted and nobody searches.                        *)
LEMMA InvInit == Init => IInv
<1> SUFFICES ASSUME Init PROVE IInv
  OBVIOUS
<1>1. TypeOK
  BY TypeInit
<1>2. Len(subscriptions) = 0 /\ \A c : c \notin ToSet(subscriptions)
  <2>1. Len(subscriptions) = 0 /\ subscriptions \in Seq(Subscription)
    BY <1>1 DEF Init, TypeOK
  <2>2. \A c : c \in ToSet(subscriptions) <=>
               \E i \in 1..Len(subscriptions) : subscriptions[i] = c
    BY <2>1, ToSetElements
  <2> QED
    BY <2>1, <2>2
<1> QED
  BY <1>1, <1>2 DEF Init, IInv, Registered, Sorted, Bracket, Releasing, StaysInside

(* The parts other than the types, for every step.                         *)
LEMMA InvStep == IInv /\ [Next]_vars => IInv'
<1> SUFFICES ASSUME IInv, [Next]_vars PROVE IInv'
  OBVIOUS
<1>0. TypeOK'
  BY TypeStep DEF IInv
<1> USE DEF IInv
<1>1. CASE UNCHANGED vars
  BY <1>0, <1>1 DEF vars, bounds, TypeOK, Registered, Sorted, KeyAt, Bracket, Releasing,
     StaysInside
<1>2. ASSUME NEW k \in Key, Request(k) PROVE IInv'
  <2>1. Sorted' /\ Bracket'
    BY <1>2, SortedUnchanged, SearchStarts DEF Request
  <2> QED
    BY <1>0, <1>2, <2>1 DEF Request, StartSearch, Registered, Releasing, StaysInside
<1>3. ASSUME NEW c \in Subscription, Retain(c) PROVE IInv'
  <2>1. \A d \in Subscription : reference_count'[d] = 0 <=> reference_count[d] = 0
    BY <1>3 DEF Retain, TypeOK
  <2>2. Sorted'
    BY <1>3, SortedUnchanged DEF Retain
  <2> QED
    BY <1>0, <1>3, <2>1, <2>2 DEF Retain, Registered, Bracket, Releasing, StaysInside
<1>4. ASSUME NEW c \in Subscription, Release(c) PROVE IInv'
  <2>1. Sorted'
    BY <1>4, SortedUnchanged DEF Release
  <2>2. c \in ToSet(subscriptions)
    BY <1>4 DEF Release, Registered
  <2>3. CASE reference_count[c] = 1
    <3>1. Bracket'
      BY <1>4, <2>3, SearchStarts DEF Release
    <3>2. /\ reference_count'[c] = 0 /\ search' = "release" /\ released' = c
          /\ \A d \in Subscription : d # c => reference_count'[d] = reference_count[d]
      BY <1>4, <2>3 DEF Release, StartSearch, TypeOK
    <3>3. Registered'
      BY <1>4, <2>2, <3>2 DEF Release, Registered
    <3>4. Releasing'
      BY <1>4, <2>2, <2>3, <3>2 DEF Release, StartSearch, Releasing
    <3> QED
      BY <1>0, <1>4, <2>1, <3>1, <3>3, <3>4 DEF Release, StaysInside
  <2>4. CASE reference_count[c] # 1
    <3>1. \A d \in Subscription : reference_count'[d] = 0 <=> reference_count[d] = 0
      BY <1>4, <2>4 DEF Release, TypeOK
    <3> QED
      BY <1>0, <1>4, <2>1, <2>4, <3>1
      DEF Release, Registered, Bracket, Releasing, StaysInside
  <2> QED
    BY <2>3, <2>4
<1>5. CASE GoRight
  <2>1. /\ Pos \in Nat /\ low <= Pos /\ Pos < high
        /\ Pos + 1 \in 1..Len(subscriptions) /\ InRange
        /\ Less(KeyAt(Pos + 1), wanted)
    BY <1>5, ProbeInside DEF GoRight, MayFind, KeyAt
  <2>2. \A i \in 1..Pos + 1 : Less(KeyAt(i), wanted)
    BY <2>1, RuledOut
  <2>3. Sorted'
    BY <1>5, SortedUnchanged DEF GoRight
  <2>4. Bracket'
    <3>1. low' <= high' /\ low' = Pos + 1
      BY <1>5, <2>1 DEF GoRight, RightOfPos, TypeOK
    <3>2. \A i \in 1..Len(subscriptions) : i <= low' => i \in 1..Pos + 1
      BY <2>1, <3>1
    <3> QED
      BY <1>5, <2>1, <2>2, <3>1, <3>2 DEF GoRight, Bracket, KeyAt, Looking
  <2> QED
    BY <1>0, <1>5, <2>1, <2>3, <2>4 DEF GoRight, Registered, Releasing, StaysInside
<1>6. CASE GoLeft
  <2>1. /\ Pos \in Nat /\ low <= Pos /\ Pos < high
        /\ Pos + 1 \in 1..Len(subscriptions) /\ InRange
        /\ Less(wanted, KeyAt(Pos + 1))
    BY <1>6, ProbeInside DEF GoLeft, MayFind, KeyAt
  <2>2. \A i \in Pos + 1..Len(subscriptions) : Less(wanted, KeyAt(i))
    BY <2>1, RuledOut
  <2>3. Sorted'
    BY <1>6, SortedUnchanged DEF GoLeft
  <2>4. Bracket'
    <3>1. low' <= high' /\ high' = Pos /\ high' <= Len(subscriptions)
      BY <1>6, <2>1 DEF GoLeft, LeftOfPos, TypeOK
    <3>2. \A i \in 1..Len(subscriptions) : i > high' => i \in Pos + 1..Len(subscriptions)
      BY <2>1, <3>1
    <3> QED
      BY <1>6, <2>1, <2>2, <3>1, <3>2 DEF GoLeft, Bracket, KeyAt, Looking
  <2> QED
    BY <1>0, <1>6, <2>1, <2>3, <2>4 DEF GoLeft, Registered, Releasing, StaysInside
<1>7. CASE Find
  <2>1. Sorted' /\ search' = "none"
    BY <1>7, SortedUnchanged DEF Find
  <2>2. Probe \in Subscription /\ Probe \in ToSet(subscriptions)
    BY <1>7, ProbeInside, ToSetElements DEF Find, TypeOK
  <2>3. reference_count[Probe] # 0
    BY <1>7, <2>2 DEF Find, Registered
  <2>4. \A d \in Subscription : reference_count'[d] = 0 <=> reference_count[d] = 0
    BY <1>7, <2>2, <2>3 DEF Find, TypeOK
  <2> QED
    BY <1>0, <1>7, <2>1, <2>4 DEF Find, Registered, Bracket, Releasing, StaysInside
<1>8. ASSUME NEW c \in Subscription, Insert(c) PROVE IInv'
  <2>1. /\ Sorted' /\ search' = "none"
        /\ \A d : d \in ToSet(subscriptions)' <=> d \in ToSet(subscriptions) \cup {c}
    BY <1>8, InsertSorted DEF Insert
  <2>2. /\ reference_count'[c] = 1
        /\ \A d \in Subscription : d # c => reference_count'[d] = reference_count[d]
    BY <1>8 DEF Insert, TypeOK
  <2>3. Registered'
    BY <1>8, <2>1, <2>2 DEF Insert, Registered
  <2> QED
    BY <1>0, <1>8, <2>1, <2>3 DEF Insert, Bracket, Releasing, StaysInside
<1>9. CASE InsertFails
  <2>1. Sorted'
    BY <1>9, SortedUnchanged DEF InsertFails
  <2> QED
    BY <1>0, <1>9, <2>1 DEF InsertFails, Registered, Bracket, Releasing, StaysInside
<1>10. CASE RemoveFound
  <2>1. /\ Sorted' /\ search' = "none"
        /\ \A d : d \in ToSet(subscriptions)' <=> d \in ToSet(subscriptions) /\ d # released
    BY <1>10, RemoveSorted DEF RemoveFound
  <2>2. Registered'
    BY <1>10, <2>1 DEF RemoveFound, Registered, Releasing
  <2> QED
    BY <1>0, <1>10, <2>1, <2>2 DEF RemoveFound, Bracket, Releasing, StaysInside
<1> QED
  BY <1>1, <1>2, <1>3, <1>4, <1>5, <1>6, <1>7, <1>8, <1>9, <1>10
  DEF Next, Call, Search

(* The inductive invariant holds throughout.                               *)
THEOREM InvCorrect == Spec => []IInv
BY InvInit, InvStep, PTL DEF Spec

-----------------------------------------------------------------------------
(* Every variable stays in its type: the search positions do not wrap      *)
(* around below 0 and no reference count is taken below 0.                 *)
THEOREM TypeCorrect == Spec => []TypeOK
<1>1. IInv => TypeOK
  BY DEF IInv
<1> QED
  BY <1>1, InvCorrect, PTL

(* The array lists what is referenced: the subscription that is freed is   *)
(* the one that is removed.                                                *)
THEOREM RegisteredCorrect == Spec => []Registered
<1>1. IInv => Registered
  BY DEF IInv
<1> QED
  BY <1>1, InvCorrect, PTL

(* The release loop finds its subscription without reading past the array. *)
THEOREM StaysInsideCorrect == Spec => []StaysInside
<1>1. IInv => StaysInside
  BY DEF IInv
<1> QED
  BY <1>1, InvCorrect, PTL

(* All who subscribe to one thing share one subscription.                  *)
THEOREM OnePerKeyCorrect == Spec => []OnePerKey
<1>1. IInv => OnePerKey
  <2> SUFFICES ASSUME IInv, NEW c \in Subscription, NEW d \in Subscription, c # d,
                      reference_count[c] # 0, reference_count[d] # 0
               PROVE  key[c] # key[d]
    BY DEF OnePerKey
  <2>1. PICK i \in 1..Len(subscriptions) : subscriptions[i] = c
    BY ToSetElements DEF IInv, TypeOK, Registered
  <2>2. PICK j \in 1..Len(subscriptions) : subscriptions[j] = d
    BY ToSetElements DEF IInv, TypeOK, Registered
  <2>3. i < j \/ j < i
    BY <2>1, <2>2
  <2>4. Less(key[c], key[d]) \/ Less(key[d], key[c])
    BY <2>1, <2>2, <2>3 DEF IInv, Sorted, KeyAt
  <2> QED
    BY <2>4, LessIrreflexive DEF IInv, TypeOK
<1> QED
  BY <1>1, InvCorrect, PTL

(* Each pass of a search loop leaves less to look at, so that both loops   *)
(* end whatever the keys.                                                  *)
THEOREM SearchShrinksCorrect == Spec => SearchShrinks
<1>1. IInv /\ [Next]_vars =>
        [search # "none" /\ search' = search => high' + low < high + low']_vars
  <2> SUFFICES ASSUME IInv, [Next]_vars, search # "none", search' = search,
                      vars' # vars
               PROVE  high' + low < high + low'
    OBVIOUS
  <2> USE DEF IInv, TypeOK
  <2>1. CASE GoRight
    <3>1. Pos \in Nat /\ low <= Pos /\ low' = Pos + 1 /\ high' = high
      BY <2>1, ProbeInside DEF GoRight, RightOfPos
    <3> QED
      BY <3>1
  <2>2. CASE GoLeft
    <3>1. Pos \in Nat /\ Pos < high /\ high' = Pos /\ low' = low
      BY <2>2, ProbeInside DEF GoLeft, LeftOfPos
    <3> QED
      BY <3>1
  <2> QED
    BY <2>1, <2>2 DEF Next, Call, Search, Request, Retain, Release, Find, Insert,
       InsertFails, RemoveFound
<1> QED
  BY <1>1, InvCorrect, PTL DEF Spec, SearchShrinks

(* A request gives a reference to what was requested, and to nothing else. *)
THEOREM GivesWantedCorrect == Spec => GivesWanted
<1>1. IInv /\ [Next]_vars =>
        [\A c \in Subscription :
          search = "request" /\ reference_count'[c] # reference_count[c]
            => key'[c] = wanted /\ reference_count'[c] = reference_count[c] + 1]_vars
  <2> SUFFICES ASSUME IInv, [Next]_vars, NEW c \in Subscription,
                      search = "request", reference_count'[c] # reference_count[c]
               PROVE  key'[c] = wanted /\ reference_count'[c] = reference_count[c] + 1
    OBVIOUS
  <2> USE DEF IInv, TypeOK
  <2>1. CASE Find
    <3>1. Probe \in Subscription /\ key[Probe] = wanted
      BY <2>1, ProbeInside, SameEqual DEF Find
    <3> QED
      BY <2>1, <3>1 DEF Find
  <2>2. ASSUME NEW d \in Subscription, Insert(d)
        PROVE  key'[c] = wanted /\ reference_count'[c] = reference_count[c] + 1
    <3>1. c = d /\ reference_count[c] = 0
      BY <2>2 DEF Insert, Registered
    <3> QED
      BY <2>2, <3>1 DEF Insert
  <2> QED
    BY <2>1, <2>2 DEF Next, Call, Search, Request, Retain, Release, GoRight, GoLeft,
       InsertFails, RemoveFound, vars
<1> QED
  BY <1>1, InvCorrect, PTL DEF Spec, GivesWanted
=============================================================================
