------------------------- MODULE NotificationsProofs -------------------------
(***************************************************************************)
(* For any number of sessions, publish items, results and blocks: the      *)
(* queues of notifications stay apart and nothing that was freed is used,  *)
(* a block lives as long as a cell of it is in a queue (IInv), and every   *)
(* publish item gets what was published to it, in order.                   *)
(***************************************************************************)
EXTENDS Notifications, FiniteSetTheorems, SequenceTheorems, WellFoundedInduction, TLAPS

-----------------------------------------------------------------------------
(* Induction over a range of numbers.                                      *)

(* A set of numbers has a least one.                                       *)
LEMMA Least ==
    ASSUME NEW S \in SUBSET Nat, S # {}
    PROVE  \E x \in S : \A y \in S : x <= y
<1> DEFINE R == {ss \in Nat \X Nat : ss[1] < ss[2]}
<1>1. IsWellFoundedOn(R, Nat)
  BY NatLessThanWellFounded, Zenon DEF OpToRel
<1>2. PICK x \in S : \A y \in S : ~ (<<y, x>> \in R)
  <2> HIDE DEF R
  <2> QED
    BY <1>1, WFMin, Zenon
<1>3. ASSUME NEW y \in S PROVE x <= y
  <2>1. ~ (<<y, x>> \in R)
    BY <1>2
  <2> QED
    BY <2>1
<1> QED
  BY <1>3

(* Induction up to a number, for the members of a set.                     *)
LEMMA UpTo ==
    ASSUME NEW n \in Nat, NEW T, 0 \in T,
           \A i \in 1..n : i - 1 \in T => i \in T
    PROVE  \A i \in 0..n : i \in T
<1> DEFINE S == {i \in 0..n : i \notin T}
<1>1. S \subseteq Nat
  OBVIOUS
<1>2. ASSUME S # {} PROVE FALSE
  <2>1. PICK x \in S : \A y \in S : x <= y
    <3> HIDE DEF S
    <3> QED
      BY <1>1, <1>2, Least
  <2>2. x \in 1..n /\ x \notin T /\ x - 1 \notin S
    BY <2>1
  <2>3. x - 1 \in T
    BY <2>2
  <2> QED
    BY <2>2, <2>3
<1> QED
  BY <1>2

(* A function that starts with a and goes on in steps.                     *)
Runs(g, n, a, step) == g[0] = a /\ \A i \in 1..n : g[i] = step[i][g[i - 1]]

(* A function can be defined by recursion over a range of numbers.         *)
LEMMA Recursion ==
    ASSUME NEW n \in Nat, NEW S, NEW a \in S, NEW step \in [1..n -> [S -> S]]
    PROVE  \E g \in [0..n -> S] : Runs(g, n, a, step)
<1> DEFINE T == {m \in 0..n : \E g \in [0..m -> S] : Runs(g, m, a, step)}
<1>1. 0 \in T
  <2> DEFINE g == [i \in 0..0 |-> a]
  <2>1. g \in [0..0 -> S] /\ Runs(g, 0, a, step)
    BY DEF Runs
  <2> HIDE DEF g
  <2> QED
    BY <2>1
<1>2. ASSUME NEW m \in 1..n, m - 1 \in T PROVE m \in T
  <2>1. PICK g \in [0..m - 1 -> S] : Runs(g, m - 1, a, step)
    BY <1>2
  <2> DEFINE x == step[m][g[m - 1]]
             h == [i \in 0..m |-> IF i = m THEN x ELSE g[i]]
  <2>2. g[m - 1] \in S
    OBVIOUS
  <2>3. x \in S
    BY <2>2
  <2>4. h \in [0..m -> S]
    <3> HIDE DEF x
    <3> QED
      BY <2>3
  <2>5. h[0] = a
    BY <2>1 DEF Runs
  <2>6. ASSUME NEW i \in 1..m PROVE h[i] = step[i][h[i - 1]]
    <3>1. CASE i = m
      <4>1. h[m] = x /\ h[m - 1] = g[m - 1] /\ m # 0
        OBVIOUS
      <4> QED
        BY <3>1, <4>1
    <3>2. CASE i # m
      <4>1. i \in 1..m - 1 /\ h[i] = g[i] /\ h[i - 1] = g[i - 1]
        BY <3>2
      <4> QED
        BY <2>1, <4>1 DEF Runs
    <3> QED
      BY <3>1, <3>2
  <2>7. Runs(h, m, a, step)
    BY <2>5, <2>6 DEF Runs
  <2> HIDE DEF h
  <2> QED
    BY <2>4, <2>7
<1>3. \A m \in 0..n : m \in T
  <2> HIDE DEF T
  <2> QED
    BY <1>1, <1>2, UpTo
<1>4. n \in T
  <2> HIDE DEF T
  <2> QED
    BY <1>3
<1> QED
  BY <1>4

-----------------------------------------------------------------------------
(* Chains of cells.                                                        *)

Links == [Cell -> Cell \cup {Null}]

(* Counting to n.                                                          *)
LEMMA Interval ==
    ASSUME NEW n \in Nat
    PROVE  /\ IsFiniteSet(1..n) /\ Cardinality(1..n) = n
           /\ IsFiniteSet(0..n - 1) /\ Cardinality(0..n - 1) = n
<1>1. IsFiniteSet(1..n) /\ Cardinality(1..n) = IF 1 > n THEN 0 ELSE n - 1 + 1
  <2>1. 1 \in Int /\ n \in Int
    OBVIOUS
  <2> QED
    BY <2>1, FS_Interval
<1>2. IsFiniteSet(0..n - 1) /\ Cardinality(0..n - 1) = IF 0 > n - 1 THEN 0 ELSE n - 1 - 0 + 1
  <2>1. 0 \in Int /\ n - 1 \in Int
    OBVIOUS
  <2> QED
    BY <2>1, FS_Interval
<1> QED
  BY <1>1, <1>2

(* There are finitely many cells, and Null is none.                        *)
LEMMA CellFacts ==
    /\ Null \notin Cell
    /\ IsFiniteSet(Cell)
    /\ Cardinality(Cell) \in Nat
    /\ Cardinality(Item) \in Nat
<1>1. IsFiniteSet(1..Cardinality(Item)) /\ Cardinality(Item) \in Nat
  BY NotificationsAssumption, FS_CardinalityType, FS_Interval
<1>2. IsFiniteSet(Cell)
  BY <1>1, NotificationsAssumption, FS_Product DEF Cell
<1> QED
  BY <1>1, <1>2, NotificationsAssumption, FS_CardinalityType

(* The k-th link leads to the cell behind the first k.                     *)
LEMMA AfterIs ==
    ASSUME NEW links \in Links, NEW q, NEW s \in Seq(Cell), IsQueue(q, links, s),
           NEW k \in Nat
    PROVE  After(links, q.first, k) = IF k < Len(s) THEN s[k + 1] ELSE Null
<1> DEFINE c == q.first
           link == [d \in Cell \cup {Null} |-> IF d = Null THEN Null ELSE links[d]]
           Rec(f) == f = [j \in 0..k |-> IF j = 0 THEN c ELSE link[f[j - 1]]]
           at == CHOOSE f : Rec(f)
           g == [j \in 0..k |-> IF j < Len(s) THEN s[j + 1] ELSE Null]
<1>0. After(links, q.first, k) = at[k]
  BY DEF After
<1>1. \A j \in 1..Len(s) : s[j] \in Cell /\ s[j] # Null /\ links[s[j]] = IF j = Len(s) THEN Null ELSE s[j + 1]
  BY CellFacts DEF IsQueue
<1>2. \A j \in 1..Len(s) : link[s[j]] = IF j = Len(s) THEN Null ELSE s[j + 1]
  BY <1>1
<1>3. link[Null] = Null
  OBVIOUS
<1>4. c = IF Len(s) = 0 THEN Null ELSE s[1]
  BY DEF IsQueue
<1>5. Len(s) \in Nat
  OBVIOUS
<1> HIDE DEF link, c
<1>6. ASSUME NEW j \in 0..k PROVE g[j] = IF j = 0 THEN c ELSE link[g[j - 1]]
  <2>1. CASE j = 0
    BY <1>4, <1>5, <2>1
  <2>2. CASE j # 0
    <3>1. j - 1 \in 0..k /\ g[j - 1] = IF j - 1 < Len(s) THEN s[j] ELSE Null
      BY <2>2
    <3>2. CASE j <= Len(s)
      <4>1. j \in 1..Len(s) /\ g[j - 1] = s[j]
        BY <2>2, <3>1, <3>2, <1>5
      <4> QED
        BY <4>1, <1>2, <1>5, <2>2
    <3>3. CASE ~ (j <= Len(s))
      <4>1. g[j - 1] = Null /\ g[j] = Null
        BY <2>2, <3>1, <3>3, <1>5
      <4> QED
        BY <4>1, <1>3, <2>2
    <3> QED
      BY <3>2, <3>3
  <2> QED
    BY <2>1, <2>2
<1>7. Rec(g)
  <2> HIDE DEF g
  <2>1. g = [j \in 0..k |-> g[j]]
    BY DEF g
  <2> QED
    BY <1>6, <2>1
<1>8. Rec(at)
  <2> HIDE DEF Rec, g
  <2> QED
    BY <1>7
<1>9. \A j \in 0..k : at[j] = g[j]
  <2> DEFINE T == {j \in 0..k : at[j] = g[j]}
  <2> HIDE DEF at, g
  <2>1. 0 \in T
    BY <1>6, <1>8
  <2>2. ASSUME NEW j \in 1..k, j - 1 \in T PROVE j \in T
    <3>1. j \in 0..k /\ j # 0 /\ at[j - 1] = g[j - 1]
      BY <2>2
    <3>2. at[j] = link[at[j - 1]]
      BY <1>8, <3>1
    <3>3. g[j] = link[g[j - 1]]
      BY <1>6, <3>1
    <3> QED
      BY <3>1, <3>2, <3>3
  <2>3. \A j \in 0..k : j \in T
    <3> HIDE DEF T
    <3> QED
      BY <2>1, <2>2, UpTo
  <2> QED
    BY <2>3
<1> HIDE DEF at
<1>10. k \in 0..k /\ g[k] = IF k < Len(s) THEN s[k + 1] ELSE Null
  OBVIOUS
<1> QED
  BY <1>0, <1>9, <1>10

(* No queue is longer than there are cells.                                *)
LEMMA QueueLength ==
    ASSUME NEW s \in Seq(Cell), IsInjective(s)
    PROVE  /\ Len(s) <= Cardinality(Cell)
           /\ IsFiniteSet(ToSet(s)) /\ Cardinality(ToSet(s)) = Len(s)
           /\ ToSet(s) \subseteq Cell
<1>1. s \in [1..Len(s) -> Cell] /\ DOMAIN s = 1..Len(s) /\ Len(s) \in Nat
  OBVIOUS
<1>2. s \in Injection(1..Len(s), Cell)
  BY <1>1 DEF Injection, IsInjective
<1>3. Cardinality(1..Len(s)) = Len(s) /\ IsFiniteSet(1..Len(s))
  BY <1>1, Interval
<1>4. Len(s) <= Cardinality(Cell)
  BY <1>2, <1>3, CellFacts, FS_Injection
<1>5. ToSet(s) \subseteq Cell
  BY <1>1 DEF ToSet
<1>6. s \in Surjection(1..Len(s), ToSet(s)) /\ s \in Injection(1..Len(s), ToSet(s))
  BY <1>1 DEF Surjection, Injection, IsInjective, ToSet
<1>7. IsFiniteSet(ToSet(s)) /\ Cardinality(ToSet(s)) = Len(s)
  BY <1>3, <1>6, FS_Surjection
<1> QED
  BY <1>4, <1>5, <1>7

(* Cells are followed in the order of the queue.                           *)
LEMMA FollowingIs ==
    ASSUME NEW links \in Links, NEW q, NEW s \in Seq(Cell), IsQueue(q, links, s),
           NEW n \in Nat
    PROVE  Following(links, q.first, n) = SubSeq(s, 1, IF n < Len(s) THEN n ELSE Len(s))
<1> DEFINE m == IF n < Len(s) THEN n ELSE Len(s)
           K == {k \in 0..n - 1 : After(links, q.first, k) # Null}
<1>1. \A k \in Nat : After(links, q.first, k) = IF k < Len(s) THEN s[k + 1] ELSE Null
  BY AfterIs
<1>2. \A k \in 1..Len(s) : s[k] # Null
  BY CellFacts
<1>3. Len(s) \in Nat /\ m \in Nat /\ m <= Len(s)
  OBVIOUS
<1>4. K = 0..m - 1
  <2>1. ASSUME NEW k \in 0..n - 1 PROVE After(links, q.first, k) # Null <=> k < Len(s)
    <3>1. k \in Nat
      OBVIOUS
    <3>2. CASE k < Len(s)
      <4>1. k + 1 \in 1..Len(s)
        BY <3>1, <3>2, <1>3
      <4> QED
        BY <1>1, <1>2, <3>1, <3>2, <4>1
    <3> QED
      BY <1>1, <3>1, <3>2
  <2> QED
    BY <2>1, <1>3
<1>5. Cardinality(K) = m
  <2> HIDE DEF m
  <2>1. Cardinality(0..m - 1) = m
    BY <1>3, Interval
  <2> QED
    BY <1>3, <1>4, <2>1
<1>6. Following(links, q.first, n) = [k \in 1..m |-> After(links, q.first, k - 1)]
  <2> HIDE DEF m
  <2> QED
    BY <1>5 DEF Following
<1>7. \A k \in 1..m : After(links, q.first, k - 1) = s[k]
  BY <1>1, <1>3
<1>8. SubSeq(s, 1, m) = [k \in 1..m |-> s[k]]
  <2> HIDE DEF m
  <2> QED
    BY <1>3
<1> QED
  BY <1>6, <1>7, <1>8

(* Following the links of a queue yields its cells.                        *)
LEMMA ChainIs ==
    ASSUME NEW links \in Links, NEW q, NEW s \in Seq(Cell), IsQueue(q, links, s)
    PROVE  Chain(links, q.first) = s
<1>1. Len(s) <= Cardinality(Cell) /\ Cardinality(Cell) \in Nat /\ Len(s) \in Nat
  BY QueueLength, CellFacts DEF IsQueue
<1>2. Chain(links, q.first) = SubSeq(s, 1, Len(s))
  BY <1>1, FollowingIs DEF Chain
<1>3. SubSeq(s, 1, Len(s)) = s
  OBVIOUS
<1> QED
  BY <1>2, <1>3

-----------------------------------------------------------------------------
(* Queues that share nothing.                                              *)

Ends == [first : Cell \cup {Null}, last : Cell \cup {Null}]

(* The queues Q consist of the sequences of cells in ch.                   *)
Apart(Q, links, ch) ==
    /\ ch \in [Holder -> Seq(Cell)]
    /\ \A x \in Holder : Q[x] \in Ends
    /\ \A x \in Holder : IsQueue(Q[x], links, ch[x])
    /\ \A x \in Holder, y \in Holder : x # y => ToSet(ch[x]) \cap ToSet(ch[y]) = {}

AllOf(ch) == UNION {ToSet(ch[x]) : x \in Holder}

(* What is in a sequence.                                                  *)
LEMMA InSequence ==
    ASSUME NEW S, NEW s \in Seq(S)
    PROVE  /\ ToSet(s) \subseteq S
           /\ \A k \in 1..Len(s) : s[k] \in S /\ s[k] \in ToSet(s)
           /\ \A c \in ToSet(s) : \E k \in 1..Len(s) : c = s[k]
           /\ ToSet(s) = {} <=> s = <<>>
<1>1. DOMAIN s = 1..Len(s) /\ Len(s) \in Nat /\ \A k \in 1..Len(s) : s[k] \in S
  OBVIOUS
<1>2. s = <<>> <=> ~ \E k \in 1..Len(s) : TRUE
  <2>1. s = <<>> <=> Len(s) = 0
    OBVIOUS
  <2>2. Len(s) # 0 => 1 \in 1..Len(s)
    BY <1>1
  <2> QED
    BY <1>1, <2>1, <2>2
<1>3. ToSet(s) = {s[k] : k \in 1..Len(s)}
  BY <1>1 DEF ToSet
<1> QED
  BY <1>1, <1>2, <1>3

(* The cells of a queue are cells of all of them.                          *)
LEMMA InAllOf ==
    ASSUME NEW ch \in [Holder -> Seq(Cell)]
    PROVE  /\ AllOf(ch) \subseteq Cell
           /\ \A x \in Holder : ToSet(ch[x]) \subseteq AllOf(ch)
<1>1. \A x \in Holder : ToSet(ch[x]) \subseteq Cell
  BY InSequence
<1> QED
  BY <1>1 DEF AllOf

(* What is in two sequences that were joined.                              *)
LEMMA InConcatenation ==
    ASSUME NEW S, NEW s \in Seq(S), NEW t \in Seq(S)
    PROVE  /\ s \o t \in Seq(S) /\ Len(s \o t) = Len(s) + Len(t)
           /\ \A k \in 1..Len(s) : (s \o t)[k] = s[k]
           /\ \A k \in 1..Len(t) : (s \o t)[Len(s) + k] = t[k]
           /\ ToSet(s \o t) = ToSet(s) \cup ToSet(t)
<1>1. Len(s) \in Nat /\ Len(t) \in Nat /\ s \o t \in Seq(S) /\ Len(s \o t) = Len(s) + Len(t)
  OBVIOUS
<1>2. \A k \in 1..Len(s) : (s \o t)[k] = s[k]
  OBVIOUS
<1>3. \A k \in 1..Len(t) : (s \o t)[Len(s) + k] = t[k]
  OBVIOUS
<1>4. ToSet(s \o t) \subseteq ToSet(s) \cup ToSet(t)
  <2>1. ASSUME NEW c \in ToSet(s \o t) PROVE c \in ToSet(s) \cup ToSet(t)
    <3>1. PICK k \in 1..Len(s \o t) : c = (s \o t)[k]
      BY <1>1, InSequence
    <3>2. CASE k <= Len(s)
      <4>1. k \in 1..Len(s)
        BY <1>1, <3>2
      <4> QED
        BY <1>2, <3>1, <4>1, InSequence
    <3>3. CASE ~ (k <= Len(s))
      <4>1. k - Len(s) \in 1..Len(t) /\ Len(s) + (k - Len(s)) = k
        BY <1>1, <3>3
      <4>2. (s \o t)[k] = t[k - Len(s)]
        BY <1>3, <4>1
      <4> QED
        BY <3>1, <4>1, <4>2, InSequence
    <3> QED
      BY <3>2, <3>3
  <2> QED
    BY <2>1
<1>5. ToSet(s) \subseteq ToSet(s \o t)
  <2>1. ASSUME NEW c \in ToSet(s) PROVE c \in ToSet(s \o t)
    <3>1. PICK k \in 1..Len(s) : c = s[k]
      BY InSequence
    <3>2. k \in 1..Len(s \o t) /\ c = (s \o t)[k]
      BY <1>1, <1>2, <3>1
    <3> QED
      BY <1>1, <3>2, InSequence
  <2> QED
    BY <2>1
<1>6. ToSet(t) \subseteq ToSet(s \o t)
  <2>1. ASSUME NEW c \in ToSet(t) PROVE c \in ToSet(s \o t)
    <3>1. PICK k \in 1..Len(t) : c = t[k]
      BY InSequence
    <3>2. Len(s) + k \in 1..Len(s \o t) /\ c = (s \o t)[Len(s) + k]
      BY <1>1, <1>3, <3>1
    <3> QED
      BY <1>1, <3>2, InSequence
  <2> QED
    BY <2>1
<1> QED
  BY <1>1, <1>2, <1>3, <1>4, <1>5, <1>6

(* Links of other cells do not matter.                                     *)
LEMMA ApartFrame ==
    ASSUME NEW Q, NEW P, NEW links, NEW others, NEW ch, Apart(Q, links, ch),
           \A x \in Holder : P[x] = Q[x],
           \A c \in AllOf(ch) : others[c] = links[c]
    PROVE  Apart(P, others, ch)
<1>1. ASSUME NEW x \in Holder PROVE IsQueue(P[x], others, ch[x])
  <2>1. \A k \in 1..Len(ch[x]) : ch[x][k] \in AllOf(ch)
    BY InSequence, InAllOf DEF Apart
  <2> QED
    BY <2>1 DEF Apart, IsQueue
<1> QED
  BY <1>1 DEF Apart

(* The queue of x, which is u before t, becomes t.                         *)
Shortened(Q, P, ch, new, x, u, t) ==
    /\ x \in Holder /\ u \in Seq(Cell) /\ t \in Seq(Cell)
    /\ ch[x] = u \o t
    /\ \A y \in Holder \ {x} : P[y] = Q[y]
    /\ P[x] = [first |-> IF t = <<>> THEN Null ELSE t[1],
                last |-> IF t = <<>> THEN Null ELSE Q[x].last]
    /\ new = [ch EXCEPT ![x] = t]

(* Queues stay apart when the front of one is given up.                    *)
LEMMA ApartShortened ==
    ASSUME NEW Q, NEW links, NEW ch, Apart(Q, links, ch),
           NEW P, NEW new, NEW x, NEW u, NEW t, Shortened(Q, P, ch, new, x, u, t)
    PROVE  /\ Apart(P, links, new)
           /\ AllOf(new) = AllOf(ch) \ ToSet(u)
           /\ IsInjective(u)
           /\ ToSet(u) \subseteq AllOf(ch)
<1> DEFINE s == ch[x]
           len == Len(s)
           n == Len(u)
<1>s. /\ x \in Holder /\ u \in Seq(Cell) /\ t \in Seq(Cell)
      /\ s = u \o t
      /\ \A y \in Holder \ {x} : P[y] = Q[y]
      /\ P[x].first = IF t = <<>> THEN Null ELSE t[1]
      /\ P[x].last = IF t = <<>> THEN Null ELSE Q[x].last
      /\ P[x] \in [first : {P[x].first}, last : {P[x].last}]
      /\ new = [ch EXCEPT ![x] = t]
  BY DEF Shortened
<1>a. new = [ch EXCEPT ![x] = t] /\ x \in Holder
  BY <1>s
<1>b. /\ s \in Seq(Cell) /\ len = n + Len(t) /\ n \in Nat /\ Len(t) \in Nat
      /\ \A k \in 1..n : s[k] = u[k]
      /\ \A k \in 1..Len(t) : s[n + k] = t[k]
  BY <1>s, InConcatenation
<1>1. s \in Seq(Cell) /\ len \in Nat /\ n \in Nat /\ n <= len /\ ch \in [Holder -> Seq(Cell)]
  BY <1>b DEF Apart
<1>2. t \in Seq(Cell) /\ Len(t) = len - n /\ \A k \in 1..len - n : t[k] = s[n + k]
  <2> HIDE DEF len, n, s
  <2>1. Len(t) = len - n /\ 1..Len(t) = 1..len - n
    BY <1>b, <1>1
  <2> QED
    BY <1>b, <1>s, <2>1
<1>3. u \in Seq(Cell) /\ Len(u) = n /\ \A k \in 1..n : u[k] = s[k]
  BY <1>b, <1>s
<1>0. s = <<>> <=> len = 0
  BY <1>1
<1>4. IsQueue(Q[x], links, s) /\ \A j, k \in 1..len : s[j] = s[k] => j = k
  BY <1>1, <1>a DEF Apart, IsQueue, IsInjective
<1> HIDE DEF s, len, n
<1>5. IsInjective(u)
  <2>1. DOMAIN u = 1..n
    BY <1>3
  <2>2. ASSUME NEW j \in 1..n, NEW k \in 1..n, u[j] = u[k] PROVE j = k
    <3>1. j \in 1..len /\ k \in 1..len /\ s[j] = s[k]
      BY <1>1, <1>3, <2>2
    <3> QED
      BY <1>4, <3>1
  <2> QED
    BY <2>1, <2>2 DEF IsInjective
<1>6. IsInjective(t)
  <2>1. DOMAIN t = 1..len - n
    BY <1>2
  <2>2. ASSUME NEW j \in 1..len - n, NEW k \in 1..len - n, t[j] = t[k] PROVE j = k
    <3>1. n + j \in 1..len /\ n + k \in 1..len /\ s[n + j] = s[n + k]
      BY <1>1, <1>2, <2>2
    <3>2. n + j = n + k
      BY <1>4, <3>1
    <3> QED
      BY <1>1, <3>2
  <2> QED
    BY <2>1, <2>2 DEF IsInjective
<1>7. ToSet(t) = ToSet(s) \ ToSet(u)
  <2>1. ASSUME NEW c \in ToSet(t) PROVE c \in ToSet(s) /\ c \notin ToSet(u)
    <3>1. PICK k \in 1..len - n : c = t[k]
      BY <1>2, InSequence
    <3>2. n + k \in 1..len /\ c = s[n + k]
      BY <1>1, <1>2, <3>1
    <3>3. c \in ToSet(s)
      BY <1>1, <3>2, InSequence DEF len
    <3>4. ASSUME c \in ToSet(u) PROVE FALSE
      <4>1. PICK j \in 1..n : c = u[j]
        BY <1>3, <3>4, InSequence
      <4>2. j \in 1..len /\ s[j] = s[n + k]
        <5>1. j \in 1..len
          BY <1>1
        <5>2. u[j] = s[j]
          BY <1>3
        <5> QED
          BY <3>2, <4>1, <5>1, <5>2
      <4>3. j = n + k
        BY <1>4, <3>2, <4>2
      <4> QED
        BY <1>1, <4>1, <4>3, <3>1
    <3> QED
      BY <3>3, <3>4
  <2>2. ASSUME NEW c \in ToSet(s), c \notin ToSet(u) PROVE c \in ToSet(t)
    <3>1. PICK k \in 1..len : c = s[k]
      BY <1>1, InSequence DEF len
    <3>2. ~ (k <= n)
      <4>1. ASSUME k <= n PROVE FALSE
        <5>1. k \in 1..n /\ u[k] = c
          BY <1>3, <3>1, <4>1
        <5> QED
          BY <1>3, <2>2, <5>1, InSequence
      <4> QED
        BY <4>1
    <3>3. k - n \in 1..len - n /\ n + (k - n) = k
      BY <1>1, <3>1, <3>2
    <3>4. t[k - n] = c
      BY <1>2, <3>1, <3>3
    <3> QED
      BY <1>2, <3>3, <3>4, InSequence
  <2> QED
    BY <2>1, <2>2
<1>8. ToSet(u) \subseteq ToSet(s)
  <2>1. ASSUME NEW c \in ToSet(u) PROVE c \in ToSet(s)
    <3>1. PICK j \in 1..n : c = u[j]
      BY <1>3, InSequence
    <3>2. j \in 1..len /\ s[j] = c
      BY <1>1, <1>3, <3>1
    <3> QED
      BY <1>1, <3>2, InSequence DEF len
  <2> QED
    BY <2>1
<1>9. new \in [Holder -> Seq(Cell)] /\ new[x] = t /\ \A y \in Holder \ {x} : new[y] = ch[y]
  BY <1>a, <1>1, <1>2
<1>10. IsQueue(P[x], links, t)
  <2>1. ASSUME NEW k \in 1..Len(t) PROVE links[t[k]] = IF k = Len(t) THEN Null ELSE t[k + 1]
    <3>1. n + k \in 1..len /\ t[k] = s[n + k] /\ (k = Len(t) <=> n + k = len)
      BY <1>1, <1>2
    <3>2. links[s[n + k]] = IF n + k = len THEN Null ELSE s[n + k + 1]
      BY <1>4, <3>1 DEF IsQueue, len
    <3>3. k # Len(t) => t[k + 1] = s[n + k + 1]
      <4>1. k # Len(t) => k + 1 \in 1..len - n /\ n + (k + 1) = n + k + 1
        BY <1>1, <1>2
      <4> QED
        BY <1>2, <4>1
    <3> QED
      BY <3>1, <3>2, <3>3
  <2>2. t = <<>> <=> n = len
    BY <1>1, <1>2
  <2>3. n # len => t[Len(t)] = s[len] /\ s # <<>>
    <3>1. n # len => len - n \in 1..len - n /\ n + (len - n) = len
      BY <1>1
    <3>3. n # len => t[len - n] = s[len]
      BY <1>2, <3>1
    <3>4. n # len => len # 0
      BY <1>1
    <3> QED
      BY <1>0, <1>2, <3>3, <3>4
  <2>6. s # <<>> => Q[x].last = s[len]
    BY <1>4 DEF IsQueue, len
  <2> QED
    BY <1>2, <1>6, <1>s, <2>1, <2>2, <2>3, <2>6 DEF IsQueue
<1>11. \A y \in Holder, z \in Holder : y # z => ToSet(new[y]) \cap ToSet(new[z]) = {}
  <2>1. \A y \in Holder, z \in Holder : y # z => ToSet(ch[y]) \cap ToSet(ch[z]) = {}
    BY DEF Apart
  <2>2. \A y \in Holder : ToSet(new[y]) \subseteq ToSet(ch[y])
    BY <1>7, <1>9 DEF s
  <2> QED
    BY <2>1, <2>2
<1>12. \A y \in Holder : IsQueue(P[y], links, new[y])
  <2>1. ASSUME NEW y \in Holder PROVE IsQueue(P[y], links, new[y])
    <3>1. CASE y = x
      BY <1>9, <1>10, <3>1
    <3>2. CASE y # x
      BY <1>9, <1>s, <3>2 DEF Apart
    <3> QED
      BY <3>1, <3>2
  <2> QED
    BY <2>1
<1>13. AllOf(new) = AllOf(ch) \ ToSet(u)
  <2>1. \A y \in Holder \ {x} : ToSet(ch[y]) \cap ToSet(u) = {}
    BY <1>8, <1>a DEF Apart, s
  <2>2. \A y \in Holder : ToSet(new[y]) = ToSet(ch[y]) \ ToSet(u)
    BY <1>7, <1>9, <2>1 DEF s
  <2> QED
    BY <2>2 DEF AllOf
<1>14. ToSet(u) \subseteq AllOf(ch)
  BY <1>8, <1>a DEF AllOf, s
<1>15. Apart(P, links, new)
  <2>1. \A y \in Holder : Q[y] \in Ends
    BY DEF Apart
  <2>2. P[x] \in Ends
    <3>1. t # <<>> => t[1] \in Cell
      BY <1>s
    <3>2. Q[x].last \in Cell \cup {Null}
      BY <1>s, <2>1 DEF Ends
    <3> QED
      BY <1>s, <3>1, <3>2 DEF Ends
  <2>3. \A y \in Holder : P[y] \in Ends
    BY <1>s, <2>1, <2>2
  <2> QED
    BY <1>9, <1>11, <1>12, <2>3 DEF Apart
<1> QED
  BY <1>5, <1>13, <1>14, <1>15

(* Cells that are linked to one another are appended to the queue of x.    *)
IsAppended(Q, P, links, others, ch, new, x, t) ==
    /\ x \in Holder /\ t \in Seq(Cell) /\ t # <<>> /\ IsInjective(t)
    /\ \A k \in 1..Len(t) - 1 : links[t[k]] = t[k + 1]
    /\ ToSet(t) \cap AllOf(ch) = {}
    /\ \A y \in Holder \ {x} : P[y] = Q[y]
    /\ P[x] = Appended(Q[x], t[1], t[Len(t)])
    /\ others = Linked(links, Q[x], t[1], t[Len(t)])
    /\ new = [ch EXCEPT ![x] = ch[x] \o t]

(* Queues stay apart when new cells are linked behind one.                 *)
LEMMA ApartAppended ==
    ASSUME NEW Q, NEW links \in Links, NEW ch, Apart(Q, links, ch),
           NEW P, NEW others, NEW new, NEW x, NEW t,
           IsAppended(Q, P, links, others, ch, new, x, t)
    PROVE  others \in Links /\ Apart(P, others, new) /\ AllOf(new) = AllOf(ch) \cup ToSet(t)
<1> DEFINE s == ch[x]
           m == Len(s)
           n == Len(t)
           st == s \o t
<1>s. /\ x \in Holder /\ t \in Seq(Cell) /\ t # <<>> /\ IsInjective(t)
      /\ \A k \in 1..Len(t) - 1 : links[t[k]] = t[k + 1]
      /\ ToSet(t) \cap AllOf(ch) = {}
      /\ \A y \in Holder \ {x} : P[y] = Q[y]
      /\ P[x] = Appended(Q[x], t[1], t[Len(t)])
      /\ others = Linked(links, Q[x], t[1], t[Len(t)])
      /\ new = [ch EXCEPT ![x] = ch[x] \o t]
  BY DEF IsAppended
<1>a. new = [ch EXCEPT ![x] = st]
  BY <1>s
<1>b. others = Linked(links, Q[x], t[1], t[n])
  BY <1>s
<1>1. /\ s \in Seq(Cell) /\ m \in Nat /\ n \in Nat /\ n # 0
      /\ ch \in [Holder -> Seq(Cell)] /\ IsQueue(Q[x], links, s)
      /\ (s = <<>> <=> m = 0) /\ x \in Holder
  BY <1>s DEF Apart
<1>2. /\ st \in Seq(Cell) /\ Len(st) = m + n
      /\ \A k \in 1..m : st[k] = s[k]
      /\ \A k \in 1..n : st[m + k] = t[k]
      /\ ToSet(st) = ToSet(s) \cup ToSet(t)
  BY <1>1, <1>s, InConcatenation
<1>3. \A k \in 1..m : s[k] \in Cell /\ s[k] \in ToSet(s)
  BY <1>1, InSequence
<1>4. \A k \in 1..n : t[k] \in Cell /\ t[k] \in ToSet(t)
  BY <1>s, InSequence
<1>5. ToSet(s) \cap ToSet(t) = {}
  BY <1>s, InAllOf DEF Apart
<1>6. Q[x].last = IF m = 0 THEN Null ELSE s[m]
  BY <1>1 DEF IsQueue
<1>7. 1 \in 1..n /\ n \in 1..n
  BY <1>1
<1>8. \A c \in Cell : others[c] = IF c = t[n] THEN Null ELSE IF c = Q[x].last THEN t[1] ELSE links[c]
  <2>1. t[n] \in Cell
    BY <1>4, <1>7
  <2> HIDE DEF s, m, n
  <2> QED
    BY <1>b, <2>1 DEF Linked
<1>9. others \in Links
  <2>1. t[n] \in Cell /\ t[1] \in Cell
    BY <1>4, <1>7
  <2> HIDE DEF s, m, n
  <2> QED
    BY <1>b, <2>1 DEF Linked, Links
<1>10. \A j, k \in 1..m : s[j] = s[k] => j = k
  BY <1>1 DEF IsQueue, IsInjective
<1>11. \A j, k \in 1..n : t[j] = t[k] => j = k
  BY <1>s DEF IsInjective
<1>12. \A k \in 1..n - 1 : links[t[k]] = t[k + 1]
  BY <1>s
<1>13. \A k \in 1..m : links[s[k]] = IF k = m THEN Null ELSE s[k + 1]
  BY <1>1 DEF IsQueue
<1>14. P[x] = [first |-> IF Q[x].last = Null THEN t[1] ELSE Q[x].first, last |-> t[n]]
  BY <1>s DEF Appended
<1>15. m # 0 => Q[x].first = s[1]
  BY <1>1 DEF IsQueue
<1>16. t \in Seq(Cell)
  BY <1>s
<1> HIDE DEF s, m, n, st
<1>17. IsQueue(P[x], others, st)
  <2>1. P[x].last = st[m + n]
    BY <1>2, <1>7, <1>14
  <2>2. P[x].first = st[1]
    <3>1. CASE m = 0
      <4>1. st[1] = t[1]
        BY <1>2, <1>7, <3>1
      <4> QED
        BY <1>6, <1>14, <3>1, <4>1
    <3>2. CASE m # 0
      <4>1. 1 \in 1..m /\ m \in 1..m
        BY <1>1, <3>2
      <4>2. st[1] = s[1] /\ s[m] # Null
        BY <1>2, <1>3, <4>1, CellFacts
      <4> QED
        BY <1>6, <1>14, <1>15, <3>2, <4>2
    <3> QED
      BY <3>1, <3>2
  <2>3. ASSUME NEW k \in 1..m + n
        PROVE  others[st[k]] = IF k = m + n THEN Null ELSE st[k + 1]
    <3>1. CASE k \in 1..m
      <4>1. st[k] = s[k] /\ s[k] \in Cell /\ s[k] # t[n]
        BY <1>2, <1>3, <1>4, <1>5, <1>7, <3>1
      <4>2. CASE k = m
        <5>1. st[k + 1] = t[1] /\ s[k] = Q[x].last /\ k # m + n
          BY <1>1, <1>2, <1>6, <1>7, <3>1, <4>2
        <5> QED
          BY <1>8, <4>1, <5>1
      <4>3. CASE k # m
        <5>1. k + 1 \in 1..m /\ m \in 1..m /\ k # m + n /\ m # 0
          BY <1>1, <3>1, <4>3
        <5>2. st[k + 1] = s[k + 1]
          BY <1>2, <5>1
        <5>3. s[k] # Q[x].last
          BY <1>6, <1>10, <3>1, <4>3, <5>1
        <5>4. links[s[k]] = s[k + 1]
          BY <1>13, <3>1, <4>3
        <5> QED
          BY <1>8, <4>1, <5>1, <5>2, <5>3, <5>4
      <4> QED
        BY <4>2, <4>3
    <3>2. CASE k \notin 1..m
      <4>1. k - m \in 1..n /\ m + (k - m) = k
        BY <1>1, <3>2
      <4>2. st[k] = t[k - m] /\ t[k - m] \in Cell /\ t[k - m] \in ToSet(t)
        BY <1>2, <1>4, <4>1
      <4>3. CASE k = m + n
        <5>1. k - m = n
          BY <1>1, <4>3
        <5> QED
          BY <1>8, <4>2, <4>3, <5>1
      <4>4. CASE k # m + n
        <5>1. k - m \in 1..n - 1 /\ k - m + 1 \in 1..n /\ m + (k - m + 1) = k + 1 /\ k - m # n
          BY <1>1, <4>1, <4>4
        <5>2. st[k + 1] = t[k - m + 1]
          BY <1>2, <5>1
        <5>3. t[k - m] # t[n]
          BY <1>7, <1>11, <4>1, <5>1
        <5>4. t[k - m] # Q[x].last
          <6>1. CASE m = 0
            BY <1>6, <4>2, <6>1, CellFacts
          <6>2. CASE m # 0
            <7>1. m \in 1..m
              BY <1>1, <6>2
            <7> QED
              BY <1>3, <1>5, <1>6, <4>2, <6>2, <7>1
          <6> QED
            BY <6>1, <6>2
        <5>5. links[t[k - m]] = t[k - m + 1]
          BY <1>12, <5>1
        <5> QED
          BY <1>8, <4>2, <4>4, <5>2, <5>3, <5>4, <5>5
      <4> QED
        BY <4>3, <4>4
    <3> QED
      BY <3>1, <3>2
  <2>4. IsInjective(st)
    <3>1. DOMAIN st = 1..m + n
      BY <1>2
    <3>2. ASSUME NEW j \in 1..m + n, NEW k \in 1..m + n, st[j] = st[k], j \in 1..m PROVE j = k
      <4>1. CASE k \in 1..m
        BY <1>2, <1>10, <3>2, <4>1
      <4>2. CASE k \notin 1..m
        <5>1. k - m \in 1..n /\ m + (k - m) = k
          BY <1>1, <4>2
        <5> QED
          BY <1>2, <1>3, <1>4, <1>5, <3>2, <5>1
      <4> QED
        BY <4>1, <4>2
    <3>3. ASSUME NEW j \in 1..m + n, NEW k \in 1..m + n, st[j] = st[k],
                 j \notin 1..m, k \notin 1..m
          PROVE  j = k
      <4>1. j - m \in 1..n /\ m + (j - m) = j /\ k - m \in 1..n /\ m + (k - m) = k
        BY <1>1, <3>3
      <4>2. t[j - m] = t[k - m]
        BY <1>2, <3>3, <4>1
      <4>3. j - m = k - m
        BY <1>11, <4>1, <4>2
      <4> QED
        BY <1>1, <4>3
    <3> QED
      BY <3>1, <3>2, <3>3 DEF IsInjective
  <2>5. st # <<>>
    BY <1>1, <1>2
  <2> QED
    BY <1>2, <2>1, <2>2, <2>3, <2>4, <2>5 DEF IsQueue
<1>18. new \in [Holder -> Seq(Cell)] /\ new[x] = st /\ \A y \in Holder \ {x} : new[y] = ch[y]
  BY <1>a, <1>1, <1>2
<1>19. ASSUME NEW y \in Holder \ {x} PROVE IsQueue(P[y], others, new[y]) /\ ToSet(new[y]) \cap ToSet(st) = {}
  <2>1. /\ ToSet(ch[y]) \cap ToSet(s) = {} /\ ToSet(ch[y]) \cap ToSet(t) = {}
        /\ IsQueue(Q[y], links, ch[y]) /\ ch[y] \in Seq(Cell)
    BY <1>s, InAllOf DEF Apart, s
  <2>2. \A k \in 1..Len(ch[y]) : ch[y][k] \in Cell /\ ch[y][k] \in ToSet(ch[y])
    BY <2>1, InSequence
  <2>3. \A k \in 1..Len(ch[y]) : others[ch[y][k]] = links[ch[y][k]]
    <3>1. t[n] \in ToSet(t)
      BY <1>4, <1>7
    <3>2. m # 0 => s[m] \in ToSet(s)
      BY <1>1, <1>3
    <3> QED
      BY <1>6, <1>8, <2>1, <2>2, <3>1, <3>2, CellFacts
  <2>4. P[y] = Q[y] /\ new[y] = ch[y]
    BY <1>18, <1>s
  <2>5. IsQueue(P[y], others, ch[y])
    BY <2>1, <2>3, <2>4 DEF IsQueue
  <2> QED
    BY <1>2, <2>1, <2>4, <2>5
<1>20. Apart(P, others, new)
  <2>1. \A y \in Holder : IsQueue(P[y], others, new[y])
    BY <1>17, <1>18, <1>19
  <2>2. \A y \in Holder, z \in Holder : y # z => ToSet(new[y]) \cap ToSet(new[z]) = {}
    <3>1. \A y \in Holder, z \in Holder : y # z => ToSet(ch[y]) \cap ToSet(ch[z]) = {}
      BY DEF Apart
    <3> QED
      BY <1>18, <1>19, <3>1
  <2>3. P[x] \in Ends
    <3>1. Q[x] \in Ends /\ t[1] \in Cell /\ t[n] \in Cell
      BY <1>1, <1>4, <1>7 DEF Apart
    <3> QED
      BY <1>14, <3>1 DEF Ends
  <2>4. \A y \in Holder : P[y] \in Ends
    BY <1>s, <2>3 DEF Apart
  <2> QED
    BY <1>18, <2>1, <2>2, <2>4 DEF Apart
<1>21. AllOf(new) = AllOf(ch) \cup ToSet(t)
  <2>1. x \in Holder
    BY <1>s
  <2>2. \A c : c \in AllOf(ch) <=> \E y \in Holder : c \in ToSet(ch[y])
    BY DEF AllOf
  <2>3. \A c : c \in AllOf(new) <=> \E y \in Holder : c \in ToSet(new[y])
    BY DEF AllOf
  <2>4. ASSUME NEW c PROVE c \in AllOf(new) <=> c \in AllOf(ch) \/ c \in ToSet(t)
    <3>1. \A y \in Holder : c \in ToSet(new[y]) <=> c \in ToSet(ch[y]) \/ (y = x /\ c \in ToSet(t))
      <4>1. ASSUME NEW y \in Holder, y # x PROVE c \in ToSet(new[y]) <=> c \in ToSet(ch[y])
        <5>1. new[y] = ch[y]
          BY <1>18, <4>1
        <5> QED
          BY <5>1
      <4>2. c \in ToSet(new[x]) <=> c \in ToSet(ch[x]) \/ c \in ToSet(t)
        <5>1. ToSet(new[x]) = ToSet(ch[x]) \cup ToSet(t)
          BY <1>2, <1>18, <2>1 DEF s
        <5> QED
          BY <5>1
      <4> QED
        BY <4>1, <4>2
    <3> QED
      BY <2>1, <2>2, <2>3, <3>1, Zenon
  <2> QED
    BY <2>4
<1> QED
  BY <1>9, <1>20, <1>21

-----------------------------------------------------------------------------
(* What cells bring to a publish item.                                     *)

Note == [item : Item \cup {Null}, value : Block]

(* g[k] is what the first k notes of m bring to i.                         *)
IsShare(m, i, g) ==
    /\ g[0] = <<>>
    /\ \A k \in 1..Len(m) :
         g[k] = IF m[k].item = i THEN Append(g[k - 1], m[k].value) ELSE g[k - 1]

(* The share of an item can be taken step by step.                         *)
LEMMA ShareIs ==
    ASSUME NEW m \in Seq(Note), NEW i
    PROVE  \E g \in [0..Len(m) -> Seq(Block)] : IsShare(m, i, g) /\ Share(m, i) = g[Len(m)]
<1> DEFINE n == Len(m)
           S == Seq(Block)
           Rec(f) == f = [k \in 0..n |->
             IF k = 0 THEN <<>>
             ELSE IF m[k].item = i THEN Append(f[k - 1], m[k].value) ELSE f[k - 1]]
           step == [k \in 1..n |-> [o \in S |-> IF m[k].item = i THEN Append(o, m[k].value) ELSE o]]
           f == CHOOSE f : Rec(f)
<1>0. Share(m, i) = f[n]
  BY DEF Share
<1>1. n \in Nat /\ \A k \in 1..n : m[k].value \in Block
  <2>1. \A k \in 1..n : m[k] \in Note
    OBVIOUS
  <2> QED
    BY <2>1 DEF Note
<1>2. \A k \in 1..n : \A o \in S : (IF m[k].item = i THEN Append(o, m[k].value) ELSE o) \in S
  BY <1>1
<1>3. <<>> \in S
  OBVIOUS
<1> HIDE DEF S, n
<1>4. step \in [1..n -> [S -> S]]
  BY <1>2
<1>5. PICK g \in [0..n -> S] : Runs(g, n, <<>>, step)
  <2> HIDE DEF step
  <2> QED
    BY <1>1, <1>3, <1>4, Recursion
<1>6. Rec(g)
  <2>1. ASSUME NEW k \in 1..n
        PROVE  g[k] = IF m[k].item = i THEN Append(g[k - 1], m[k].value) ELSE g[k - 1]
    <3>1. k - 1 \in 0..n
      BY <1>1
    <3>2. g[k - 1] \in S
      BY <3>1
    <3>3. g[k] = step[k][g[k - 1]]
      BY <1>5 DEF Runs
    <3> QED
      BY <3>2, <3>3
  <2>2. g[0] = <<>>
    BY <1>5 DEF Runs
  <2> HIDE DEF step
  <2>3. ASSUME NEW k \in 0..n
        PROVE  g[k] = IF k = 0 THEN <<>>
                      ELSE IF m[k].item = i THEN Append(g[k - 1], m[k].value) ELSE g[k - 1]
    <3>1. k = 0 \/ k \in 1..n
      BY <1>1
    <3> QED
      BY <2>1, <2>2, <3>1
  <2>4. g = [k \in 0..n |-> g[k]]
    OBVIOUS
  <2> QED
    BY <2>3, <2>4
<1>7. Rec(f)
  <2> HIDE DEF Rec
  <2> QED
    BY <1>6
<1> HIDE DEF f
<1>8. IsShare(m, i, f)
  <2>1. f[0] = <<>>
    BY <1>1, <1>7
  <2>2. ASSUME NEW k \in 1..n
        PROVE  f[k] = IF m[k].item = i THEN Append(f[k - 1], m[k].value) ELSE f[k - 1]
    <3>1. k \in 0..n /\ k # 0
      BY <1>1
    <3> QED
      BY <1>7, <3>1
  <2> QED
    BY <2>1, <2>2 DEF IsShare, n
<1>9. f \in [0..n -> S]
  <2> DEFINE T == {k \in 0..n : f[k] \in S}
  <2>1. 0 \in T
    BY <1>1, <1>3, <1>7
  <2>2. ASSUME NEW k \in 1..n, k - 1 \in T PROVE k \in T
    <3>1. k \in 0..n /\ k # 0 /\ f[k - 1] \in S
      BY <1>1, <2>2
    <3>2. f[k] = IF m[k].item = i THEN Append(f[k - 1], m[k].value) ELSE f[k - 1]
      BY <1>7, <3>1
    <3> QED
      BY <1>2, <3>1, <3>2
  <2>3. \A k \in 0..n : k \in T
    <3> HIDE DEF T
    <3> QED
      BY <1>1, <2>1, <2>2, UpTo
  <2>4. \A k \in 0..n : f[k] \in S
    BY <2>3
  <2> QED
    BY <1>7, <2>4
<1> QED
  BY <1>0, <1>8, <1>9 DEF n, S

(* There is one share only.                                                *)
LEMMA ShareUnique ==
    ASSUME NEW m \in Seq(Note), NEW i, NEW g, IsShare(m, i, g)
    PROVE  Share(m, i) = g[Len(m)]
<1>1. PICK f \in [0..Len(m) -> Seq(Block)] : IsShare(m, i, f) /\ Share(m, i) = f[Len(m)]
  BY ShareIs
<1>2. Len(m) \in Nat
  OBVIOUS
<1> DEFINE T == {k \in 0..Len(m) : f[k] = g[k]}
<1>3. 0 \in T
  BY <1>1, <1>2 DEF IsShare
<1>4. ASSUME NEW k \in 1..Len(m), k - 1 \in T PROVE k \in T
  BY <1>1, <1>4 DEF IsShare
<1>5. \A k \in 0..Len(m) : k \in T
  <2> HIDE DEF T
  <2> QED
    BY <1>2, <1>3, <1>4, UpTo
<1>6. f[Len(m)] = g[Len(m)]
  BY <1>2, <1>5
<1> QED
  BY <1>1, <1>6

Ids == [Cell -> Item \cup {Null}]

(* What the notes for the cells bring to i.                                *)
Brought(ids, cells, i) == Share(Notes(ids, cells), i)

(* There is a note for every cell.                                         *)
LEMMA NotesFacts ==
    ASSUME NEW ids \in Ids, NEW cells \in Seq(Cell)
    PROVE  /\ Notes(ids, cells) \in Seq(Note)
           /\ Len(Notes(ids, cells)) = Len(cells)
           /\ \A k \in 1..Len(cells) : /\ Notes(ids, cells)[k].item = ids[cells[k]]
                                      /\ Notes(ids, cells)[k].value = cells[k][1]
<1> DEFINE n == Len(cells)
           note(k) == [item |-> ids[cells[k]], value |-> cells[k][1]]
           m == [k \in 1..n |-> note(k)]
<1>1. n \in Nat /\ DOMAIN cells = 1..n /\ \A k \in 1..n : cells[k] \in Cell
  OBVIOUS
<1>2. Notes(ids, cells) = m
  BY <1>1 DEF Notes
<1>3. ASSUME NEW k \in 1..n PROVE note(k) \in Note
  <2>1. cells[k] \in Cell
    BY <1>1
  <2>2. cells[k][1] \in Block /\ ids[cells[k]] \in Item \cup {Null}
    BY <2>1 DEF Cell, Ids
  <2> QED
    BY <2>2 DEF Note
<1> HIDE DEF n
<1>4. m \in [1..n -> Note] /\ \A k \in 1..n : m[k] = note(k)
  <2> HIDE DEF note
  <2> QED
    BY <1>3
<1>5. \A k \in 1..n : note(k).item = ids[cells[k]] /\ note(k).value = cells[k][1]
  OBVIOUS
<1> HIDE DEF m, note
<1>6. m \in Seq(Note) /\ Len(m) = n
  BY <1>1, <1>4
<1> QED
  BY <1>2, <1>4, <1>5, <1>6 DEF n

(* The share of cells, taken step by step.                                 *)
IsBrought(ids, cells, i, g) ==
    /\ g[0] = <<>>
    /\ \A k \in 1..Len(cells) :
         g[k] = IF ids[cells[k]] = i THEN Append(g[k - 1], cells[k][1]) ELSE g[k - 1]

(* It is a sequence of blocks.                                             *)
LEMMA BroughtIs ==
    ASSUME NEW ids \in Ids, NEW cells \in Seq(Cell), NEW i
    PROVE  /\ Brought(ids, cells, i) \in Seq(Block)
           /\ \E g \in [0..Len(cells) -> Seq(Block)] :
                IsBrought(ids, cells, i, g) /\ Brought(ids, cells, i) = g[Len(cells)]
<1>1. /\ Notes(ids, cells) \in Seq(Note)
      /\ Len(Notes(ids, cells)) = Len(cells)
      /\ \A k \in 1..Len(cells) : /\ Notes(ids, cells)[k].item = ids[cells[k]]
                                 /\ Notes(ids, cells)[k].value = cells[k][1]
  BY NotesFacts
<1> DEFINE m == Notes(ids, cells)
<1> HIDE DEF m
<1>2. PICK g \in [0..Len(m) -> Seq(Block)] : IsShare(m, i, g) /\ Share(m, i) = g[Len(m)]
  BY <1>1, ShareIs DEF m
<1>3. IsBrought(ids, cells, i, g)
  BY <1>1, <1>2 DEF IsShare, IsBrought, m
<1>4. Brought(ids, cells, i) = g[Len(cells)] /\ g \in [0..Len(cells) -> Seq(Block)]
  BY <1>1, <1>2 DEF Brought, m
<1>5. g[Len(cells)] \in Seq(Block)
  <2>1. Len(cells) \in 0..Len(cells)
    OBVIOUS
  <2> QED
    BY <1>4, <2>1
<1> QED
  BY <1>3, <1>4, <1>5

(* Whatever takes the steps yields it.                                     *)
LEMMA BroughtUnique ==
    ASSUME NEW ids \in Ids, NEW cells \in Seq(Cell), NEW i, NEW g, IsBrought(ids, cells, i, g)
    PROVE  Brought(ids, cells, i) = g[Len(cells)]
<1>1. /\ Notes(ids, cells) \in Seq(Note)
      /\ Len(Notes(ids, cells)) = Len(cells)
      /\ \A k \in 1..Len(cells) : /\ Notes(ids, cells)[k].item = ids[cells[k]]
                                 /\ Notes(ids, cells)[k].value = cells[k][1]
  BY NotesFacts
<1>2. IsShare(Notes(ids, cells), i, g)
  BY <1>1 DEF IsShare, IsBrought
<1> QED
  BY <1>1, <1>2, ShareUnique DEF Brought

(* Cells that are for other items bring nothing.                           *)
LEMMA BroughtNone ==
    ASSUME NEW ids \in Ids, NEW cells \in Seq(Cell), NEW i,
           \A c \in ToSet(cells) : ids[c] # i
    PROVE  Brought(ids, cells, i) = <<>>
<1> DEFINE g == [k \in 0..Len(cells) |-> <<>>]
<1>1. \A k \in 1..Len(cells) : ids[cells[k]] # i
  BY InSequence
<1>2. IsBrought(ids, cells, i, g)
  BY <1>1 DEF IsBrought
<1>3. g[Len(cells)] = <<>>
  OBVIOUS
<1> HIDE DEF g
<1> QED
  BY <1>2, <1>3, BroughtUnique

(* One cell brings its block.                                              *)
LEMMA BroughtOne ==
    ASSUME NEW ids \in Ids, NEW c \in Cell, NEW i
    PROVE  Brought(ids, <<c>>, i) = IF ids[c] = i THEN <<c[1]>> ELSE <<>>
<1> DEFINE one == IF ids[c] = i THEN <<c[1]>> ELSE <<>>
           g == [k \in 0..1 |-> IF k = 0 THEN <<>> ELSE one]
           s == <<c>>
<1>1. s \in Seq(Cell) /\ Len(s) = 1 /\ s[1] = c
  OBVIOUS
<1>2. Append(<<>>, c[1]) = <<c[1]>>
  OBVIOUS
<1>3. g[0] = <<>> /\ g[1] = one
  OBVIOUS
<1> HIDE DEF g, s
<1>4. IsBrought(ids, s, i, g)
  <2>1. ASSUME NEW k \in 1..Len(s)
        PROVE  g[k] = IF ids[s[k]] = i THEN Append(g[k - 1], s[k][1]) ELSE g[k - 1]
    <3>1. k = 1 /\ k - 1 = 0
      BY <1>1
    <3> QED
      BY <1>1, <1>2, <1>3, <3>1
  <2> QED
    BY <1>3, <2>1 DEF IsBrought
<1>5. Brought(ids, s, i) = g[Len(s)]
  BY <1>1, <1>4, BroughtUnique
<1> QED
  BY <1>1, <1>3, <1>5 DEF s

(* It depends on the ids of these cells only.                              *)
LEMMA BroughtSame ==
    ASSUME NEW ids \in Ids, NEW others \in Ids, NEW cells \in Seq(Cell), NEW i,
           \A c \in ToSet(cells) : others[c] = ids[c]
    PROVE  Brought(others, cells, i) = Brought(ids, cells, i)
<1>1. \A k \in 1..Len(cells) : others[cells[k]] = ids[cells[k]]
  BY InSequence
<1>2. PICK g \in [0..Len(cells) -> Seq(Block)] :
        IsBrought(ids, cells, i, g) /\ Brought(ids, cells, i) = g[Len(cells)]
  BY BroughtIs
<1>3. IsBrought(others, cells, i, g)
  BY <1>1, <1>2 DEF IsBrought
<1>4. Brought(others, cells, i) = g[Len(cells)]
  BY <1>3, BroughtUnique
<1> QED
  BY <1>2, <1>4

(* An element is appended to a sequence behind another one.                *)
LEMMA AppendInside ==
    ASSUME NEW S, NEW a \in Seq(S), NEW b \in Seq(S), NEW e \in S
    PROVE  a \o Append(b, e) = Append(a \o b, e)
<1>1. Append(b, e) = b \o <<e>> /\ <<e>> \in Seq(S)
  BY AppendIsConcat
<1>2. a \o b \in Seq(S)
  OBVIOUS
<1>3. Append(a \o b, e) = (a \o b) \o <<e>>
  BY <1>2, AppendIsConcat
<1>4. (a \o b) \o <<e>> = a \o (b \o <<e>>)
  BY <1>1, ConcatAssociative
<1> QED
  BY <1>1, <1>3, <1>4, Zenon

(* Two sequences that are joined bring what each of them brings.           *)
LEMMA BroughtTogether ==
    ASSUME NEW ids \in Ids, NEW u \in Seq(Cell), NEW t \in Seq(Cell), NEW i
    PROVE  Brought(ids, u \o t, i) = Brought(ids, u, i) \o Brought(ids, t, i)
<1> DEFINE m == Len(u)
           n == Len(t)
           ut == u \o t
<1>1. /\ ut \in Seq(Cell) /\ Len(ut) = m + n /\ m \in Nat /\ n \in Nat
      /\ \A k \in 1..m : ut[k] = u[k]
      /\ \A k \in 1..n : ut[m + k] = t[k]
  BY InConcatenation
<1>2. PICK f \in [0..m -> Seq(Block)] : IsBrought(ids, u, i, f) /\ Brought(ids, u, i) = f[m]
  BY BroughtIs
<1>3. PICK g \in [0..n -> Seq(Block)] : IsBrought(ids, t, i, g) /\ Brought(ids, t, i) = g[n]
  BY BroughtIs
<1>4. \A k \in 1..m : f[k] = IF ids[u[k]] = i THEN Append(f[k - 1], u[k][1]) ELSE f[k - 1]
  BY <1>2 DEF IsBrought
<1>5. \A k \in 1..n : g[k] = IF ids[t[k]] = i THEN Append(g[k - 1], t[k][1]) ELSE g[k - 1]
  BY <1>3 DEF IsBrought
<1>6. f[0] = <<>> /\ g[0] = <<>>
  BY <1>2, <1>3 DEF IsBrought
<1>7. \A k \in 1..n : t[k][1] \in Block
  <2>1. \A k \in 1..n : t[k] \in Cell
    OBVIOUS
  <2> QED
    BY <2>1 DEF Cell
<1> HIDE DEF m, n, ut
<1>8. f[m] \in Seq(Block) /\ (\A k \in 0..n : g[k] \in Seq(Block))
  <2>1. m \in 0..m
    BY <1>1
  <2> QED
    BY <2>1
<1> DEFINE a == f[m]
           cat(o) == a \o o
<1>20. /\ cat(<<>>) = a
      /\ \A o \in Seq(Block) : \A e \in Block : cat(Append(o, e)) = Append(cat(o), e)
  <2>1. a \in Seq(Block)
    BY <1>8
  <2> HIDE DEF a
  <2>2. a \o <<>> = a
    BY <2>1
  <2>3. ASSUME NEW o \in Seq(Block), NEW e \in Block PROVE cat(Append(o, e)) = Append(cat(o), e)
    BY <2>1, AppendInside
  <2> QED
    BY <2>2, <2>3
<1>21. cat(g[n]) = Brought(ids, u, i) \o Brought(ids, t, i)
  BY <1>2, <1>3
<1> HIDE DEF a, cat
<1> DEFINE h == [k \in 0..m + n |-> IF k <= m THEN f[k] ELSE cat(g[k - m])]
<1>9. \A k \in 0..m : h[k] = f[k]
  BY <1>1
<1>10. \A k \in 0..n : h[m + k] = cat(g[k])
  <2>1. ASSUME NEW k \in 0..n PROVE h[m + k] = cat(g[k])
    <3>1. m + k \in 0..m + n /\ m + k - m = k
      BY <1>1
    <3>2. CASE k = 0
      <4>1. h[m + k] = a
        BY <1>1, <3>2 DEF a
      <4> QED
        BY <1>6, <1>20, <3>2, <4>1
    <3>3. CASE k # 0
      <4>1. ~ (m + k <= m)
        BY <1>1, <3>3
      <4> QED
        BY <1>1, <3>1, <4>1
    <3> QED
      BY <3>2, <3>3
  <2> QED
    BY <2>1
<1> HIDE DEF h
<1>11. ASSUME NEW k \in 1..m + n
       PROVE  h[k] = IF ids[ut[k]] = i THEN Append(h[k - 1], ut[k][1]) ELSE h[k - 1]
  <2>1. CASE k \in 1..m
    <3>1. k \in 0..m /\ k - 1 \in 0..m
      BY <1>1, <2>1
    <3>2. h[k] = f[k] /\ h[k - 1] = f[k - 1] /\ ut[k] = u[k]
      BY <1>1, <1>9, <2>1, <3>1
    <3> QED
      BY <1>4, <2>1, <3>2
  <2>2. CASE k \notin 1..m
    <3> DEFINE j == k - m
    <3>1. j \in 1..n /\ j \in 0..n /\ j - 1 \in 0..n /\ m + j = k /\ m + (j - 1) = k - 1
      BY <1>1, <2>2
    <3> HIDE DEF j
    <3>2. h[k] = cat(g[j]) /\ h[k - 1] = cat(g[j - 1]) /\ ut[k] = t[j]
      <4>1. h[m + j] = cat(g[j]) /\ h[m + (j - 1)] = cat(g[j - 1]) /\ ut[m + j] = t[j]
        BY <1>1, <1>10, <3>1
      <4> QED
        BY <3>1, <4>1
    <3>3. g[j] = IF ids[t[j]] = i THEN Append(g[j - 1], t[j][1]) ELSE g[j - 1]
      BY <1>5, <3>1
    <3>4. cat(Append(g[j - 1], t[j][1])) = Append(cat(g[j - 1]), t[j][1])
      <4>1. g[j - 1] \in Seq(Block) /\ t[j][1] \in Block
        BY <1>7, <1>8, <3>1
      <4> QED
        BY <1>20, <4>1
    <3> QED
      BY <3>2, <3>3, <3>4
  <2> QED
    BY <2>1, <2>2
<1>12. IsBrought(ids, ut, i, h)
  <2>1. h[0] = <<>>
    BY <1>1, <1>6, <1>9
  <2> QED
    BY <1>1, <1>11, <2>1 DEF IsBrought
<1>13. Brought(ids, ut, i) = h[m + n]
  BY <1>1, <1>12, BroughtUnique
<1>14. h[m + n] = cat(g[n])
  <2>1. n \in 0..n
    BY <1>1
  <2> QED
    BY <1>10, <2>1
<1> QED
  BY <1>13, <1>14, <1>21 DEF ut

-----------------------------------------------------------------------------
(* References.                                                             *)

(* The cells of block b among those in L.                                  *)
Of(L, b) == {c \in L : c[1] = b}

(* The blocks d count the cells in L.                                      *)
Counts(d, L) ==
    /\ d \in [Block -> Nat \cup {Null}]
    /\ \A b \in Block : d[b] = IF Of(L, b) = {} THEN Null ELSE Cardinality(Of(L, b))

(* A block has finitely many cells.                                        *)
LEMMA OfFacts ==
    ASSUME NEW L \in SUBSET Cell, NEW b
    PROVE  /\ IsFiniteSet(Of(L, b)) /\ Cardinality(Of(L, b)) \in Nat
           /\ Cardinality(Of(L, b)) = 0 <=> Of(L, b) = {}
<1>1. Of(L, b) \subseteq Cell
  BY DEF Of
<1>2. IsFiniteSet(Of(L, b))
  BY <1>1, CellFacts, FS_Subset
<1> QED
  BY <1>2, FS_CardinalityType, FS_EmptySet

(* One of them is given up.                                                *)
LEMMA CountsWithout ==
    ASSUME NEW L \in SUBSET Cell, NEW d, Counts(d, L), NEW c \in L
    PROVE  /\ d[c[1]] # Null
           /\ Counts(Dereferenced(d, c[1]), L \ {c})
<1> DEFINE b == c[1]
           n == Cardinality(Of(L, b))
           e == Dereferenced(d, b)
<1>1. b \in Block /\ c \in Of(L, b)
  BY DEF Cell, Of
<1>2. IsFiniteSet(Of(L, b)) /\ n \in Nat /\ n # 0 /\ d[b] = n
  BY <1>1, OfFacts DEF Counts
<1>3. Null \notin Nat
  BY NotificationsAssumption
<1>4. Of(L \ {c}, b) = Of(L, b) \ {c}
  BY DEF Of
<1>5. Cardinality(Of(L \ {c}, b)) = n - 1
  <2>1. Cardinality(Of(L, b) \ {c}) = n - 1
    BY <1>1, <1>2, FS_RemoveElement
  <2> QED
    BY <1>4, <2>1, Zenon
<1>6. Of(L \ {c}, b) = {} <=> n - 1 = 0
  <2>1. L \ {c} \in SUBSET Cell
    OBVIOUS
  <2> QED
    BY <1>5, <2>1, OfFacts
<1>7. d \in [Block -> Nat \cup {Null}]
  BY DEF Counts
<1> HIDE DEF n, b
<1>8. e = [d EXCEPT ![b] = IF n = 1 THEN Null ELSE n - 1]
  BY <1>2, <1>3 DEF Dereferenced
<1>9. n - 1 \in Nat
  BY <1>2
<1> HIDE DEF e
<1>10. e \in [Block -> Nat \cup {Null}]
  BY <1>7, <1>8, <1>9
<1>11. ASSUME NEW x \in Block
       PROVE  e[x] = IF Of(L \ {c}, x) = {} THEN Null ELSE Cardinality(Of(L \ {c}, x))
  <2>1. CASE x = b
    <3>1. e[b] = IF n = 1 THEN Null ELSE n - 1
      BY <1>1, <1>7, <1>8
    <3>2. n = 1 <=> n - 1 = 0
      BY <1>2
    <3> QED
      BY <1>5, <1>6, <2>1, <3>1, <3>2
  <2>2. CASE x # b
    <3>1. Of(L \ {c}, x) = Of(L, x)
      BY <2>2 DEF Of, b
    <3>2. e[x] = d[x]
      BY <1>7, <1>8, <2>2
    <3> QED
      BY <3>1, <3>2 DEF Counts
  <2> QED
    BY <2>1, <2>2
<1>12. Counts(e, L \ {c})
  BY <1>10, <1>11 DEF Counts
<1> QED
  BY <1>2, <1>3, <1>12 DEF b, e

(* A cell of a block is linked as long as its count says so.               *)
LEMMA CountsAllocated ==
    ASSUME NEW L \in SUBSET Cell, NEW d, Counts(d, L)
    PROVE  /\ \A c \in L : d[c[1]] # Null
           /\ \A b \in Block : d[b] = Null => Of(L, b) = {}
<1>1. \A c \in L : d[c[1]] # Null
  BY CountsWithout
<1>2. Null \notin Nat
  BY NotificationsAssumption
<1>3. \A b \in Block : Cardinality(Of(L, b)) \in Nat
  BY OfFacts
<1> QED
  BY <1>1, <1>2, <1>3 DEF Counts

(* The function in GivenUp.                                                *)
LEMMA GivenUpIs ==
    ASSUME NEW n \in Nat, NEW cells \in Seq(Cell), n = Len(cells),
           NEW L, Counts(data, L)
    PROVE  /\ GivenUp(cells)[0] = data
           /\ \A k \in 1..n :
                GivenUp(cells)[k] = Dereferenced(GivenUp(cells)[k - 1], cells[k][1])
<1> DEFINE S == [Block -> Int \cup {Null}]
           Rec(f) == f = [k \in 0..n |-> IF k = 0 THEN data ELSE Dereferenced(f[k - 1], cells[k][1])]
           step == [k \in 1..n |-> [d \in S |-> Dereferenced(d, cells[k][1])]]
<1>1. \A k \in 1..n : \A d \in S : Dereferenced(d, cells[k][1]) \in S
  <2>1. ASSUME NEW d \in S, NEW b \in Block PROVE Dereferenced(d, b) \in S
    <3>1. d[b] \notin {1, Null} => d[b] - 1 \in Int
      <4>1. d[b] \in Int \cup {Null}
        OBVIOUS
      <4> QED
        BY <4>1
    <3> QED
      BY <3>1 DEF Dereferenced
  <2>2. \A k \in 1..n : cells[k][1] \in Block
    <3>1. \A k \in 1..n : cells[k] \in Cell
      OBVIOUS
    <3> QED
      BY <3>1 DEF Cell
  <2> QED
    BY <2>1, <2>2
<1>2. data \in S
  BY DEF Counts
<1> HIDE DEF S
<1>3. step \in [1..n -> [S -> S]]
  BY <1>1
<1>4. PICK g \in [0..n -> S] : Runs(g, n, data, step)
  <2> HIDE DEF step
  <2> QED
    BY <1>2, <1>3, Recursion
<1>5. Rec(g)
  <2>1. ASSUME NEW k \in 1..n PROVE g[k] = Dereferenced(g[k - 1], cells[k][1])
    <3>1. k - 1 \in 0..n
      OBVIOUS
    <3>2. g[k - 1] \in S
      BY <3>1
    <3>3. g[k] = step[k][g[k - 1]]
      BY <1>4 DEF Runs
    <3> QED
      BY <3>2, <3>3
  <2>2. g[0] = data
    BY <1>4 DEF Runs
  <2> HIDE DEF step
  <2>3. ASSUME NEW k \in 0..n
        PROVE  g[k] = IF k = 0 THEN data ELSE Dereferenced(g[k - 1], cells[k][1])
    <3>1. k = 0 \/ k \in 1..n
      OBVIOUS
    <3> QED
      BY <2>1, <2>2, <3>1
  <2>4. g = [k \in 0..n |-> g[k]]
    OBVIOUS
  <2> QED
    BY <2>3, <2>4
<1>6. GivenUp(cells) = CHOOSE f : Rec(f)
  BY DEF GivenUp
<1> DEFINE f == GivenUp(cells)
<1>7. Rec(f)
  <2> HIDE DEF Rec
  <2> QED
    BY <1>5, <1>6
<1> HIDE DEF f
<1>8. f[0] = data /\ \A k \in 1..n : f[k] = Dereferenced(f[k - 1], cells[k][1])
  BY <1>7
<1> QED
  BY <1>8 DEF f

(* The walks give up what is in the queues once.                           *)
LEMMA GiveUpCounts ==
    ASSUME NEW L \in SUBSET Cell, Counts(data, L), next \in Links,
           subscriptionid \in [Cell -> Item \cup {Null}],
           NEW cells \in Seq(Cell), IsInjective(cells), ToSet(cells) \subseteq L,
           GiveUp(cells)
    PROVE  /\ Counts(data', L \ ToSet(cells))
           /\ undefined' = FALSE
           /\ next' \in Links
           /\ subscriptionid' \in [Cell -> Item \cup {Null}]
           /\ \A c \in L \ ToSet(cells) :
                next'[c] = next[c] /\ subscriptionid'[c] = subscriptionid[c]
<1> DEFINE n == Len(cells)
           after == GivenUp(cells)
           rest(k) == L \ {cells[j] : j \in 1..k}
<1>1. n \in Nat /\ \A k \in 1..n : cells[k] \in Cell /\ cells[k] \in L
  BY InSequence
<1>2. after[0] = data /\ \A k \in 1..n : after[k] = Dereferenced(after[k - 1], cells[k][1])
  BY <1>1, GivenUpIs
<1>3. ToSet(cells) = {cells[j] : j \in 1..n}
  BY <1>1 DEF ToSet
<1>4. \A j, k \in 1..n : cells[j] = cells[k] => j = k
  BY DEF IsInjective
<1> HIDE DEF n, after
<1>5. ASSUME NEW k \in 1..n, Counts(after[k - 1], rest(k - 1))
      PROVE  after[k - 1][cells[k][1]] # Null /\ Counts(after[k], rest(k))
  <2>1. cells[k] \in rest(k - 1)
    <3>1. \A j \in 1..k - 1 : j \in 1..n /\ j # k
      BY <1>1
    <3> QED
      BY <1>1, <1>4, <3>1
  <2>2. rest(k) = rest(k - 1) \ {cells[k]}
    <3>1. 1..k = (1..k - 1) \cup {k}
      BY <1>1
    <3> QED
      BY <3>1
  <2>3. rest(k - 1) \in SUBSET Cell
    OBVIOUS
  <2> HIDE DEF rest
  <2>4. /\ after[k - 1][cells[k][1]] # Null
        /\ Counts(Dereferenced(after[k - 1], cells[k][1]), rest(k - 1) \ {cells[k]})
    BY <1>5, <2>1, <2>3, CountsWithout
  <2> QED
    BY <1>2, <2>2, <2>4
<1>6. \A k \in 0..n : Counts(after[k], rest(k))
  <2> DEFINE T == {k \in 0..n : Counts(after[k], rest(k))}
  <2>1. 0 \in T
    <3>1. rest(0) = L
      OBVIOUS
    <3> HIDE DEF rest
    <3>2. Counts(after[0], rest(0))
      BY <1>2, <3>1
    <3> QED
      BY <1>1, <3>2
  <2>2. ASSUME NEW k \in 1..n, k - 1 \in T PROVE k \in T
    <3> HIDE DEF rest
    <3> QED
      BY <1>1, <1>5, <2>2
  <2>3. \A k \in 0..n : k \in T
    <3> HIDE DEF T
    <3> QED
      BY <1>1, <2>1, <2>2, UpTo
  <2> HIDE DEF rest
  <2> QED
    BY <2>3
<1>7. data' = after[n] /\ rest(n) = L \ ToSet(cells)
  BY <1>3 DEF GiveUp, after, n
<1> HIDE DEF rest
<1>8. Counts(data', L \ ToSet(cells))
  <2>1. n \in 0..n
    BY <1>1
  <2>2. Counts(after[n], rest(n))
    BY <1>6, <2>1
  <2> QED
    BY <1>7, <2>2, Zenon
<1>9. undefined' = FALSE
  <2>1. undefined' = \E k \in 1..n : Touches(after[k - 1], cells[k][1])
    BY DEF GiveUp, after, n
  <2>2. ASSUME NEW k \in 1..n PROVE ~ Touches(after[k - 1], cells[k][1])
    <3>1. k - 1 \in 0..n
      BY <1>1
    <3> QED
      BY <1>5, <1>6, <3>1 DEF Touches
  <2>3. ~ \E k \in 1..n : Touches(after[k - 1], cells[k][1])
    BY <2>2
  <2> QED
    BY <2>1, <2>3, Zenon
<1>10. \A c \in L \ ToSet(cells) : data'[c[1]] # Null
  <2>1. L \ ToSet(cells) \in SUBSET Cell
    OBVIOUS
  <2> QED
    BY <1>8, <2>1, CountsAllocated
<1>11. /\ next' = [c \in Cell |-> IF data'[c[1]] = Null \/ c \in ToSet(cells) THEN Null ELSE next[c]]
       /\ subscriptionid' = [c \in Cell |-> IF data'[c[1]] = Null \/ c \in ToSet(cells) THEN Null ELSE subscriptionid[c]]
  BY DEF GiveUp
<1>12. next' \in Links /\ subscriptionid' \in [Cell -> Item \cup {Null}]
  BY <1>11 DEF Links
<1>13. \A c \in L \ ToSet(cells) : next'[c] = next[c] /\ subscriptionid'[c] = subscriptionid[c]
  BY <1>10, <1>11
<1> QED
  BY <1>8, <1>9, <1>12, <1>13

-----------------------------------------------------------------------------
(* The queues of a state and of the next one.                              *)

Queues == [x \in Holder |-> Queue(x)]

Chains == [x \in Holder |-> Waiting(x)]

(* The queues consist of the cells in ch after the step, and everything    *)
(* about the blocks fits them.                                             *)
Becomes(ch) ==
    /\ Apart(Queues', next', ch)
    /\ Counts(data', AllOf(ch))
    /\ next' \in Links
    /\ subscriptionid' \in [Cell -> Item \cup {Null}]
    /\ undefined' = FALSE

(* What the cells in ch are for does not change.                           *)
Kept(ch) == \A c \in AllOf(ch) : subscriptionid'[c] = subscriptionid[c]

(* Sessions and results are holders, and no session is a result.           *)
LEMMA HolderFacts ==
    /\ Session \subseteq Holder /\ Result \subseteq Holder
    /\ \A r \in Result : r \notin Session
    /\ \A s \in Session : s \notin Result /\ s # Null
    /\ \A s \in Session : Queue(s) = publish_queue[s]
    /\ \A r \in Result : Queue(r) = IF result[r] = Null THEN NoQueue ELSE result[r].queue
BY NotificationsAssumption DEF Holder, Queue

(* The same after a step.                                                  *)
LEMMA HolderFactsNext ==
    /\ \A s \in Session : Queue(s)' = publish_queue'[s]
    /\ \A r \in Result : Queue(r)' = IF result'[r] = Null THEN NoQueue ELSE result'[r].queue
BY NotificationsAssumption DEF Holder, Queue

(* A result, when there is one.                                            *)
LEMMA ResultFacts ==
    ASSUME TypeOK, NEW r \in Result, result[r] # Null
    PROVE  /\ result[r].session \in Session \cup {Null}
           /\ result[r].remaining \in 1..MaxAnswers
           /\ result[r].blocked \in SUBSET Item
           /\ result[r].queue \in Ends
           /\ result[r] = [session |-> result[r].session, remaining |-> result[r].remaining,
                            blocked |-> result[r].blocked, queue |-> result[r].queue]
<1>1. result[r] \in ResultCell
  BY DEF TypeOK
<1> QED
  BY <1>1 DEF ResultCell, Ends

(* A new one.                                                              *)
LEMMA NewResultFacts ==
    ASSUME NEW s \in Session \cup {Null}, NEW n \in 1..MaxAnswers,
           NEW blocked \in SUBSET Item, NEW q \in Ends,
           NEW res, res = [session |-> s, remaining |-> n, blocked |-> blocked, queue |-> q]
    PROVE  res \in ResultCell /\ res # Null
<1>1. res \in ResultCell
  BY DEF ResultCell, Ends
<1> QED
  BY <1>1, NotificationsAssumption

(* What the invariant says of the queues.                                  *)
LEMMA QueuesNow ==
    ASSUME IInv
    PROVE  /\ Apart(Queues, next, Chains)
           /\ Counts(data, AllOf(Chains))
           /\ next \in Links
           /\ subscriptionid \in [Cell -> Item \cup {Null}]
           /\ undefined = FALSE
           /\ AllOf(Chains) \in SUBSET Cell
           /\ Chains \in [Holder -> Seq(Cell)]
<1>1. TypeOK /\ QueuesApart /\ ReferencesCounted /\ undefined = FALSE
  BY DEF IInv, LinksSound, NoUseAfterFree
<1>2. next \in Links /\ subscriptionid \in [Cell -> Item \cup {Null}]
  BY <1>1 DEF TypeOK, Links
<1>3. \A x \in Holder : Queue(x) \in Ends
  <2>1. \A s \in Session : Queue(s) \in Ends
    BY <1>1, HolderFacts DEF TypeOK, Ends
  <2>2. \A r \in Result : Queue(r) \in Ends
    <3>1. NoQueue \in Ends
      BY DEF NoQueue, Ends
    <3> QED
      BY <1>1, <3>1, HolderFacts, ResultFacts
  <2> QED
    BY <2>1, <2>2 DEF Holder
<1>4. \A x \in Holder : IsQueue(Queue(x), next, Waiting(x)) /\ Waiting(x) \in Seq(Cell)
  BY <1>1 DEF QueuesApart, IsQueue
<1>5. Chains \in [Holder -> Seq(Cell)]
  BY <1>4 DEF Chains
<1>6. Apart(Queues, next, Chains)
  <2>1. \A x \in Holder, y \in Holder :
          x # y => ToSet(Waiting(x)) \cap ToSet(Waiting(y)) = {}
    BY <1>1 DEF QueuesApart
  <2>2. \A x \in Holder : Queues[x] = Queue(x) /\ Chains[x] = Waiting(x)
    BY DEF Queues, Chains
  <2> QED
    BY <1>3, <1>4, <1>5, <2>1, <2>2 DEF Apart
<1>7. AllOf(Chains) = LinkedCells
  <2>1. \A x \in Holder : Chains[x] = Waiting(x)
    BY DEF Chains
  <2> QED
    BY <2>1, Zenon DEF AllOf, LinkedCells
<1>8. AllOf(Chains) \in SUBSET Cell
  BY <1>5, InAllOf
<1>9. Counts(data, AllOf(Chains))
  <2> DEFINE L == AllOf(Chains)
  <2> HIDE DEF L
  <2>1. L = LinkedCells /\ L \in SUBSET Cell
    BY <1>7, <1>8 DEF L
  <2>2. \A b \in Block : data[b] = IF Of(L, b) = {} THEN Null ELSE Cardinality(Of(L, b))
    <3>1. \A b \in Block : Of(L, b) = {c \in LinkedCells : c[1] = b}
      BY <2>1, Zenon DEF Of
    <3>2. \A b \in Block : data[b] = IF {c \in LinkedCells : c[1] = b} = {} THEN Null
                                    ELSE Cardinality({c \in LinkedCells : c[1] = b})
      BY <1>1, Zenon DEF ReferencesCounted
    <3> QED
      BY <3>1, <3>2, Zenon
  <2>3. data \in [Block -> Nat \cup {Null}]
    <3>1. data \in [Block -> 1..Cardinality(Item) \cup {Null}]
      BY <1>1 DEF TypeOK
    <3> QED
      BY <3>1, CellFacts
  <2>4. Counts(data, L)
    BY <2>2, <2>3 DEF Counts
  <2> QED
    BY <2>4 DEF L
<1> QED
  BY <1>1, <1>2, <1>5, <1>6, <1>8, <1>9

(* The queues are what they become.                                        *)
LEMMA QueuesLater ==
    ASSUME NEW ch, Becomes(ch)
    PROVE  /\ \A x \in Holder : Waiting(x)' = ch[x]
           /\ QueuesApart'
           /\ ReferencesCounted'
<1>1. /\ ch \in [Holder -> Seq(Cell)] /\ next' \in Links
      /\ \A x \in Holder : IsQueue(Queue(x)', next', ch[x])
      /\ \A x \in Holder, y \in Holder : x # y => ToSet(ch[x]) \cap ToSet(ch[y]) = {}
  BY DEF Becomes, Apart, Queues
<1>2. \A x \in Holder : Waiting(x)' = ch[x]
  <2>1. ASSUME NEW x \in Holder PROVE Waiting(x)' = ch[x]
    <3>1. IsQueue(Queue(x)', next', ch[x]) /\ ch[x] \in Seq(Cell)
      BY <1>1
    <3>2. Chain(next', Queue(x)'.first) = ch[x]
      BY <1>1, <3>1, ChainIs
    <3> QED
      BY <3>2 DEF Waiting
  <2> QED
    BY <2>1
<1>3. LinkedCells' = AllOf(ch)
  <2>1. LinkedCells' = UNION {ToSet(Waiting(x)') : x \in Holder}
    BY DEF LinkedCells
  <2> QED
    BY <1>2, <2>1, Zenon DEF AllOf
<1>4. AllOf(ch) \in SUBSET Cell
  BY <1>1, InAllOf
<1>5. Counts(data', AllOf(ch))
  BY DEF Becomes
<1>6. QueuesApart'
  <2>1. \A c \in AllOf(ch) : data'[c[1]] # Null
    BY <1>4, <1>5, CountsAllocated
  <2>2. \A c \in LinkedCells' : data'[c[1]] # Null
    BY <1>3, <2>1, Zenon
  <2>3. \A x \in Holder : IsQueue(Queue(x)', next', Waiting(x)')
    BY <1>1, <1>2
  <2>4. \A x \in Holder, y \in Holder :
          x # y => ToSet(Waiting(x)') \cap ToSet(Waiting(y)') = {}
    BY <1>1, <1>2
  <2> QED
    BY <2>2, <2>3, <2>4 DEF QueuesApart
<1>7. ReferencesCounted'
  <2> DEFINE L == AllOf(ch)
  <2> HIDE DEF L
  <2>1. \A b \in Block : data'[b] = IF Of(L, b) = {} THEN Null ELSE Cardinality(Of(L, b))
    BY <1>5 DEF Counts, L
  <2>2. \A b \in Block : Of(L, b) = {c \in LinkedCells' : c[1] = b}
    BY <1>3, Zenon DEF Of, L
  <2> QED
    BY <2>1, <2>2, Zenon DEF ReferencesCounted
<1> QED
  BY <1>2, <1>6, <1>7

(* No block is counted for more cells than it has.                         *)
LEMMA CountsType ==
    ASSUME NEW L \in SUBSET Cell, NEW d, Counts(d, L)
    PROVE  d \in [Block -> 1..Cardinality(Item) \cup {Null}]
<1> DEFINE N == Cardinality(Item)
<1>1. ASSUME NEW b \in Block PROVE d[b] \in 1..N \cup {Null}
  <2> DEFINE f == [c \in Of(L, b) |-> c[2]]
  <2>1. \A c \in Of(L, b) : c \in Cell /\ c[1] = b
    BY DEF Of
  <2>2. f \in Injection(Of(L, b), 1..N)
    <3>1. \A c \in Of(L, b) : c[2] \in 1..N /\ c = <<b, c[2]>>
      BY <2>1 DEF Cell
    <3>2. f \in [Of(L, b) -> 1..N]
      BY <3>1
    <3>3. \A c \in Of(L, b), e \in Of(L, b) : f[c] = f[e] => c = e
      BY <3>1
    <3> HIDE DEF f
    <3> QED
      BY <3>2, <3>3 DEF Injection, IsInjective
  <2> HIDE DEF f
  <2>3. N \in Nat /\ IsFiniteSet(1..N) /\ Cardinality(1..N) = N
    BY CellFacts, Interval
  <2>4. Cardinality(Of(L, b)) <= N
    BY <2>2, <2>3, FS_Injection
  <2>5. Cardinality(Of(L, b)) \in Nat /\ (Cardinality(Of(L, b)) = 0 <=> Of(L, b) = {})
    BY OfFacts
  <2> QED
    BY <2>3, <2>4, <2>5 DEF Counts
<1> QED
  BY <1>1 DEF Counts

(* Nothing happens to the queues.                                          *)
SameQueues ==
    /\ UNCHANGED <<memory, undefined>>
    /\ \A x \in Holder : Queue(x)' = Queue(x)

(* Then everything about them stays.                                       *)
LEMMA QueuesSame ==
    ASSUME IInv, SameQueues
    PROVE  Becomes(Chains) /\ Kept(Chains)
<1>1. data' = data /\ next' = next /\ subscriptionid' = subscriptionid /\ undefined' = undefined
  BY DEF SameQueues, memory
<1>2. Queues' = Queues
  BY DEF SameQueues, Queues
<1> QED
  BY <1>1, <1>2, QueuesNow DEF Becomes, Kept

(* The cells u are given up, the rest t of the queue of x stays.           *)
GivesUp(x, u, t) ==
    /\ x \in Holder /\ u \in Seq(Cell) /\ t \in Seq(Cell)
    /\ Chains[x] = u \o t
    /\ GiveUp(u)
    /\ \A y \in Holder \ {x} : Queue(y)' = Queue(y)
    /\ Queue(x)' = [first |-> IF t = <<>> THEN Null ELSE t[1],
                    last |-> IF t = <<>> THEN Null ELSE Queue(x).last]

(* The queue of x becomes what is behind the cells that were given up.     *)
LEMMA QueueGivenUp ==
    ASSUME IInv, NEW x, NEW u, NEW t, GivesUp(x, u, t), NEW new, new = [Chains EXCEPT ![x] = t]
    PROVE  Becomes(new) /\ Kept(new)
<1>1. Shortened(Queues, Queues', Chains, new, x, u, t)
  <2>1. \A y \in Holder : Queues[y] = Queue(y) /\ Queues'[y] = Queue(y)'
    BY DEF Queues
  <2> QED
    BY <2>1 DEF GivesUp, Shortened
<1>2. /\ Apart(Queues, next, Chains) /\ Counts(data, AllOf(Chains)) /\ next \in Links
      /\ subscriptionid \in [Cell -> Item \cup {Null}] /\ AllOf(Chains) \in SUBSET Cell
  BY QueuesNow
<1>3. /\ Apart(Queues', next, new)
      /\ AllOf(new) = AllOf(Chains) \ ToSet(u)
      /\ IsInjective(u) /\ ToSet(u) \subseteq AllOf(Chains)
  BY <1>1, <1>2, ApartShortened
<1>4. /\ Counts(data', AllOf(Chains) \ ToSet(u))
      /\ undefined' = FALSE
      /\ next' \in Links
      /\ subscriptionid' \in [Cell -> Item \cup {Null}]
      /\ \A c \in AllOf(Chains) \ ToSet(u) :
           next'[c] = next[c] /\ subscriptionid'[c] = subscriptionid[c]
  <2>1. u \in Seq(Cell) /\ GiveUp(u)
    BY DEF GivesUp
  <2> QED
    BY <1>2, <1>3, <2>1, GiveUpCounts
<1>5. \A c \in AllOf(new) : next'[c] = next[c] /\ subscriptionid'[c] = subscriptionid[c]
  BY <1>3, <1>4
<1>6. Apart(Queues', next', new)
  BY <1>3, <1>5, ApartFrame
<1>7. Counts(data', AllOf(new))
  BY <1>3, <1>4, Zenon
<1> QED
  BY <1>4, <1>5, <1>6, <1>7 DEF Becomes, Kept

(* The queue of a session that is deleted is given up.                     *)
LEMMA SessionDeleteQueues ==
    ASSUME IInv, NEW s \in Session, SessionDelete(s),
           NEW new, new = [Chains EXCEPT ![s] = <<>>]
    PROVE  Becomes(new) /\ Kept(new)
<1>1. TypeOK
  BY DEF IInv, LinksSound
<1>2. Queue(s) = publish_queue[s] /\ s \in Holder /\ Queue(s)' = publish_queue'[s]
  BY HolderFacts, HolderFactsNext
<1>3. Chains[s] = Waiting(s) /\ Waiting(s) \in Seq(Cell)
  BY <1>2, QueuesNow DEF Chains
<1>4. GiveUp(Waiting(s))
  BY <1>2 DEF SessionDelete, Waiting
<1>5. Queue(s)' = [first |-> Null, last |-> Null]
  BY <1>1, <1>2 DEF SessionDelete, TypeOK, NoQueue
<1>6. \A y \in Holder \ {s} : Queue(y)' = Queue(y)
  <2>1. ASSUME NEW y \in Session, y # s PROVE Queue(y)' = Queue(y)
    <3>1. publish_queue'[y] = publish_queue[y]
      BY <1>1, <2>1 DEF SessionDelete, TypeOK
    <3> QED
      BY <3>1, HolderFacts, HolderFactsNext
  <2>2. ASSUME NEW r \in Result PROVE Queue(r)' = Queue(r)
    <3>1. result'[r] = IF result[r] # Null /\ result[r].session = s
                       THEN [result[r] EXCEPT !.session = Null] ELSE result[r]
      BY DEF SessionDelete
    <3>2. CASE result[r] # Null /\ result[r].session = s
      <4>1. result'[r] = [session |-> Null, remaining |-> result[r].remaining,
                          blocked |-> result[r].blocked, queue |-> result[r].queue]
        BY <1>1, <3>1, <3>2, ResultFacts
      <4>2. result'[r] # Null
        BY <1>1, <3>2, <4>1, ResultFacts, NewResultFacts
      <4> QED
        BY <3>2, <4>1, <4>2, HolderFacts, HolderFactsNext
    <3>3. CASE ~ (result[r] # Null /\ result[r].session = s)
      BY <3>1, <3>3, HolderFacts, HolderFactsNext
    <3> QED
      BY <3>2, <3>3
  <2> QED
    BY <2>1, <2>2 DEF Holder
<1>7. <<>> \in Seq(Cell) /\ Waiting(s) = Waiting(s) \o <<>>
  BY <1>3
<1>8. GivesUp(s, Waiting(s), <<>>)
  BY <1>2, <1>3, <1>4, <1>5, <1>6, <1>7 DEF GivesUp
<1> QED
  BY <1>8, QueueGivenUp

(* A sequence is cut in two.                                               *)
IsCut(w, n, u, t) ==
    n \in 1..Len(w) /\ u = SubSeq(w, 1, n) /\ t = SubSeq(w, n + 1, Len(w))

(* The parts are sequences that make up the whole.                         *)
LEMMA CutInTwo ==
    ASSUME NEW S, NEW w \in Seq(S), NEW n, NEW u, NEW t, IsCut(w, n, u, t)
    PROVE  /\ u \in Seq(S) /\ t \in Seq(S) /\ w = u \o t /\ Len(u) = n
           /\ (t = <<>> <=> n = Len(w)) /\ (n # Len(w) => t[1] = w[n + 1])
           /\ u[Len(u)] = w[n]
<1> DEFINE len == Len(w)
<1>1. len \in Nat /\ n \in Nat /\ n # 0 /\ n <= len
  BY DEF IsCut
<1>2. u \in Seq(S) /\ Len(u) = n /\ \A k \in 1..n : u[k] = w[k]
  BY DEF IsCut
<1>3. t \in Seq(S) /\ Len(t) = len - n /\ \A k \in 1..len - n : t[k] = w[n + k]
  <2>1. t = SubSeq(w, n + 1, Len(w)) /\ n \in Nat /\ n <= Len(w) /\ Len(w) \in Nat
    BY DEF IsCut
  <2>2. t \in Seq(S)
    BY <2>1
  <2>3. Len(t) = len - n
    BY <2>1
  <2>4. ASSUME NEW k \in 1..len - n PROVE t[k] = w[n + k]
    BY <2>1
  <2> QED
    BY <2>2, <2>3, <2>4
<1>4. w \in Seq(S) /\ DOMAIN w = 1..len
  OBVIOUS
<1> HIDE DEF len
<1>5. /\ u \o t \in Seq(S) /\ Len(u \o t) = Len(u) + Len(t)
      /\ \A k \in 1..Len(u) : (u \o t)[k] = u[k]
      /\ \A k \in 1..Len(t) : (u \o t)[Len(u) + k] = t[k]
  <2>1. u \in Seq(S) /\ t \in Seq(S)
    BY <1>2, <1>3
  <2> QED
    BY <2>1, InConcatenation
<1> DEFINE ut == u \o t
<1>6. /\ ut \in Seq(S) /\ Len(ut) = len
      /\ \A k \in 1..n : ut[k] = w[k]
      /\ \A k \in 1..len - n : ut[n + k] = w[n + k]
  <2>1. Len(u \o t) = n + (len - n) /\ n + (len - n) = len
    BY <1>1, <1>2, <1>3, <1>5
  <2> HIDE DEF ut
  <2>2. /\ \A k \in 1..n : ut[k] = u[k]
        /\ \A k \in 1..len - n : ut[n + k] = t[k]
    <3>1. Len(u) = n /\ Len(t) = len - n
      BY <1>2, <1>3
    <3> QED
      BY <1>5, <3>1, Zenon DEF ut
  <2>3. ut \in Seq(S) /\ Len(ut) = len
    BY <1>5, <2>1 DEF ut
  <2> QED
    BY <1>2, <1>3, <2>2, <2>3
<1> HIDE DEF ut
<1>7. w = ut
  <2>1. \A k \in 1..len : ut[k] = w[k]
    <3>1. ASSUME NEW k \in 1..len PROVE ut[k] = w[k]
      <4>1. CASE k <= n
        BY <1>1, <1>6, <4>1
      <4>2. CASE ~ (k <= n)
        <5>1. k - n \in 1..len - n /\ n + (k - n) = k
          BY <1>1, <4>2
        <5> QED
          BY <1>6, <5>1
      <4> QED
        BY <4>1, <4>2
    <3> QED
      BY <3>1
  <2>2. DOMAIN ut = 1..len /\ ut = [k \in 1..len |-> ut[k]] /\ w = [k \in 1..len |-> w[k]]
    BY <1>4, <1>6
  <2>3. [k \in 1..len |-> ut[k]] = [k \in 1..len |-> w[k]]
    BY <2>1
  <2> HIDE DEF ut
  <2> QED
    BY <2>2, <2>3, Zenon
<1>8. (t = <<>> <=> n = len) /\ (n # len => t[1] = w[n + 1]) /\ u[Len(u)] = w[n]
  <2>1. t = <<>> <=> len - n = 0
    BY <1>3
  <2>2. n # len => 1 \in 1..len - n
    BY <1>1
  <2> QED
    BY <1>1, <1>2, <1>3, <2>1, <2>2
<1> QED
  BY <1>2, <1>3, <1>7, <1>8 DEF ut, len

(* A publish message takes the first cells of the queue.                   *)
LEMMA SendPublishQueues ==
    ASSUME IInv, NEW s \in Session, SendPublish(s)
    PROVE  \E u, t \in Seq(Cell) :
              /\ GivesUp(s, u, t)
              /\ u # <<>> /\ Len(u) <= free_publish_slots[s]
              /\ free_publish_slots' = [free_publish_slots EXCEPT ![s] = @ - Len(u)]
              /\ sent' = Notes(subscriptionid, u)
<1> DEFINE w == Waiting(s)
           len == Len(w)
           n == ItemCount(s)
           u == SubSeq(w, 1, n)
           t == SubSeq(w, n + 1, len)
<1>1. TypeOK
  BY DEF IInv, LinksSound
<1>2. Queue(s) = publish_queue[s] /\ s \in Holder /\ Queue(s)' = publish_queue'[s]
  BY HolderFacts, HolderFactsNext
<1>3. /\ Chains[s] = w /\ w \in Seq(Cell) /\ len \in Nat
      /\ IsQueue(Queue(s), next, w) /\ next \in Links
      /\ w = Chain(next, publish_queue[s].first)
  BY <1>2, QueuesNow DEF Chains, Queues, Apart, Waiting
<1>4. len # 0 /\ w # <<>> /\ free_publish_slots[s] \in Nat /\ free_publish_slots[s] # 0
  BY <1>1, <1>2, <1>3 DEF SendPublish, Sendable, IsQueue, TypeOK
<1>5. n \in 1..len /\ n <= free_publish_slots[s]
  <2> DEFINE f == free_publish_slots[s]
             m == IF f <= len THEN f ELSE len
  <2> HIDE DEF w, len
  <2>1. n = CHOOSE x \in {f, len} : \A y \in {f, len} : x <= y
    BY <1>3 DEF ItemCount, Min, w, len
  <2>2. f \in Nat /\ len \in Nat /\ f # 0 /\ len # 0
    BY <1>3, <1>4 DEF w, len
  <2> HIDE DEF f, n
  <2>3. \A y \in {f, len} : m <= y
    BY <2>2
  <2>4. m \in {f, len}
    BY <2>2
  <2> HIDE DEF m
  <2>5. n \in {f, len} /\ \A y \in {f, len} : n <= y
    BY <2>1, <2>3, <2>4
  <2>6. n <= f /\ n <= len /\ n \in Nat /\ n # 0
    BY <2>2, <2>5
  <2> QED
    BY <2>2, <2>6 DEF f
<1>6. Following(next, publish_queue[s].first, n) = u
  <2>1. n \in Nat /\ (IF n < len THEN n ELSE len) = n
    <3> HIDE DEF n, w, len
    <3> QED
      BY <1>3, <1>5
  <2>2. Following(next, Queue(s).first, n) = SubSeq(w, 1, IF n < len THEN n ELSE len)
    <3> HIDE DEF n
    <3> QED
      BY <1>3, <2>1, FollowingIs
  <2> QED
    BY <1>2, <2>1, <2>2, Zenon
<1>a. Waiting(s) = w
  OBVIOUS
<1> HIDE DEF n, w
<1>7. /\ u \in Seq(Cell) /\ t \in Seq(Cell) /\ w = u \o t /\ Len(u) = n
      /\ (t = <<>> <=> n = len) /\ (n # len => t[1] = w[n + 1])
      /\ u[Len(u)] = w[n]
  <2> HIDE DEF len
  <2>1. IsCut(w, n, u, t)
    BY <1>5 DEF len, IsCut
  <2> HIDE DEF u, t
  <2>2. /\ u \in Seq(Cell) /\ t \in Seq(Cell) /\ w = u \o t /\ Len(u) = n
        /\ (t = <<>> <=> n = Len(w)) /\ (n # Len(w) => t[1] = w[n + 1])
        /\ u[Len(u)] = w[n]
    BY <1>3, <2>1, CutInTwo
  <2> QED
    BY <2>2 DEF len
<1>8. next[w[n]] = IF n = len THEN Null ELSE w[n + 1]
  BY <1>3, <1>5 DEF IsQueue
<1>9. /\ free_publish_slots' = [free_publish_slots EXCEPT ![s] = @ - Len(u)]
      /\ publish_queue' = Remaining(s, next[Last(u)])
      /\ sent' = Notes(subscriptionid, u)
      /\ GiveUp(u)
      /\ result' = result
  <2>1. \E cells \in {Following(next, publish_queue[s].first, n)} :
         /\ free_publish_slots' = [free_publish_slots EXCEPT ![s] = @ - Len(cells)]
         /\ publish_queue' = Remaining(s, next[Last(cells)])
         /\ sent' = Notes(subscriptionid, cells)
         /\ GiveUp(cells)
    BY DEF SendPublish, n
  <2> HIDE DEF u
  <2>2. result' = result
    BY DEF SendPublish
  <2> QED
    BY <1>6, <2>1, <2>2, Zenon
<1>10. next[Last(u)] = IF t = <<>> THEN Null ELSE t[1]
  BY <1>7, <1>8 DEF Last
<1> HIDE DEF u, t, len
<1>11. publish_queue'[s] = [first |-> IF t = <<>> THEN Null ELSE t[1],
                            last |-> IF t = <<>> THEN Null ELSE publish_queue[s].last]
  <2> DEFINE c == IF t = <<>> THEN Null ELSE t[1]
  <2>1. t # <<>> => t[1] # Null
    BY <1>7, CellFacts
  <2>2. c = Null <=> t = <<>>
    BY <2>1
  <2>3. publish_queue'[s] = [first |-> c, last |-> IF c = Null THEN Null ELSE publish_queue[s].last]
    BY <1>1, <1>9, <1>10 DEF Remaining, TypeOK
  <2> QED
    BY <2>2, <2>3
<1>12. \A y \in Holder \ {s} : Queue(y)' = Queue(y)
  <2>1. \A y \in Session \ {s} : publish_queue'[y] = publish_queue[y]
    BY <1>1, <1>9 DEF Remaining, TypeOK
  <2> QED
    BY <1>9, <2>1, HolderFacts, HolderFactsNext DEF Holder
<1>13. GivesUp(s, u, t)
  BY <1>2, <1>3, <1>7, <1>9, <1>11, <1>12 DEF GivesUp
<1>14. u # <<>> /\ Len(u) <= free_publish_slots[s]
  BY <1>5, <1>7
<1> QED
  BY <1>7, <1>9, <1>13, <1>14

(* The outcomes of an answer.                                              *)
Stays(r, blocked) ==
    /\ result[r].remaining > 1
    /\ result' = [result EXCEPT ![r].remaining = @ - 1, ![r].blocked = blocked]
    /\ UNCHANGED <<publish_queue, memory, undefined>>

Drops(r) ==
    /\ result[r].session = Null \/ Waiting(r) = <<>>
    /\ result' = [result EXCEPT ![r] = Null]
    /\ GiveUp(Waiting(r))
    /\ UNCHANGED publish_queue

Splices(r, s) ==
    /\ result[r].session = s /\ s \in Session /\ Waiting(r) # <<>>
    /\ result' = [result EXCEPT ![r] = Null]
    /\ publish_queue' = [publish_queue EXCEPT ![s] =
                           Appended(Queue(s), Queue(r).first, Queue(r).last)]
    /\ next' = Linked(next, Queue(s), Queue(r).first, Queue(r).last)
    /\ undefined' = Dangling(data, Queue(s))
    /\ UNCHANGED <<data, subscriptionid>>

(* An answer does one of the three.                                        *)
LEMMA AnswerOutcomes ==
    ASSUME IInv, NEW r \in Result, result[r] # Null, NEW blocked, Answer(r, blocked)
    PROVE  Stays(r, blocked) \/ Drops(r) \/ \E s \in Session : Splices(r, s)
<1>1. TypeOK
  BY DEF IInv, LinksSound
<1>2. Queue(r) = result[r].queue /\ r \in Holder
  BY HolderFacts
<1>3. Waiting(r) = Chain(next, result[r].queue.first)
  BY <1>2 DEF Waiting
<1>4. result[r].queue.first = Null <=> Waiting(r) = <<>>
  <2>1. IsQueue(Queue(r), next, Waiting(r)) /\ Waiting(r) \in Seq(Cell)
    BY <1>2, QueuesNow DEF Apart, Chains, Queues
  <2>2. Waiting(r) # <<>> => Waiting(r)[1] \in Cell
    BY <2>1
  <2> QED
    BY <1>2, <2>1, <2>2, CellFacts DEF IsQueue
<1>5. result[r].session \in Session \cup {Null}
  BY <1>1, ResultFacts
<1>6. CASE result[r].remaining = 1 /\ (result[r].session = Null \/ result[r].queue.first = Null)
           /\ result' = [result EXCEPT ![r] = Null]
           /\ (\E cells \in {Chain(next, result[r].queue.first)} : GiveUp(cells))
           /\ UNCHANGED publish_queue
  <2>1. GiveUp(Waiting(r))
    BY <1>3, <1>6, Zenon
  <2> QED
    BY <1>4, <1>6, <2>1 DEF Drops
<1>7. CASE result[r].remaining = 1 /\ result[r].session # Null /\ result[r].queue.first # Null
           /\ result' = [result EXCEPT ![r] = Null]
           /\ publish_queue' = [publish_queue EXCEPT ![result[r].session] =
                Appended(publish_queue[result[r].session], result[r].queue.first, result[r].queue.last)]
           /\ next' = Linked(next, publish_queue[result[r].session],
                             result[r].queue.first, result[r].queue.last)
           /\ undefined' = Dangling(data, publish_queue[result[r].session])
           /\ UNCHANGED <<data, subscriptionid>>
  <2>1. result[r].session \in Session /\ Queue(result[r].session) = publish_queue[result[r].session]
    BY <1>5, <1>7, HolderFacts
  <2>2. Splices(r, result[r].session)
    BY <1>2, <1>4, <1>7, <2>1 DEF Splices
  <2> QED
    BY <2>1, <2>2
<1>8. CASE Stays(r, blocked)
  BY <1>8
<1>9. ASSUME Answer(r, blocked)
      PROVE  \/ Stays(r, blocked)
             \/ /\ result[r].remaining = 1
                /\ (result[r].session = Null \/ result[r].queue.first = Null)
                /\ result' = [result EXCEPT ![r] = Null]
                /\ \E cells \in {Chain(next, result[r].queue.first)} : GiveUp(cells)
                /\ UNCHANGED publish_queue
             \/ /\ result[r].remaining = 1 /\ result[r].session # Null
                /\ result[r].queue.first # Null
                /\ result' = [result EXCEPT ![r] = Null]
                /\ publish_queue' = [publish_queue EXCEPT ![result[r].session] =
                     Appended(publish_queue[result[r].session], result[r].queue.first,
                              result[r].queue.last)]
                /\ next' = Linked(next, publish_queue[result[r].session],
                                  result[r].queue.first, result[r].queue.last)
                /\ undefined' = Dangling(data, publish_queue[result[r].session])
                /\ UNCHANGED <<data, subscriptionid>>
  BY <1>9 DEF Answer, Stays
<1> QED
  BY <1>6, <1>7, <1>8, <1>9, Zenon

(* The answer is not the last one: the result and its queue stay.          *)
LEMMA StaysQueues ==
    ASSUME IInv, NEW r \in Result, result[r] # Null, NEW blocked \in SUBSET Item,
           Stays(r, blocked)
    PROVE  /\ SameQueues
           /\ result'[r] \in ResultCell /\ result'[r] # Null
           /\ result'[r].session = result[r].session /\ result'[r].blocked = blocked
           /\ \A q \in Result \ {r} : result'[q] = result[q]
           /\ result' \in [Result -> ResultCell \cup {Null}]
<1>1. TypeOK
  BY DEF IInv, LinksSound
<1>2. result \in [Result -> ResultCell \cup {Null}]
  BY <1>1 DEF TypeOK
<1> DEFINE n == result[r].remaining - 1
           res == [session |-> result[r].session, remaining |-> n,
                   blocked |-> blocked, queue |-> result[r].queue]
<1>3. /\ result[r].session \in Session \cup {Null} /\ n \in 1..MaxAnswers
      /\ result[r].queue \in Ends
  <2>1. result[r].remaining \in 1..MaxAnswers /\ result[r].remaining > 1 /\ MaxAnswers \in Nat
    BY <1>1, ResultFacts, NotificationsAssumption DEF Stays
  <2>2. n \in 1..MaxAnswers
    BY <2>1
  <2> QED
    BY <1>1, <2>2, ResultFacts
<1>4. res \in ResultCell /\ res # Null
  <2> HIDE DEF n
  <2> QED
    BY <1>3, NewResultFacts
<1>5. result' = [result EXCEPT ![r] = res]
  <2>1. result' = [result EXCEPT ![r].remaining = @ - 1, ![r].blocked = blocked]
    BY DEF Stays
  <2>2. result[r] = [session |-> result[r].session, remaining |-> result[r].remaining,
                     blocked |-> result[r].blocked, queue |-> result[r].queue]
    BY <1>1, ResultFacts
  <2> DEFINE m == [result[r] EXCEPT !.remaining = @ - 1]
             e == [m EXCEPT !.blocked = blocked]
  <2>3. m = [session |-> result[r].session, remaining |-> n,
             blocked |-> result[r].blocked, queue |-> result[r].queue]
    BY <2>2
  <2>4. result' = [result EXCEPT ![r] = e]
    BY <1>2, <2>1
  <2> HIDE DEF m, n
  <2>5. e = res
    BY <2>3
  <2> HIDE DEF e, res
  <2> QED
    BY <2>4, <2>5
<1> HIDE DEF res
<1>6. result'[r] = res /\ \A q \in Result \ {r} : result'[q] = result[q]
  BY <1>2, <1>5
<1>7. SameQueues
  <2>1. \A s \in Session : Queue(s)' = Queue(s)
    BY HolderFacts, HolderFactsNext DEF Stays
  <2>2. \A q \in Result : Queue(q)' = Queue(q)
    BY <1>4, <1>6, HolderFacts, HolderFactsNext DEF res
  <2> QED
    BY <2>1, <2>2 DEF SameQueues, Holder, Stays
<1>8. result' \in [Result -> ResultCell \cup {Null}]
  BY <1>2, <1>4, <1>5
<1> QED
  BY <1>4, <1>6, <1>7, <1>8 DEF res

(* The last answer, for a client that is gone or with nothing held back.   *)
LEMMA DropsQueues ==
    ASSUME IInv, NEW r \in Result, result[r] # Null, Drops(r),
           NEW new, new = [Chains EXCEPT ![r] = <<>>]
    PROVE  Becomes(new) /\ Kept(new)
<1>1. result \in [Result -> ResultCell \cup {Null}]
  BY DEF IInv, LinksSound, TypeOK
<1>2. r \in Holder /\ Chains[r] = Waiting(r) /\ Waiting(r) \in Seq(Cell)
  BY HolderFacts, QueuesNow DEF Chains
<1>3. result'[r] = Null /\ \A q \in Result \ {r} : result'[q] = result[q]
  BY <1>1 DEF Drops
<1>4. \A y \in Holder \ {r} : Queue(y)' = Queue(y)
  BY <1>3, HolderFacts, HolderFactsNext DEF Drops, Holder
<1>5. Queue(r)' = [first |-> Null, last |-> Null]
  BY <1>3, HolderFactsNext DEF NoQueue
<1>6. <<>> \in Seq(Cell) /\ Waiting(r) = Waiting(r) \o <<>>
  BY <1>2
<1>7. GivesUp(r, Waiting(r), <<>>)
  BY <1>2, <1>4, <1>5, <1>6 DEF GivesUp, Drops
<1> QED
  BY <1>7, QueueGivenUp

(* The last answer brings what was held back to the session.               *)
LEMMA SplicesQueues ==
    ASSUME IInv, NEW r \in Result, result[r] # Null, NEW s \in Session, Splices(r, s),
           NEW new, new = [Chains EXCEPT ![r] = <<>>, ![s] = Waiting(s) \o Waiting(r)]
    PROVE  Becomes(new) /\ Kept(new)
<1> DEFINE t == Waiting(r)
           first == [Chains EXCEPT ![r] = <<>>]
           P == [Queues EXCEPT ![r] = NoQueue]
<1>1. /\ result \in [Result -> ResultCell \cup {Null}]
      /\ publish_queue \in [Session -> Ends]
  BY DEF IInv, LinksSound, TypeOK, Ends
<1>2. /\ r \in Holder /\ s \in Holder /\ r # s
      /\ Chains[r] = t /\ Chains[s] = Waiting(s)
      /\ Queues[r] = Queue(r) /\ Queues[s] = Queue(s)
  BY HolderFacts DEF Chains, Queues
<1>3. /\ Apart(Queues, next, Chains) /\ Counts(data, AllOf(Chains)) /\ next \in Links
      /\ subscriptionid \in [Cell -> Item \cup {Null}] /\ AllOf(Chains) \in SUBSET Cell
      /\ Chains \in [Holder -> Seq(Cell)]
  BY QueuesNow
<1>4. t \in Seq(Cell) /\ Waiting(s) \in Seq(Cell) /\ t # <<>>
  BY <1>2, <1>3 DEF Splices
<1>a. t = Waiting(r)
  OBVIOUS
<1> HIDE DEF t
<1>5. Shortened(Queues, P, Chains, first, r, t, <<>>)
  <2>1. P[r] = [first |-> Null, last |-> Null] /\ \A y \in Holder \ {r} : P[y] = Queues[y]
    BY <1>2 DEF Queues, NoQueue
  <2>2. <<>> \in Seq(Cell) /\ t = t \o <<>>
    BY <1>4
  <2> HIDE DEF P
  <2> QED
    BY <1>2, <1>4, <2>1, <2>2 DEF Shortened
<1>6. /\ Apart(P, next, first) /\ AllOf(first) = AllOf(Chains) \ ToSet(t)
      /\ IsInjective(t) /\ ToSet(t) \subseteq AllOf(Chains)
  <2> HIDE DEF P, first
  <2> QED
    BY <1>3, <1>5, ApartShortened
<1>7. IsQueue(Queue(r), next, t)
  BY <1>2, <1>3 DEF Apart
<1>8. Queue(r).first = t[1] /\ Queue(r).last = t[Len(t)]
  BY <1>4, <1>7 DEF IsQueue
<1>9. /\ publish_queue' = [publish_queue EXCEPT ![s] = Appended(Queue(s), t[1], t[Len(t)])]
      /\ next' = Linked(next, Queue(s), t[1], t[Len(t)])
      /\ result' = [result EXCEPT ![r] = Null]
      /\ undefined' = Dangling(data, Queue(s))
      /\ data' = data /\ subscriptionid' = subscriptionid
  BY <1>8 DEF Splices
<1>10. Queue(r)' = NoQueue /\ Queue(s)' = Appended(Queue(s), t[1], t[Len(t)])
       /\ \A y \in Holder \ {s, r} : Queue(y)' = Queue(y)
  <2>1. result'[r] = Null /\ \A q \in Result \ {r} : result'[q] = result[q]
    BY <1>1, <1>9
  <2>2. publish_queue'[s] = Appended(Queue(s), t[1], t[Len(t)])
        /\ \A y \in Session \ {s} : publish_queue'[y] = publish_queue[y]
    BY <1>1, <1>9
  <2> QED
    BY <2>1, <2>2, HolderFacts, HolderFactsNext DEF Holder
<1>11. P[s] = Queue(s) /\ P[r] = NoQueue /\ \A y \in Holder \ {s, r} : P[y] = Queue(y)
  BY <1>2 DEF Queues
<1>12. first[s] = Waiting(s) /\ new = [first EXCEPT ![s] = first[s] \o t]
  <2>1. first[s] = Waiting(s)
    BY <1>2, <1>3
  <2> DEFINE st == Waiting(s) \o t
  <2>2. new = [Chains EXCEPT ![r] = <<>>, ![s] = st]
    BY <1>a
  <2> HIDE DEF st
  <2>3. new = [first EXCEPT ![s] = st]
    BY <1>2, <1>3, <2>2
  <2> QED
    BY <2>1, <2>3 DEF st
<1> HIDE DEF P, first
<1>13. IsAppended(P, Queues', next, next', first, new, s, t)
  <2>1. \A k \in 1..Len(t) - 1 : next[t[k]] = t[k + 1]
    BY <1>4, <1>7 DEF IsQueue
  <2>2. ToSet(t) \cap AllOf(first) = {}
    BY <1>6
  <2>3. \A y \in Holder : Queues'[y] = Queue(y)'
    BY DEF Queues
  <2>4. \A y \in Holder \ {s} : Queues'[y] = P[y]
    BY <1>2, <1>10, <1>11, <2>3
  <2>5. Queues'[s] = Appended(P[s], t[1], t[Len(t)])
    BY <1>2, <1>10, <1>11, <2>3
  <2>6. next' = Linked(next, P[s], t[1], t[Len(t)])
    BY <1>9, <1>11
  <2> QED
    BY <1>2, <1>4, <1>6, <1>12, <2>1, <2>2, <2>4, <2>5, <2>6 DEF IsAppended
<1>14. next' \in Links /\ Apart(Queues', next', new) /\ AllOf(new) = AllOf(first) \cup ToSet(t)
  <2>1. next \in Links
    BY <1>3
  <2>2. Apart(P, next, first)
    BY <1>6
  <2>3. next' \in Links
    BY <1>13, <2>1, <2>2, ApartAppended
  <2>4. Apart(Queues', next', new)
    BY <1>13, <2>1, <2>2, ApartAppended
  <2>5. AllOf(new) = AllOf(first) \cup ToSet(t)
    BY <1>13, <2>1, <2>2, ApartAppended
  <2> QED
    BY <2>3, <2>4, <2>5
<1>15. AllOf(new) = AllOf(Chains)
  BY <1>6, <1>14
<1>16. Counts(data', AllOf(new))
  BY <1>3, <1>9, <1>15, Zenon
<1>17. undefined' = FALSE
  <2>1. \A c \in AllOf(Chains) : data[c[1]] # Null
    BY <1>3, CountsAllocated
  <2>2. Queue(s).last # Null => Queue(s).last \in AllOf(Chains)
    <3>1. IsQueue(Queue(s), next, Waiting(s)) /\ Waiting(s) \in Seq(Cell)
      BY <1>2, <1>3 DEF Apart
    <3>2. Waiting(s) # <<>> => Len(Waiting(s)) \in 1..Len(Waiting(s))
      BY <3>1
    <3>3. Waiting(s) # <<>> => Queue(s).last \in ToSet(Waiting(s))
      BY <3>1, <3>2, InSequence DEF IsQueue
    <3> QED
      BY <1>2, <1>3, <3>1, <3>3, InAllOf DEF IsQueue
  <2> QED
    BY <1>9, <2>1, <2>2 DEF Dangling
<1> QED
  BY <1>3, <1>9, <1>14, <1>16, <1>17 DEF Becomes, Kept

-----------------------------------------------------------------------------
(* Publishing.                                                             *)

(* Result r lists item i exactly when it blocks the item.                  *)
BlockedAgrees ==
    \A i \in Item : /\ BlockedBy(i) \in Result \cup {Null}
                    /\ \A r \in Result : i \in Listed(r) <=> BlockedBy(i) = r

(* That is so when the lists agree.                                        *)
LEMMA BlockedByAgrees == TypeOK /\ ListsAgree => BlockedAgrees
<1> SUFFICES ASSUME TypeOK, ListsAgree, NEW i \in Item
             PROVE  /\ BlockedBy(i) \in Result \cup {Null}
                    /\ \A r \in Result : i \in Listed(r) <=> BlockedBy(i) = r
  BY DEF BlockedAgrees
<1> DEFINE lists == {r \in Result : /\ result[r] # Null
                                   /\ result[r].session = owner[i]
                                   /\ i \in result[r].blocked}
<1>1. BlockedBy(i) = IF lists = {} THEN Null ELSE CHOOSE r \in lists : TRUE
  BY DEF BlockedBy
<1>2. owner[i] \in Session /\ owner[i] # Null
  BY NotificationsAssumption DEF TypeOK
<1>3. \A r \in Result : r \in lists <=> i \in Listed(r)
  <2>1. ASSUME NEW r \in Result, i \in Listed(r) PROVE r \in lists
    BY <2>1 DEF Listed, ListsAgree
  <2>2. ASSUME NEW r \in lists PROVE i \in Listed(r)
    BY <1>2 DEF Listed
  <2> QED
    BY <2>1, <2>2
<1>4. \A r, q \in lists : r = q
  <2>1. \A r, q \in Result : i \in Listed(r) /\ i \in Listed(q) => r = q
    BY DEF ListsAgree
  <2> QED
    BY <1>3, <2>1
<1>5. lists \subseteq Result /\ Null \notin Result
  BY NotificationsAssumption
<1> HIDE DEF lists
<1>6. CASE lists = {}
  BY <1>1, <1>3, <1>5, <1>6
<1>7. CASE lists # {}
  <2>1. BlockedBy(i) \in lists
    BY <1>1, <1>7
  <2> QED
    BY <1>3, <1>4, <1>5, <2>1
<1> QED
  BY <1>6, <1>7

(* What is published with: different items that are subscribed to.         *)
LEMMA HandleFacts ==
    ASSUME IInv, NEW list \in Handles
    PROVE  /\ list \in Seq(Item) /\ IsInjective(list)
           /\ ToSet(list) \subseteq ToSet(publish_handle)
           /\ Len(list) <= Cardinality(Item)
<1>1. publish_handle \in Seq(Item) /\ IsInjective(publish_handle)
  BY DEF IInv, LinksSound, TypeOK, ListsAgree
<1>2. list \in Seq(Item) /\ IsInjective(list) /\ ToSet(list) \subseteq ToSet(publish_handle)
  <2>1. CASE list = publish_handle
    BY <1>1, <2>1
  <2>2. CASE list # publish_handle
    <3>1. PICK i \in ToSet(publish_handle) : list = <<i>>
      BY <2>2 DEF Handles
    <3>2. i \in Item
      BY <1>1, InSequence
    <3>3. list \in Seq(Item) /\ Len(list) = 1 /\ list[1] = i /\ DOMAIN list = 1..1
      BY <3>1, <3>2
    <3>4. IsInjective(list)
      BY <3>3 DEF IsInjective
    <3>5. ToSet(list) \subseteq {i}
      BY <3>3 DEF ToSet
    <3> QED
      BY <3>3, <3>4, <3>5
  <2> QED
    BY <2>1, <2>2
<1>3. Len(list) <= Cardinality(Item)
  <2>1. list \in [1..Len(list) -> Item] /\ DOMAIN list = 1..Len(list) /\ Len(list) \in Nat
    BY <1>2
  <2>2. list \in Injection(1..Len(list), Item)
    BY <1>2, <2>1 DEF Injection, IsInjective
  <2>3. Cardinality(1..Len(list)) = Len(list) /\ IsFiniteSet(1..Len(list))
    BY <2>1, Interval
  <2> QED
    BY <2>2, <2>3, NotificationsAssumption, FS_Injection
<1> QED
  BY <1>2, <1>3

(* Block b is new and gets a reference for every item.                     *)
LEMMA PublishFacts ==
    ASSUME IInv, NEW list \in Handles, NEW b \in Block, Publish(list, b)
    PROVE  /\ Len(list) \in Nat /\ Len(list) # 0
           /\ \A k \in 1..Len(list) : /\ list[k] \in Item /\ <<b, k>> \in Cell
                                     /\ HolderOf(list[k]) \in Holder
                                     /\ subscriptionid'[<<b, k>>] = list[k]
           /\ subscriptionid' \in Ids
           /\ data[b] = Null /\ data' = [data EXCEPT ![b] = Len(list)]
           /\ \A c \in AllOf(Chains) : /\ c[1] # b /\ data'[c[1]] # Null
                                       /\ subscriptionid'[c] = subscriptionid[c]
           /\ data'[b] # Null
<1>1. list \in Seq(Item) /\ list # <<>> /\ Len(list) <= Cardinality(Item)
  BY HandleFacts DEF Publish
<1>2. Len(list) \in Nat /\ Len(list) # 0
  BY <1>1
<1>3. TypeOK /\ ListsAgree
  BY DEF IInv, LinksSound
<1>4. \A k \in 1..Len(list) : list[k] \in Item /\ <<b, k>> \in Cell
  BY <1>1, <1>2, CellFacts DEF Cell
<1>5. \A i \in Item : HolderOf(i) \in Holder
  <2>1. \A i \in Item : owner[i] \in Session
    BY <1>3 DEF TypeOK
  <2>2. \A i \in Item : BlockedBy(i) \in Result \cup {Null}
    BY <1>3, BlockedByAgrees DEF BlockedAgrees
  <2> QED
    BY <2>1, <2>2 DEF HolderOf, Holder
<1>6. subscriptionid' = [c \in Cell |->
         IF c[1] = b /\ c[2] <= Len(list) THEN list[c[2]] ELSE subscriptionid[c]]
  BY DEF Publish
<1>7. \A k \in 1..Len(list) : subscriptionid'[<<b, k>>] = list[k]
  BY <1>2, <1>4, <1>6
<1>8. subscriptionid' \in Ids
  <2>1. ASSUME NEW c \in Cell PROVE subscriptionid'[c] \in Item \cup {Null}
    <3>1. subscriptionid[c] \in Item \cup {Null}
      BY <1>3 DEF TypeOK
    <3>2. c[1] = b /\ c[2] <= Len(list) => list[c[2]] \in Item
      <4>1. c[2] \in 1..Cardinality(Item)
        BY DEF Cell
      <4>2. c[2] <= Len(list) => c[2] \in 1..Len(list)
        BY <1>2, <4>1, CellFacts
      <4> QED
        BY <1>4, <4>2
    <3> QED
      BY <1>6, <3>1, <3>2
  <2> QED
    BY <1>6, <2>1 DEF Ids
<1>9. data[b] = Null /\ data' = [data EXCEPT ![b] = Len(list)]
  BY DEF Publish, References
<1>10. data \in [Block -> Nat \cup {Null}] /\ \A c \in AllOf(Chains) : data[c[1]] # Null /\ c \in Cell
  <2>1. AllOf(Chains) \in SUBSET Cell /\ Counts(data, AllOf(Chains))
    BY QueuesNow
  <2>2. \A c \in AllOf(Chains) : data[c[1]] # Null
    BY <2>1, CountsAllocated
  <2> QED
    BY <2>1, <2>2 DEF Counts
<1>11. \A c \in AllOf(Chains) : c[1] \in Block /\ c[1] # b
  BY <1>9, <1>10 DEF Cell
<1>12. data'[b] # Null
  BY <1>2, <1>9, <1>10, NotificationsAssumption
<1>13. \A c \in AllOf(Chains) : data'[c[1]] # Null
  BY <1>9, <1>10, <1>11
<1>14. \A c \in AllOf(Chains) : subscriptionid'[c] = subscriptionid[c]
  BY <1>6, <1>10, <1>11
<1> QED
  BY <1>2, <1>4, <1>5, <1>7, <1>8, <1>9, <1>11, <1>12, <1>13, <1>14

(* The first k items of the list were notified: h is what is known of the  *)
(* queues, which consist of the cells in ch.                               *)
Knows == [queue : [Holder -> Ends], next : Links, touched : BOOLEAN]

(* One of the first k items is i, and x is who gets it.                    *)
Gets(list, k, x, i) == \E j \in 1..k : list[j] = i /\ HolderOf(i) = x

Reached(list, b, k, h, ch) ==
    /\ h \in Knows
    /\ Apart(h.queue, h.next, ch)
    /\ h.touched = FALSE
    /\ \A x \in Holder : (\A j \in 1..k : HolderOf(list[j]) # x) => h.queue[x] = Queue(x)
    /\ AllOf(ch) = AllOf(Chains) \cup {<<b, j>> : j \in 1..k}
    /\ \A x \in Holder : \A c \in ToSet(ch[x]) :
         c \in ToSet(Chains[x]) \/ \E j \in 1..k : c = <<b, j>> /\ HolderOf(list[j]) = x
    /\ \A x \in Holder : \A i \in Item :
         Brought(subscriptionid', ch[x], i) =
           IF Gets(list, k, x, i) THEN Append(Brought(subscriptionid', Chains[x], i), b)
           ELSE Brought(subscriptionid', Chains[x], i)

(* One more item is notified.                                              *)
LEMMA ReachedNext ==
    ASSUME IInv, NEW list \in Handles, NEW b \in Block, Publish(list, b),
           NEW k \in 1..Len(list), NEW h, NEW ch, Reached(list, b, k - 1, h, ch),
           NEW e, e = Notified(h, list, k, b)
    PROVE  \E new : Reached(list, b, k, e, new)
<1> DEFINE x == HolderOf(list[k])
           c == <<b, k>>
           t == <<c>>
           cx == ch[x] \o t
           new == [ch EXCEPT ![x] = cx]
           ids == subscriptionid'
<1>1. /\ x \in Holder /\ c \in Cell /\ list[k] \in Item /\ ids[c] = list[k]
      /\ ids \in Ids /\ Len(list) \in Nat /\ k \in Nat /\ k - 1 \in Nat
  BY PublishFacts
<1>2. /\ h \in Knows /\ Apart(h.queue, h.next, ch) /\ h.touched = FALSE
      /\ AllOf(ch) = AllOf(Chains) \cup {<<b, j>> : j \in 1..k - 1}
  BY DEF Reached
<1>3. t \in Seq(Cell) /\ t # <<>> /\ Len(t) = 1 /\ t[1] = c /\ ToSet(t) = {c} /\ IsInjective(t)
  <2>1. t \in Seq(Cell) /\ t # <<>> /\ Len(t) = 1 /\ t[1] = c /\ DOMAIN t = 1..1
    BY <1>1
  <2> HIDE DEF t, c
  <2> QED
    BY <2>1 DEF ToSet, IsInjective
<1>4. /\ e.queue = [h.queue EXCEPT ![x] = Appended(h.queue[x], c, c)]
      /\ e.next = Linked(h.next, h.queue[x], c, c)
      /\ e.touched = (h.touched \/ Dangling(data', h.queue[x]))
      /\ e = [queue |-> e.queue, next |-> e.next, touched |-> e.touched]
  BY DEF Notified
<1>5. h.queue \in [Holder -> Ends] /\ h.next \in Links
  BY <1>2 DEF Knows
<1>6. ch \in [Holder -> Seq(Cell)] /\ ch[x] \in Seq(Cell)
  BY <1>1, <1>2 DEF Apart
<1>7. c \notin AllOf(ch)
  <2>1. c \notin AllOf(Chains)
    BY PublishFacts
  <2>2. c \notin {<<b, j>> : j \in 1..k - 1}
    BY <1>1
  <2> QED
    BY <1>2, <2>1, <2>2
<1> HIDE DEF x, c, t
<1>8. IsAppended(h.queue, e.queue, h.next, e.next, ch, new, x, t)
  <2>1. \A j \in 1..Len(t) - 1 : h.next[t[j]] = t[j + 1]
    BY <1>3
  <2>2. \A y \in Holder \ {x} : e.queue[y] = h.queue[y]
    BY <1>4, <1>5
  <2>3. e.queue[x] = Appended(h.queue[x], t[1], t[Len(t)])
    BY <1>1, <1>3, <1>4, <1>5
  <2>4. e.next = Linked(h.next, h.queue[x], t[1], t[Len(t)])
    BY <1>3, <1>4
  <2>5. ToSet(t) \cap AllOf(ch) = {}
    BY <1>3, <1>7
  <2> QED
    BY <1>1, <1>3, <2>1, <2>2, <2>3, <2>4, <2>5 DEF IsAppended
<1>9. e.next \in Links
  BY <1>2, <1>5, <1>8, ApartAppended
<1>10. Apart(e.queue, e.next, new)
  BY <1>2, <1>5, <1>8, ApartAppended
<1>11. AllOf(new) = AllOf(ch) \cup ToSet(t)
  BY <1>2, <1>5, <1>8, ApartAppended
<1>12. AllOf(new) = AllOf(Chains) \cup {<<b, j>> : j \in 1..k}
  <2>1. 1..k = (1..k - 1) \cup {k}
    BY <1>1
  <2>2. {<<b, j>> : j \in 1..k} = {<<b, j>> : j \in 1..k - 1} \cup {c}
    BY <2>1 DEF c
  <2> QED
    BY <1>2, <1>3, <1>11, <2>2
<1>13. e.touched = FALSE
  <2>1. \A d \in AllOf(ch) : data'[d[1]] # Null
    BY <1>2, PublishFacts
  <2>2. h.queue[x].last # Null => h.queue[x].last \in AllOf(ch)
    <3>1. IsQueue(h.queue[x], h.next, ch[x])
      BY <1>1, <1>2 DEF Apart
    <3>2. ch[x] # <<>> => Len(ch[x]) \in 1..Len(ch[x])
      BY <1>6
    <3>3. ch[x] # <<>> => h.queue[x].last \in ToSet(ch[x])
      BY <1>6, <3>1, <3>2, InSequence DEF IsQueue
    <3> QED
      BY <1>1, <1>6, <3>1, <3>3, InAllOf DEF IsQueue
  <2> QED
    BY <1>2, <1>4, <2>1, <2>2 DEF Dangling
<1>14. e \in Knows
  <2>1. \A y \in Holder : e.queue[y] \in Ends
    BY <1>10 DEF Apart
  <2>2. e.queue \in [Holder -> Ends]
    BY <1>4, <1>5, <2>1
  <2> QED
    BY <1>4, <1>9, <1>13, <2>2 DEF Knows
<1>15. cx \in Seq(Cell) /\ ToSet(cx) = ToSet(ch[x]) \cup {c}
  BY <1>3, <1>6, InConcatenation
<1>16. \A i : Brought(ids, cx, i) = Brought(ids, ch[x], i) \o Brought(ids, t, i)
  BY <1>1, <1>3, <1>6, BroughtTogether
<1> HIDE DEF cx
<1>17. new[x] = cx /\ \A y \in Holder \ {x} : new[y] = ch[y]
  BY <1>1, <1>6
<1> HIDE DEF new
<1>18. ASSUME NEW y \in Holder, NEW d \in ToSet(new[y])
       PROVE  d \in ToSet(Chains[y]) \/ \E j \in 1..k : d = <<b, j>> /\ HolderOf(list[j]) = y
  <2>1. \A j \in 1..k - 1 : j \in 1..k
    BY <1>1
  <2>2. CASE d \in ToSet(ch[y])
    <3>1. d \in ToSet(Chains[y]) \/ \E j \in 1..k - 1 : d = <<b, j>> /\ HolderOf(list[j]) = y
      BY <2>2 DEF Reached
    <3> QED
      BY <2>1, <3>1
  <2>3. CASE y = x /\ d = c
    <3>1. k \in 1..k
      BY <1>1
    <3> QED
      BY <2>3, <3>1 DEF x, c
  <2>4. d \in ToSet(ch[y]) \/ (y = x /\ d = c)
    BY <1>15, <1>17, <1>18
  <2> QED
    BY <2>2, <2>3, <2>4
<1>19. ASSUME NEW y \in Holder, \A j \in 1..k : HolderOf(list[j]) # y
       PROVE  e.queue[y] = Queue(y)
  <2>1. k \in 1..k /\ \A j \in 1..k - 1 : j \in 1..k
    BY <1>1
  <2>2. y # x /\ \A j \in 1..k - 1 : HolderOf(list[j]) # y
    BY <1>19, <2>1 DEF x
  <2>3. h.queue[y] = Queue(y)
    BY <2>2 DEF Reached
  <2> QED
    BY <1>4, <1>5, <2>2, <2>3
<1>20. ASSUME NEW y \in Holder, NEW i \in Item
       PROVE  Brought(ids, new[y], i) =
                IF Gets(list, k, y, i) THEN Append(Brought(ids, Chains[y], i), b)
                ELSE Brought(ids, Chains[y], i)
  <2>1. Brought(ids, ch[y], i) =
          IF Gets(list, k - 1, y, i) THEN Append(Brought(ids, Chains[y], i), b)
          ELSE Brought(ids, Chains[y], i)
    BY DEF Reached
  <2>2. Gets(list, k, y, i) <=> Gets(list, k - 1, y, i) \/ (list[k] = i /\ y = x)
    <3>1. 1..k = (1..k - 1) \cup {k}
      BY <1>1
    <3> QED
      BY <3>1 DEF Gets, x
  <2>3. CASE y = x /\ list[k] = i
    <3>1. ~ Gets(list, k - 1, y, i)
      <4>1. ASSUME NEW j \in 1..k - 1, list[j] = i PROVE FALSE
        <5>1. j \in 1..Len(list) /\ k \in 1..Len(list) /\ j # k /\ list[j] = list[k]
          BY <1>1, <2>3, <4>1
        <5>2. IsInjective(list) /\ DOMAIN list = 1..Len(list)
          BY HandleFacts
        <5> QED
          BY <5>1, <5>2 DEF IsInjective
      <4> QED
        BY <4>1 DEF Gets
    <3>2. Brought(ids, t, i) = <<b>>
      <4>1. c[1] = b
        BY DEF c
      <4>2. Brought(ids, <<c>>, i) = IF ids[c] = i THEN <<c[1]>> ELSE <<>>
        BY <1>1, BroughtOne
      <4> QED
        BY <1>1, <2>3, <4>1, <4>2 DEF t
    <3>3. Brought(ids, ch[x], i) \in Seq(Block)
      BY <1>1, <1>6, BroughtIs
    <3>4. Brought(ids, ch[x], i) \o <<b>> = Append(Brought(ids, ch[x], i), b)
      BY <3>3, AppendIsConcat
    <3> QED
      BY <1>16, <1>17, <2>1, <2>2, <2>3, <3>1, <3>2, <3>4
  <2>4. CASE y = x /\ list[k] # i
    <3>1. Brought(ids, t, i) = <<>>
      <4>1. Brought(ids, <<c>>, i) = IF ids[c] = i THEN <<c[1]>> ELSE <<>>
        BY <1>1, BroughtOne
      <4> QED
        BY <1>1, <2>4, <4>1 DEF t
    <3>2. Brought(ids, ch[x], i) \in Seq(Block)
      BY <1>1, <1>6, BroughtIs
    <3>3. Brought(ids, ch[x], i) \o <<>> = Brought(ids, ch[x], i)
      BY <3>2, ConcatEmptySeq
    <3> QED
      BY <1>16, <1>17, <2>1, <2>2, <2>4, <3>1, <3>3
  <2>5. CASE y # x
    BY <1>17, <2>1, <2>2, <2>5
  <2> QED
    BY <2>3, <2>4, <2>5
<1>21. Reached(list, b, k, e, new)
  BY <1>10, <1>12, <1>13, <1>14, <1>18, <1>19, <1>20 DEF Reached
<1> QED
  BY <1>21

(* Notifying goes from what is known of the queues to what is known.       *)
LEMMA NotifiedKnows ==
    ASSUME NEW h \in Knows, NEW list, NEW k, NEW b, HolderOf(list[k]) \in Holder, <<b, k>> \in Cell
    PROVE  Notified(h, list, k, b) \in Knows
<1> DEFINE x == HolderOf(list[k])
           c == <<b, k>>
           q == h.queue[x]
<1>1. h.queue \in [Holder -> Ends] /\ h.next \in Links /\ h.touched \in BOOLEAN
  BY DEF Knows
<1>2. q \in Ends /\ x \in Holder /\ c \in Cell
  BY <1>1
<1>3. Notified(h, list, k, b) = [queue |-> [h.queue EXCEPT ![x] = Appended(q, c, c)],
                                 next |-> Linked(h.next, q, c, c),
                                 touched |-> h.touched \/ Dangling(data', q)]
  BY DEF Notified
<1> HIDE DEF x, c, q
<1>4. Appended(q, c, c) \in Ends
  BY <1>2 DEF Appended, Ends
<1>5. [h.queue EXCEPT ![x] = Appended(q, c, c)] \in [Holder -> Ends]
  BY <1>1, <1>4
<1>6. Linked(h.next, q, c, c) \in Links
  BY <1>1, <1>2 DEF Linked, Links
<1>7. (h.touched \/ Dangling(data', q)) \in BOOLEAN
  BY DEF Dangling
<1> QED
  BY <1>3, <1>5, <1>6, <1>7 DEF Knows

(* The function in AllNotified.                                            *)
LEMMA AllNotifiedIs ==
    ASSUME IInv, NEW list \in Handles, NEW b \in Block, Publish(list, b)
    PROVE  /\ AllNotified(list, b)[0] = [queue |-> Queues, next |-> next, touched |-> FALSE]
           /\ \A k \in 1..Len(list) :
                AllNotified(list, b)[k] = Notified(AllNotified(list, b)[k - 1], list, k, b)
<1> DEFINE n == Len(list)
           start == [queue |-> [x \in Holder |-> Queue(x)], next |-> next, touched |-> FALSE]
           Rec(f) == f = [k \in 0..n |-> IF k = 0 THEN start ELSE Notified(f[k - 1], list, k, b)]
           step == [k \in 1..n |-> [h \in Knows |-> Notified(h, list, k, b)]]
<1>1. n \in Nat /\ \A k \in 1..n : HolderOf(list[k]) \in Holder /\ <<b, k>> \in Cell
  BY PublishFacts
<1>2. \A k \in 1..n : \A h \in Knows : Notified(h, list, k, b) \in Knows
  BY <1>1, NotifiedKnows
<1>3. start \in Knows /\ start = [queue |-> Queues, next |-> next, touched |-> FALSE]
  <2>1. \A x \in Holder : Queue(x) \in Ends
    BY QueuesNow DEF Apart, Queues
  <2>2. [x \in Holder |-> Queue(x)] \in [Holder -> Ends] /\ next \in Links
    BY <2>1, QueuesNow
  <2> QED
    BY <2>2 DEF Knows, Queues
<1>4. AllNotified(list, b) = CHOOSE f : Rec(f)
  BY DEF AllNotified
<1> HIDE DEF n, start
<1>5. step \in [1..n -> [Knows -> Knows]]
  BY <1>2
<1>6. PICK g \in [0..n -> Knows] : Runs(g, n, start, step)
  <2> HIDE DEF step
  <2> QED
    BY <1>1, <1>3, <1>5, Recursion
<1>7. Rec(g)
  <2>1. ASSUME NEW k \in 1..n PROVE g[k] = Notified(g[k - 1], list, k, b)
    <3>1. k - 1 \in 0..n
      BY <1>1
    <3>2. g[k - 1] \in Knows
      BY <3>1
    <3>3. g[k] = step[k][g[k - 1]]
      BY <1>6 DEF Runs
    <3> QED
      BY <3>2, <3>3
  <2>2. g[0] = start
    BY <1>6 DEF Runs
  <2> HIDE DEF step
  <2>3. ASSUME NEW k \in 0..n
        PROVE  g[k] = IF k = 0 THEN start ELSE Notified(g[k - 1], list, k, b)
    <3>1. k = 0 \/ k \in 1..n
      BY <1>1
    <3> QED
      BY <2>1, <2>2, <3>1
  <2>4. g = [k \in 0..n |-> g[k]]
    OBVIOUS
  <2> QED
    BY <2>3, <2>4
<1> DEFINE f == AllNotified(list, b)
<1>8. Rec(f)
  <2> HIDE DEF Rec
  <2> QED
    BY <1>4, <1>7
<1> HIDE DEF f
<1>9. f[0] = start /\ \A k \in 1..n : f[k] = Notified(f[k - 1], list, k, b)
  <2>1. \A k \in 1..n : k \in 0..n /\ k # 0
    BY <1>1
  <2>2. 0 \in 0..n
    BY <1>1
  <2> QED
    BY <1>8, <2>1, <2>2
<1> QED
  BY <1>3, <1>9 DEF f, n

(* Every item of the list is notified.                                     *)
LEMMA AllReached ==
    ASSUME IInv, NEW list \in Handles, NEW b \in Block, Publish(list, b)
    PROVE  \E ch : Reached(list, b, Len(list), AllNotified(list, b)[Len(list)], ch)
<1> DEFINE n == Len(list)
           f == AllNotified(list, b)
           T == {k \in 0..n : \E ch : Reached(list, b, k, f[k], ch)}
<1>1. n \in Nat
  BY PublishFacts
<1>2. /\ f[0] = [queue |-> Queues, next |-> next, touched |-> FALSE]
      /\ \A k \in 1..n : f[k] = Notified(f[k - 1], list, k, b)
  BY AllNotifiedIs
<1> HIDE DEF f, n
<1>3. Reached(list, b, 0, f[0], Chains)
  <2>1. f[0].queue = Queues /\ f[0].next = next /\ f[0].touched = FALSE
    BY <1>2
  <2>2. Apart(Queues, next, Chains) /\ next \in Links
    BY QueuesNow
  <2>3. f[0] \in Knows
    <3>1. \A x \in Holder : Queues[x] \in Ends
      BY <2>2 DEF Apart
    <3>2. Queues \in [Holder -> Ends]
      BY <3>1 DEF Queues
    <3> QED
      BY <1>2, <2>2, <3>2 DEF Knows
  <2>4. \A x \in Holder : Queues[x] = Queue(x)
    BY DEF Queues
  <2>5. {<<b, j>> : j \in 1..0} = {}
    OBVIOUS
  <2>6. AllOf(Chains) = AllOf(Chains) \cup {<<b, j>> : j \in 1..0}
    BY <2>5
  <2>7. \A x, i : ~ Gets(list, 0, x, i)
    BY DEF Gets
  <2> QED
    BY <2>1, <2>2, <2>3, <2>4, <2>6, <2>7 DEF Reached
<1>4. 0 \in T
  BY <1>1, <1>3
<1>5. ASSUME NEW k \in 1..n, k - 1 \in T PROVE k \in T
  <2>1. PICK ch : Reached(list, b, k - 1, f[k - 1], ch)
    BY <1>5
  <2>2. f[k] = Notified(f[k - 1], list, k, b) /\ k \in 1..Len(list)
    BY <1>2 DEF n
  <2>3. \E new : Reached(list, b, k, f[k], new)
    BY <2>1, <2>2, ReachedNext
  <2> QED
    BY <1>1, <2>3
<1>6. \A k \in 0..n : k \in T
  <2> HIDE DEF T
  <2> QED
    BY <1>1, <1>4, <1>5, UpTo
<1>7. \E ch : Reached(list, b, n, f[n], ch)
  BY <1>1, <1>6
<1> QED
  BY <1>7 DEF f, n

(* The queues after a publication.                                         *)
LEMMA PublishQueues ==
    ASSUME IInv, NEW list \in Handles, NEW b \in Block, Publish(list, b)
    PROVE  \E ch, h : /\ Becomes(ch) /\ Reached(list, b, Len(list), h, ch)
                      /\ publish_queue' = [s \in Session |-> Queue(s)']
                      /\ \A r \in Result : IF result[r] = Null THEN result'[r] = Null
                           ELSE result'[r] = [result[r] EXCEPT !.queue = Queue(r)']
                      /\ result' \in [Result -> ResultCell \cup {Null}]
<1> DEFINE n == Len(list)
           h == AllNotified(list, b)[n]
<1>1. PICK ch : Reached(list, b, n, h, ch)
  BY AllReached
<1>2. /\ publish_queue' = [s \in Session |-> h.queue[s]]
      /\ result' = [r \in Result |->
           IF result[r] = Null THEN Null ELSE [result[r] EXCEPT !.queue = h.queue[r]]]
      /\ next' = h.next
      /\ undefined' = h.touched
  BY Zenon DEF Publish, Enqueue
<1> HIDE DEF h
<1>3. /\ h.queue \in [Holder -> Ends] /\ h.next \in Links /\ Apart(h.queue, h.next, ch)
      /\ h.touched = FALSE
      /\ AllOf(ch) = AllOf(Chains) \cup {<<b, j>> : j \in 1..n}
  BY <1>1 DEF Reached, Knows
<1>4. TypeOK /\ ListsAgree
  BY DEF IInv, LinksSound
<1>5. \A r \in Result : r \in Holder /\ h.queue[r] \in Ends
  BY <1>3, HolderFacts
<1>6. ASSUME NEW r \in Result, result[r] # Null
      PROVE  /\ result'[r] \in ResultCell /\ result'[r] # Null /\ result'[r].queue = h.queue[r]
             /\ result'[r] = [result[r] EXCEPT !.queue = h.queue[r]]
  <2> DEFINE q == h.queue[r]
             res == [result[r] EXCEPT !.queue = q]
  <2>1. result'[r] = res
    BY <1>2, <1>6
  <2>2. q \in Ends
    BY <1>5
  <2> HIDE DEF q
  <2>3. /\ result[r].session \in Session \cup {Null}
        /\ result[r].remaining \in 1..MaxAnswers
        /\ result[r].blocked \in SUBSET Item
        /\ result[r] = [session |-> result[r].session, remaining |-> result[r].remaining,
                        blocked |-> result[r].blocked, queue |-> result[r].queue]
    BY <1>4, <1>6, ResultFacts
  <2>4. res = [session |-> result[r].session, remaining |-> result[r].remaining,
               blocked |-> result[r].blocked, queue |-> q]
    BY <2>3
  <2>5. res.queue = q
    BY <2>4
  <2> HIDE DEF res
  <2>6. res \in ResultCell /\ res # Null
    BY <2>2, <2>3, <2>4, NewResultFacts
  <2>7. res = [result[r] EXCEPT !.queue = q]
    BY DEF res
  <2> QED
    BY <2>1, <2>5, <2>6, <2>7, Zenon DEF q
<1>7. ASSUME NEW r \in Result, result[r] = Null PROVE result'[r] = Null /\ h.queue[r] = NoQueue
  <2>1. ASSUME NEW j \in 1..n PROVE HolderOf(list[j]) # r
    <3>1. list[j] \in Item
      BY PublishFacts
    <3>2. owner[list[j]] # r
      BY <1>4, <3>1, HolderFacts DEF TypeOK
    <3>3. BlockedBy(list[j]) = r => list[j] \in Listed(r)
      BY <1>4, <3>1, BlockedByAgrees DEF BlockedAgrees
    <3> QED
      BY <1>7, <3>2, <3>3 DEF HolderOf, Listed
  <2>2. r \in Holder /\ Queue(r) = NoQueue
    BY <1>7, HolderFacts
  <2>3. h.queue[r] = Queue(r)
    BY <1>1, <2>1, <2>2 DEF Reached
  <2> QED
    BY <1>2, <1>7, <2>2, <2>3
<1>8. \A x \in Holder : Queue(x)' = h.queue[x]
  <2>1. \A s \in Session : Queue(s)' = h.queue[s]
    BY <1>2, HolderFactsNext
  <2>2. \A r \in Result : Queue(r)' = h.queue[r]
    BY <1>6, <1>7, HolderFactsNext
  <2> QED
    BY <2>1, <2>2 DEF Holder
<1>9. Apart(Queues', next', ch)
  <2>1. \A x \in Holder : Queues'[x] = h.queue[x]
    BY <1>8 DEF Queues
  <2> QED
    BY <1>2, <1>3, <2>1, ApartFrame
<1>10. Counts(data', AllOf(ch))
  <2> DEFINE L == AllOf(Chains)
             M == AllOf(ch)
             N == {<<b, j>> : j \in 1..n}
  <2>1. L \in SUBSET Cell /\ Counts(data, L)
    BY QueuesNow
  <2>2. /\ n \in Nat /\ n # 0 /\ data[b] = Null /\ data' = [data EXCEPT ![b] = n]
        /\ \A c \in L : c[1] # b
    BY PublishFacts
  <2>3. M = L \cup N
    BY <1>3
  <2> HIDE DEF L, M, n
  <2>4. Of(M, b) = N
    BY <2>2, <2>3 DEF Of
  <2>5. Cardinality(N) = n /\ N # {}
    <3> DEFINE g == [j \in 1..n |-> <<b, j>>]
    <3>1. IsFiniteSet(1..n) /\ Cardinality(1..n) = n
      BY <2>2, Interval
    <3>2. g \in Bijection(1..n, N)
      <4>1. g \in [1..n -> N]
        OBVIOUS
      <4>2. \A j, k \in 1..n : g[j] = g[k] => j = k
        OBVIOUS
      <4>3. \A c \in N : \E j \in 1..n : g[j] = c
        OBVIOUS
      <4> HIDE DEF g, N
      <4> QED
        BY <4>1, <4>2, <4>3 DEF Bijection, Injection, Surjection, IsInjective
    <3>3. 1 \in 1..n
      BY <2>2
    <3>4. ExistsBijection(1..n, N)
      <4> HIDE DEF g, N
      <4> QED
        BY <3>2 DEF ExistsBijection
    <3>5. N # {}
      BY <3>3
    <3> HIDE DEF g, N
    <3> QED
      BY <3>1, <3>4, <3>5, FS_Bijection
  <2>6. \A x \in Block \ {b} : Of(M, x) = Of(L, x)
    BY <2>3 DEF Of
  <2>7. data \in [Block -> Nat \cup {Null}]
    BY <2>1 DEF Counts
  <2>8. data' \in [Block -> Nat \cup {Null}]
    BY <2>2, <2>7
  <2> HIDE DEF N
  <2>9. ASSUME NEW x \in Block
        PROVE  data'[x] = IF Of(M, x) = {} THEN Null ELSE Cardinality(Of(M, x))
    <3>1. CASE x = b
      <4>1. data'[b] = n
        BY <2>2, <2>7
      <4>2. Of(M, b) # {} /\ Cardinality(Of(M, b)) = n
        BY <2>4, <2>5, Zenon
      <4> QED
        BY <3>1, <4>1, <4>2
    <3>2. CASE x # b
      <4>1. data'[x] = data[x]
        BY <2>2, <2>7, <3>2
      <4>2. data[x] = IF Of(L, x) = {} THEN Null ELSE Cardinality(Of(L, x))
        BY <2>1 DEF Counts
      <4>3. Of(M, x) = Of(L, x)
        BY <2>6, <3>2
      <4> QED
        BY <4>1, <4>2, <4>3, Zenon
    <3> QED
      BY <3>1, <3>2
  <2>10. Counts(data', M)
    BY <2>8, <2>9 DEF Counts
  <2> QED
    BY <2>10 DEF M
<1>11. Becomes(ch)
  <2>1. subscriptionid' \in [Cell -> Item \cup {Null}]
    BY PublishFacts DEF Ids
  <2> QED
    BY <1>2, <1>3, <1>9, <1>10, <2>1 DEF Becomes
<1>12. publish_queue' = [s \in Session |-> Queue(s)']
  BY <1>2, <1>8 DEF Holder
<1>13. result' \in [Result -> ResultCell \cup {Null}]
  BY <1>2, <1>6, <1>7
<1>14. \A r \in Result : IF result[r] = Null THEN result'[r] = Null
                         ELSE result'[r] = [result[r] EXCEPT !.queue = Queue(r)']
  BY <1>5, <1>6, <1>7, <1>8
<1> QED
  BY <1>1, <1>11, <1>12, <1>13, <1>14 DEF n
-----------------------------------------------------------------------------
(* Handles.                                                                *)

(* An element that is put behind a sequence.                               *)
LEMMA AppendedFacts ==
    ASSUME NEW S, NEW s \in Seq(S), NEW e \in S
    PROVE  /\ Append(s, e) \in Seq(S)
           /\ ToSet(Append(s, e)) = ToSet(s) \cup {e}
           /\ IsInjective(s) /\ e \notin ToSet(s) => IsInjective(Append(s, e))
<1> DEFINE n == Len(s)
           a == Append(s, e)
<1>1. /\ n \in Nat /\ a \in Seq(S) /\ Len(a) = n + 1
      /\ \A k \in 1..n : a[k] = s[k]
      /\ a[n + 1] = e
  OBVIOUS
<1>2. DOMAIN s = 1..n /\ DOMAIN a = 1..n + 1
  BY <1>1
<1> HIDE DEF n, a
<1>3. \A k \in 1..n + 1 : k \in 1..n \/ k = n + 1
  BY <1>1
<1>4. ToSet(s) = {s[k] : k \in 1..n} /\ ToSet(a) = {a[k] : k \in 1..n + 1}
  BY <1>2 DEF ToSet
<1>5. n + 1 \in 1..n + 1 /\ \A k \in 1..n : k \in 1..n + 1
  BY <1>1
<1>6. ToSet(a) = ToSet(s) \cup {e}
  BY <1>1, <1>3, <1>4, <1>5
<1>7. ASSUME IsInjective(s), e \notin ToSet(s) PROVE IsInjective(a)
  <2>1. \A j, k \in 1..n : s[j] = s[k] => j = k
    BY <1>2, <1>7 DEF IsInjective
  <2>2. \A k \in 1..n : s[k] # e
    BY <1>4, <1>7
  <2>3. \A j, k \in 1..n + 1 : a[j] = a[k] => j = k
    BY <1>1, <1>3, <2>1, <2>2
  <2> QED
    BY <1>2, <2>3 DEF IsInjective
<1> QED
  BY <1>1, <1>6, <1>7 DEF a

(* An element that is put in front of a sequence.                          *)
LEMMA PrependedFacts ==
    ASSUME NEW S, NEW s \in Seq(S), NEW e \in S
    PROVE  /\ <<e>> \o s \in Seq(S)
           /\ ToSet(<<e>> \o s) = ToSet(s) \cup {e}
           /\ IsInjective(s) /\ e \notin ToSet(s) => IsInjective(<<e>> \o s)
<1> DEFINE n == Len(s)
           a == <<e>> \o s
<1>1. /\ n \in Nat /\ a \in Seq(S) /\ Len(a) = n + 1
      /\ \A k \in 1..n : a[k + 1] = s[k]
      /\ a[1] = e
  OBVIOUS
<1>2. DOMAIN s = 1..n /\ DOMAIN a = 1..n + 1
  BY <1>1
<1> HIDE DEF n, a
<1>3. \A k \in 1..n + 1 : k = 1 \/ (k - 1 \in 1..n /\ a[k] = s[k - 1])
  <2>1. ASSUME NEW k \in 1..n + 1, k # 1 PROVE k - 1 \in 1..n /\ a[k] = s[k - 1]
    <3> DEFINE j == k - 1
    <3>1. j \in 1..n /\ j + 1 = k
      BY <1>1, <2>1
    <3> HIDE DEF j
    <3>2. a[j + 1] = s[j]
      BY <1>1, <3>1
    <3> QED
      BY <3>1, <3>2 DEF j
  <2> QED
    BY <2>1
<1>4. ToSet(s) = {s[k] : k \in 1..n} /\ ToSet(a) = {a[k] : k \in 1..n + 1}
  BY <1>2 DEF ToSet
<1>5. 1 \in 1..n + 1 /\ \A k \in 1..n : k + 1 \in 1..n + 1
  BY <1>1
<1>6. ToSet(a) = ToSet(s) \cup {e}
  <2>1. \A x \in ToSet(a) : x \in ToSet(s) \cup {e}
    <3>1. \A k \in 1..n : s[k] \in ToSet(s)
      BY <1>4
    <3>2. \A k \in 1..n + 1 : a[k] \in ToSet(s) \cup {e}
      BY <1>1, <1>3, <3>1
    <3> QED
      BY <1>4, <3>2
  <2>2. e \in ToSet(a)
    BY <1>1, <1>4, <1>5
  <2>3. \A x \in ToSet(s) : x \in ToSet(a)
    <3>1. \A k \in 1..n : a[k + 1] \in ToSet(a)
      BY <1>4, <1>5
    <3> QED
      BY <1>1, <1>4, <3>1
  <2> QED
    BY <2>1, <2>2, <2>3
<1>7. ASSUME IsInjective(s), e \notin ToSet(s) PROVE IsInjective(a)
  <2>1. \A j, k \in 1..n : s[j] = s[k] => j = k
    BY <1>2, <1>7 DEF IsInjective
  <2>2. \A k \in 1..n : s[k] # e
    BY <1>4, <1>7
  <2>3. ASSUME NEW j \in 1..n + 1, NEW k \in 1..n + 1, a[j] = a[k] PROVE j = k
    <3>1. CASE j = 1 \/ k = 1
      BY <1>1, <1>3, <2>2, <2>3, <3>1
    <3>2. CASE j # 1 /\ k # 1
      <4>1. j - 1 = k - 1
        BY <1>3, <2>1, <2>3, <3>2
      <4> QED
        BY <1>1, <4>1
    <3> QED
      BY <3>1, <3>2
  <2> QED
    BY <1>2, <2>3 DEF IsInjective
<1> QED
  BY <1>1, <1>6, <1>7 DEF a

(* g[k] is what is taken of the first k elements of s.                     *)
IsThose(s, S, g) ==
    /\ g[0] = <<>>
    /\ \A k \in 1..Len(s) : g[k] = IF s[k] \in S THEN Append(g[k - 1], s[k]) ELSE g[k - 1]

(* The selection can be made step by step.                                 *)
LEMMA ThoseIs ==
    ASSUME NEW T, NEW s \in Seq(T), NEW S
    PROVE  \E g \in [0..Len(s) -> Seq(T)] : IsThose(s, S, g) /\ Those(s, S) = g[Len(s)]
<1> DEFINE n == Len(s)
           Q == Seq(T)
           Rec(f) == f = [k \in 0..n |->
             IF k = 0 THEN <<>>
             ELSE IF s[k] \in S THEN Append(f[k - 1], s[k]) ELSE f[k - 1]]
           step == [k \in 1..n |-> [o \in Q |-> IF s[k] \in S THEN Append(o, s[k]) ELSE o]]
           f == CHOOSE f : Rec(f)
<1>0. Those(s, S) = f[n]
  BY DEF Those
<1>1. n \in Nat /\ \A k \in 1..n : s[k] \in T
  OBVIOUS
<1>2. \A k \in 1..n : \A o \in Q : (IF s[k] \in S THEN Append(o, s[k]) ELSE o) \in Q
  BY <1>1
<1>3. <<>> \in Q
  OBVIOUS
<1> HIDE DEF Q, n
<1>4. step \in [1..n -> [Q -> Q]]
  BY <1>2
<1>5. PICK g \in [0..n -> Q] : Runs(g, n, <<>>, step)
  <2> HIDE DEF step
  <2> QED
    BY <1>1, <1>3, <1>4, Recursion
<1>6. Rec(g)
  <2>1. ASSUME NEW k \in 1..n
        PROVE  g[k] = IF s[k] \in S THEN Append(g[k - 1], s[k]) ELSE g[k - 1]
    <3>1. k - 1 \in 0..n
      BY <1>1
    <3>2. g[k - 1] \in Q
      BY <3>1
    <3>3. g[k] = step[k][g[k - 1]]
      BY <1>5 DEF Runs
    <3> QED
      BY <3>2, <3>3
  <2>2. g[0] = <<>>
    BY <1>5 DEF Runs
  <2> HIDE DEF step
  <2>3. ASSUME NEW k \in 0..n
        PROVE  g[k] = IF k = 0 THEN <<>>
                      ELSE IF s[k] \in S THEN Append(g[k - 1], s[k]) ELSE g[k - 1]
    <3>1. k = 0 \/ k \in 1..n
      BY <1>1
    <3> QED
      BY <2>1, <2>2, <3>1
  <2>4. g = [k \in 0..n |-> g[k]]
    OBVIOUS
  <2> QED
    BY <2>3, <2>4
<1>7. Rec(f)
  <2> HIDE DEF Rec
  <2> QED
    BY <1>6
<1> HIDE DEF f
<1>8. IsThose(s, S, f)
  <2>1. f[0] = <<>>
    BY <1>1, <1>7
  <2>2. ASSUME NEW k \in 1..n
        PROVE  f[k] = IF s[k] \in S THEN Append(f[k - 1], s[k]) ELSE f[k - 1]
    <3>1. k \in 0..n /\ k # 0
      BY <1>1
    <3> QED
      BY <1>7, <3>1
  <2> QED
    BY <2>1, <2>2 DEF IsThose, n
<1>9. f \in [0..n -> Q]
  <2> DEFINE U == {k \in 0..n : f[k] \in Q}
  <2>1. 0 \in U
    BY <1>1, <1>3, <1>7
  <2>2. ASSUME NEW k \in 1..n, k - 1 \in U PROVE k \in U
    <3>1. k \in 0..n /\ k # 0 /\ f[k - 1] \in Q
      BY <1>1, <2>2
    <3>2. f[k] = IF s[k] \in S THEN Append(f[k - 1], s[k]) ELSE f[k - 1]
      BY <1>7, <3>1
    <3> QED
      BY <1>2, <3>1, <3>2
  <2>3. \A k \in 0..n : k \in U
    <3> HIDE DEF U
    <3> QED
      BY <1>1, <2>1, <2>2, UpTo
  <2>4. \A k \in 0..n : f[k] \in Q
    BY <2>3
  <2> QED
    BY <1>7, <2>4
<1> QED
  BY <1>0, <1>8, <1>9 DEF n, Q

(* What is taken of a sequence are its elements in the set, once each.     *)
LEMMA ThoseFacts ==
    ASSUME NEW T, NEW s \in Seq(T), IsInjective(s), NEW S
    PROVE  /\ Those(s, S) \in Seq(T)
           /\ ToSet(Those(s, S)) = ToSet(s) \cap S
           /\ IsInjective(Those(s, S))
<1>1. PICK g \in [0..Len(s) -> Seq(T)] : IsThose(s, S, g) /\ Those(s, S) = g[Len(s)]
  BY ThoseIs
<1> DEFINE n == Len(s)
           upTo(k) == {s[j] : j \in 1..k}
           Good == {q \in Seq(T) : IsInjective(q)}
           U == {k \in 0..n : g[k] \in Good /\ ToSet(g[k]) = upTo(k) \cap S}
<1>2. /\ n \in Nat /\ DOMAIN s = 1..n
      /\ \A k \in 1..n : s[k] \in T
      /\ \A j, k \in 1..n : s[j] = s[k] => j = k
  BY DEF IsInjective
<1>3. /\ g[0] = <<>>
      /\ \A k \in 1..n : g[k] = IF s[k] \in S THEN Append(g[k - 1], s[k]) ELSE g[k - 1]
  BY <1>1 DEF IsThose
<1> HIDE DEF n
<1>4. 0 \in U
  <2>1. <<>> \in Seq(T) /\ IsInjective(<<>>) /\ ToSet(<<>>) = {} /\ upTo(0) = {}
    BY DEF IsInjective, ToSet
  <2> QED
    BY <1>2, <1>3, <2>1
<1>5. ASSUME NEW k \in 1..n, k - 1 \in U PROVE k \in U
  <2>1. /\ g[k - 1] \in Seq(T) /\ IsInjective(g[k - 1])
        /\ ToSet(g[k - 1]) = upTo(k - 1) \cap S
    BY <1>5
  <2>2. upTo(k) = upTo(k - 1) \cup {s[k]} /\ s[k] \notin upTo(k - 1)
    <3>1. \A j \in 1..k : j = k \/ j \in 1..k - 1
      BY <1>2
    <3>2. k \in 1..k /\ \A j \in 1..k - 1 : j \in 1..k /\ j # k /\ j \in 1..n
      BY <1>2
    <3> QED
      BY <1>2, <3>1, <3>2
  <2>3. k \in 0..n /\ s[k] \in T
    BY <1>2
  <2> HIDE DEF upTo
  <2>4. CASE s[k] \in S
    <3>1. g[k] = Append(g[k - 1], s[k])
      BY <1>3, <2>4
    <3>2. s[k] \notin ToSet(g[k - 1])
      BY <2>1, <2>2
    <3>3. /\ g[k] \in Seq(T) /\ IsInjective(g[k])
          /\ ToSet(g[k]) = ToSet(g[k - 1]) \cup {s[k]}
      BY <2>1, <2>3, <3>1, <3>2, AppendedFacts
    <3> QED
      BY <2>1, <2>2, <2>3, <2>4, <3>3
  <2>5. CASE s[k] \notin S
    BY <1>3, <2>1, <2>2, <2>3, <2>5
  <2> QED
    BY <2>4, <2>5
<1>6. n \in U
  <2> HIDE DEF U
  <2>1. \A k \in 0..n : k \in U
    BY <1>2, <1>4, <1>5, UpTo
  <2> QED
    BY <1>2, <2>1
<1>7. ToSet(s) = upTo(n)
  BY <1>2 DEF ToSet
<1> QED
  BY <1>1, <1>6, <1>7 DEF n

-----------------------------------------------------------------------------
(* The invariant after a step.                                             *)

(* The types of what is not in the memory of the blocks.                   *)
Types ==
    /\ owner \in [Item -> Session]
    /\ publish_handle \in Seq(Item)
    /\ session \in [Session -> {"none", "open"}]
    /\ free_publish_slots \in [Session -> 0..MaxSlots]
    /\ publish_queue \in [Session -> Ends]
    /\ result \in [Result -> ResultCell \cup {Null}]

(* What the invariant says of the lists.                                   *)
LEMMA TypesNow ==
    ASSUME IInv
    PROVE  Types /\ ListsAgree /\ Addressed
BY DEF IInv, LinksSound, TypeOK, Types, Ends

(* Notifications are where they belong when the queues consist of ch.      *)
AddressedWith(ch) ==
    /\ \A s \in Session : \A c \in ToSet(ch[s]) :
         subscriptionid'[c] \in Item /\ owner'[subscriptionid'[c]] = s
    /\ \A r \in Result : result'[r] # Null /\ result'[r].session # Null =>
         \A c \in ToSet(ch[r]) : subscriptionid'[c] \in Listed(r)'
    /\ \A s \in Session : session'[s] = "none" => publish_queue'[s] = NoQueue

(* What has to be shown for a step when it is known what becomes of the    *)
(* queues.                                                                 *)
LEMMA InvariantNext ==
    ASSUME NEW ch, Becomes(ch), Types', ListsAgree', AddressedWith(ch)
    PROVE  IInv'
<1>1. ch \in [Holder -> Seq(Cell)]
  BY DEF Becomes, Apart
<1>2. data' \in [Block -> 1..Cardinality(Item) \cup {Null}]
  <2>1. AllOf(ch) \in SUBSET Cell
    BY <1>1, InAllOf
  <2> QED
    BY <2>1, CountsType DEF Becomes
<1>3. next' \in Links /\ subscriptionid' \in [Cell -> Item \cup {Null}] /\ undefined' = FALSE
  BY DEF Becomes
<1>4. TypeOK'
  BY <1>2, <1>3 DEF Types, TypeOK, Ends, Links
<1>5. /\ \A x \in Holder : Waiting(x)' = ch[x]
      /\ QueuesApart'
      /\ ReferencesCounted'
  BY QueuesLater
<1>6. LinksSound'
  BY <1>3, <1>4, <1>5 DEF LinksSound, NoUseAfterFree
<1>7. Addressed'
  <2>1. \A s \in Session : Waiting(s)' = ch[s]
    BY <1>5, HolderFacts
  <2>2. \A r \in Result : Waiting(r)' = ch[r]
    BY <1>5, HolderFacts
  <2>3. \A s \in Session : \A c \in ToSet(Waiting(s)') :
          subscriptionid'[c] \in Item /\ owner'[subscriptionid'[c]] = s
    BY <2>1 DEF AddressedWith
  <2>4. \A r \in Result : result'[r] # Null /\ result'[r].session # Null =>
          \A c \in ToSet(Waiting(r)') : subscriptionid'[c] \in Listed(r)'
    BY <2>2 DEF AddressedWith
  <2> QED
    BY <2>3, <2>4 DEF Addressed, AddressedWith
<1> QED
  BY <1>5, <1>6, <1>7 DEF IInv

(* Nothing is notified and no notification changes its place.              *)
LEMMA AddressedStill ==
    ASSUME IInv, NEW ch, Becomes(ch), Kept(ch), owner' = owner,
           \A x \in Holder : ToSet(ch[x]) \subseteq ToSet(Chains[x]),
           \A r \in Result : result'[r] # Null /\ result'[r].session # Null =>
             ch[r] = <<>> \/ (result[r] # Null /\ result[r].session # Null
                               /\ Listed(r) \subseteq Listed(r)'),
           \A s \in Session : session'[s] = "none" => publish_queue'[s] = NoQueue
    PROVE  AddressedWith(ch)
<1>1. Addressed
  BY DEF IInv
<1>2. \A x \in Holder : Chains[x] = Waiting(x)
  BY DEF Chains
<1>3. \A x \in Holder : \A c \in ToSet(ch[x]) :
        c \in ToSet(Waiting(x)) /\ subscriptionid'[c] = subscriptionid[c]
  BY <1>2, InAllOf DEF Kept, Becomes, Apart
<1>4. \A s \in Session : \A c \in ToSet(ch[s]) :
        subscriptionid'[c] \in Item /\ owner'[subscriptionid'[c]] = s
  BY <1>1, <1>3, HolderFacts DEF Addressed
<1>5. ASSUME NEW r \in Result, result'[r] # Null, result'[r].session # Null, NEW c \in ToSet(ch[r])
      PROVE  subscriptionid'[c] \in Listed(r)'
  <2>1. ch[r] # <<>>
    BY DEF ToSet
  <2>2. result[r] # Null /\ result[r].session # Null /\ Listed(r) \subseteq Listed(r)'
    BY <1>5, <2>1
  <2>3. r \in Holder
    BY HolderFacts
  <2>4. subscriptionid[c] \in Listed(r)
    BY <1>1, <1>3, <2>2, <2>3 DEF Addressed
  <2> QED
    BY <1>3, <2>2, <2>3, <2>4
<1> QED
  BY <1>4, <1>5 DEF AddressedWith

(* A holder whose queue is empty holds nothing.                            *)
LEMMA NothingWaits ==
    ASSUME IInv, NEW x \in Holder, Queue(x) = NoQueue
    PROVE  Chains[x] = <<>>
<1>1. IsQueue(NoQueue, next, Chains[x]) /\ Chains[x] \in Seq(Cell)
  BY QueuesNow DEF Apart, Queues
<1>2. Chains[x] # <<>> => Chains[x][1] \in Cell /\ Chains[x][1] = Null
  BY <1>1 DEF IsQueue, NoQueue
<1> QED
  BY <1>2, CellFacts

(* Steps that leave the queues, the results, the owners and the handle.    *)
LEMMA SameInvariant ==
    ASSUME IInv, SameQueues, owner' = owner, publish_handle' = publish_handle,
           result' = result, publish_queue' = publish_queue,
           session' \in [Session -> {"none", "open"}],
           free_publish_slots' \in [Session -> 0..MaxSlots],
           \A s \in Session : session[s] = "open" => session'[s] = "open"
    PROVE  IInv'
<1>1. Types /\ ListsAgree /\ Addressed
  BY TypesNow
<1>2. Becomes(Chains) /\ Kept(Chains)
  BY QueuesSame
<1>3. Types'
  BY <1>1 DEF Types
<1>4. \A r \in Result : Listed(r)' = Listed(r)
  BY DEF Listed
<1>5. \A s \in Session : session'[s] = "none" => session[s] = "none"
  BY <1>1 DEF Types
<1>6. ListsAgree'
  <2>1. \A i \in ToSet(publish_handle) : owner[i] \in Session
    BY <1>1, InSequence DEF Types
  <2>2. \A r \in Result : result[r] # Null /\ result[r].session # Null => result[r].session \in Session
    BY ResultFacts DEF IInv, LinksSound
  <2> QED
    BY <1>1, <1>4, <2>1, <2>2 DEF ListsAgree
<1>7. AddressedWith(Chains)
  <2>1. \A s \in Session : session'[s] = "none" => publish_queue'[s] = NoQueue
    BY <1>1, <1>5 DEF Addressed
  <2>2. \A r \in Result : result'[r] # Null /\ result'[r].session # Null =>
          result[r] # Null /\ result[r].session # Null /\ Listed(r) \subseteq Listed(r)'
    BY <1>4
  <2> QED
    BY <1>2, <2>1, <2>2, AddressedStill
<1> QED
  BY <1>2, <1>3, <1>6, <1>7, InvariantNext

(* Initially nothing is linked.                                            *)
LEMMA InitInvariant == Init => IInv
<1> SUFFICES ASSUME Init PROVE IInv
  OBVIOUS
<1> DEFINE none == [x \in Holder |-> <<>>]
<1>1. \A x \in Holder : Queue(x) = NoQueue
  BY HolderFacts DEF Init, Holder
<1>2. next \in Links /\ \A c \in Cell : next[c] = Null
  BY DEF Init, Links
<1>3. <<>> \in Seq(Cell) /\ ToSet(<<>>) = {}
  BY DEF ToSet
<1>4. ASSUME NEW x \in Holder PROVE Waiting(x) = <<>> /\ IsQueue(Queue(x), next, Waiting(x))
  <2>1. IsQueue(NoQueue, next, <<>>)
    BY DEF IsQueue, NoQueue, IsInjective
  <2>2. Chain(next, NoQueue.first) = <<>>
    BY <1>2, <1>3, <2>1, ChainIs
  <2> QED
    BY <1>1, <2>1, <2>2 DEF Waiting
<1>5. LinkedCells = {}
  BY <1>3, <1>4 DEF LinkedCells
<1>6. QueuesApart
  BY <1>3, <1>4, <1>5 DEF QueuesApart
<1>7. TypeOK
  <2>1. owner \in [Item -> Session]
    BY NotificationsAssumption DEF Init
  <2>2. MaxSlots \in 0..MaxSlots
    BY NotificationsAssumption
  <2>3. NoQueue \in Ends
    BY DEF NoQueue, Ends
  <2>4. publish_handle \in Seq(Item) /\ session \in [Session -> {"none", "open"}]
    BY DEF Init
  <2>5. /\ free_publish_slots \in [Session -> 0..MaxSlots]
        /\ publish_queue \in [Session -> Ends]
    BY <2>2, <2>3 DEF Init
  <2>6. /\ result \in [Result -> ResultCell \cup {Null}]
        /\ data \in [Block -> 1..Cardinality(Item) \cup {Null}]
        /\ next \in [Cell -> Cell \cup {Null}]
        /\ subscriptionid \in [Cell -> Item \cup {Null}]
        /\ undefined \in BOOLEAN
    BY DEF Init
  <2> QED
    BY <2>1, <2>4, <2>5, <2>6 DEF TypeOK, Ends
<1>8. ReferencesCounted
  <2>1. \A b \in Block : data[b] = Null /\ {c \in LinkedCells : c[1] = b} = {}
    BY <1>5 DEF Init
  <2> QED
    BY <2>1 DEF ReferencesCounted
<1>9. ListsAgree
  <2>1. \A r \in Result : Listed(r) = {} /\ result[r] = Null
    BY DEF Init, Listed
  <2>2. ToSet(publish_handle) = {} /\ IsInjective(publish_handle)
    BY <1>3 DEF Init, IsInjective
  <2> QED
    BY <2>1, <2>2 DEF ListsAgree
<1>10. Addressed
  BY <1>3, <1>4, HolderFacts DEF Addressed, Init
<1>11. ~undefined
  BY DEF Init
<1> QED
  BY <1>6, <1>7, <1>8, <1>9, <1>10, <1>11 DEF IInv, LinksSound, NoUseAfterFree

(* A new session has an empty queue.                                       *)
LEMMA SessionCreateInvariant ==
    ASSUME IInv, NEW s \in Session, SessionCreate(s)
    PROVE  IInv' /\ SameQueues
<1>1. Types /\ Addressed
  BY TypesNow
<1>2. publish_queue' = publish_queue
  <2>1. publish_queue[s] = NoQueue
    BY <1>1 DEF SessionCreate, Addressed
  <2> QED
    BY <1>1, <2>1 DEF SessionCreate, Types
<1>3. owner' = owner /\ publish_handle' = publish_handle /\ result' = result
  BY DEF SessionCreate
<1>4. SameQueues
  BY <1>2, <1>3 DEF SessionCreate, SameQueues, Queue
<1>5. session' \in [Session -> {"none", "open"}]
  BY <1>1 DEF SessionCreate, Types
<1>6. free_publish_slots' \in [Session -> 0..MaxSlots]
  <2>1. MaxSlots \in 0..MaxSlots
    BY NotificationsAssumption
  <2> QED
    BY <1>1, <2>1 DEF SessionCreate, Types
<1>7. \A q \in Session : session[q] = "open" => session'[q] = "open"
  BY <1>1 DEF SessionCreate, Types
<1> QED
  BY <1>2, <1>3, <1>4, <1>5, <1>6, <1>7, SameInvariant

(* Slots are not beyond what a session starts with.                        *)
LEMMA AddFreePublishSlotsInvariant ==
    ASSUME IInv, NEW s \in Session, AddFreePublishSlots(s)
    PROVE  IInv' /\ SameQueues
<1>1. Types
  BY TypesNow
<1>2. /\ owner' = owner /\ publish_handle' = publish_handle /\ result' = result
      /\ publish_queue' = publish_queue /\ session' = session
  BY DEF AddFreePublishSlots
<1>3. SameQueues
  BY <1>2 DEF AddFreePublishSlots, SameQueues, Queue
<1>4. free_publish_slots' \in [Session -> 0..MaxSlots]
  <2>1. free_publish_slots[s] + 1 \in 0..MaxSlots
    BY <1>1, NotificationsAssumption DEF AddFreePublishSlots, Types
  <2> QED
    BY <1>1, <2>1 DEF AddFreePublishSlots, Types
<1> QED
  BY <1>1, <1>2, <1>3, <1>4, SameInvariant DEF Types

(* A new result lists and holds nothing.                                   *)
LEMMA HandleMessageInvariant ==
    ASSUME IInv, NEW s \in Session, NEW r \in Result, NEW count \in 1..MaxAnswers,
           HandleMessage(s, r, count)
    PROVE  IInv' /\ SameQueues /\ \A q \in Result : Listed(q)' = Listed(q)
<1>1. Types /\ ListsAgree /\ Addressed
  BY TypesNow
<1>2. /\ owner' = owner /\ publish_handle' = publish_handle
      /\ publish_queue' = publish_queue /\ session' = session
      /\ free_publish_slots' = free_publish_slots
      /\ result[r] = Null /\ session[s] = "open"
  BY DEF HandleMessage, clients
<1> DEFINE new == [session |-> s, remaining |-> count, blocked |-> {}, queue |-> NoQueue]
<1>3. result' = [result EXCEPT ![r] = new]
  BY DEF HandleMessage
<1>4. new.session = s /\ new.blocked = {} /\ new.queue = NoQueue
  OBVIOUS
<1>5. new \in ResultCell /\ new # Null
  <2>1. NoQueue \in Ends /\ s \in Session \cup {Null}
    BY DEF NoQueue, Ends
  <2> QED
    BY <2>1, NewResultFacts
<1> HIDE DEF new
<1>6. result'[r] = new /\ \A q \in Result \ {r} : result'[q] = result[q]
  BY <1>1, <1>3 DEF Types
<1>7. result' \in [Result -> ResultCell \cup {Null}]
  BY <1>1, <1>3, <1>5 DEF Types
<1>8. SameQueues
  <2>1. \A q \in Session : Queue(q)' = Queue(q)
    BY <1>2, HolderFacts, HolderFactsNext
  <2>2. \A q \in Result : Queue(q)' = Queue(q)
    BY <1>2, <1>4, <1>5, <1>6, HolderFacts, HolderFactsNext
  <2> QED
    BY <2>1, <2>2 DEF SameQueues, HandleMessage, Holder
<1>9. Becomes(Chains) /\ Kept(Chains)
  BY <1>8, QueuesSame
<1>10. Types'
  BY <1>1, <1>2, <1>7 DEF Types
<1>11. Listed(r)' = {} /\ \A q \in Result \ {r} : Listed(q)' = Listed(q)
  BY <1>4, <1>6 DEF Listed
<1>12. ListsAgree'
  <2>1. IsInjective(publish_handle') /\ \A i \in ToSet(publish_handle') : session'[owner'[i]] = "open"
    BY <1>1, <1>2 DEF ListsAgree
  <2>2. \A q \in Result : result'[q] # Null /\ result'[q].session # Null =>
          session'[result'[q].session] = "open"
    BY <1>1, <1>2, <1>4, <1>6 DEF ListsAgree
  <2>3. \A q \in Result : \A i \in Listed(q)' :
          i \in ToSet(publish_handle') /\ owner'[i] = result'[q].session
    BY <1>1, <1>2, <1>6, <1>11 DEF ListsAgree
  <2>4. \A p, q \in Result : p # q => Listed(p)' \cap Listed(q)' = {}
    BY <1>1, <1>11 DEF ListsAgree
  <2> QED
    BY <2>1, <2>2, <2>3, <2>4 DEF ListsAgree
<1>13. AddressedWith(Chains)
  <2>1. Chains[r] = <<>>
    BY <1>2, HolderFacts, NothingWaits
  <2>2. \A q \in Result : result'[q] # Null /\ result'[q].session # Null =>
          Chains[q] = <<>> \/ (result[q] # Null /\ result[q].session # Null
                                 /\ Listed(q) \subseteq Listed(q)')
    BY <1>6, <1>11, <2>1
  <2>3. \A q \in Session : session'[q] = "none" => publish_queue'[q] = NoQueue
    BY <1>1, <1>2 DEF Addressed
  <2> QED
    BY <1>2, <1>9, <2>2, <2>3, AddressedStill
<1>14. Listed(r) = {}
  BY <1>2 DEF Listed
<1> QED
  BY <1>8, <1>9, <1>10, <1>11, <1>12, <1>13, <1>14, InvariantNext

(* A publish message gives up the front of a queue.                        *)
LEMMA SendPublishInvariant ==
    ASSUME IInv, NEW s \in Session, SendPublish(s)
    PROVE  IInv'
<1>1. Types /\ ListsAgree /\ Addressed
  BY TypesNow
<1>2. PICK u, t \in Seq(Cell) :
        /\ GivesUp(s, u, t)
        /\ u # <<>> /\ Len(u) <= free_publish_slots[s]
        /\ free_publish_slots' = [free_publish_slots EXCEPT ![s] = @ - Len(u)]
        /\ sent' = Notes(subscriptionid, u)
  BY SendPublishQueues
<1>3. /\ owner' = owner /\ publish_handle' = publish_handle
      /\ session' = session /\ result' = result
      /\ session[s] = "open"
  BY DEF SendPublish, Sendable
<1>4. \A q \in Session \ {s} : publish_queue'[q] = publish_queue[q]
  BY <1>2, HolderFacts, HolderFactsNext DEF GivesUp
<1>5. publish_queue' \in [Session -> Ends]
  <2>1. publish_queue'[s] \in Ends
    <3>1. publish_queue'[s] = [first |-> IF t = <<>> THEN Null ELSE t[1],
                              last |-> IF t = <<>> THEN Null ELSE publish_queue[s].last]
      BY <1>2, HolderFacts, HolderFactsNext DEF GivesUp
    <3>2. t # <<>> => t[1] \in Cell
      OBVIOUS
    <3>3. publish_queue[s].last \in Cell \cup {Null}
      BY <1>1 DEF Types, Ends
    <3> QED
      BY <3>1, <3>2, <3>3 DEF Ends
  <2>2. \E cells : publish_queue' = Remaining(s, next[Last(cells)])
    BY DEF SendPublish
  <2>3. DOMAIN publish_queue' = Session /\ publish_queue' = [q \in Session |-> publish_queue'[q]]
    BY <1>1, <2>2 DEF Remaining, Types
  <2>4. \A q \in Session : publish_queue'[q] \in Ends
    BY <1>1, <1>4, <2>1 DEF Types
  <2> QED
    BY <2>3, <2>4
<1>6. free_publish_slots' \in [Session -> 0..MaxSlots]
  <2>1. free_publish_slots[s] \in 0..MaxSlots /\ Len(u) \in Nat /\ MaxSlots \in Nat
    BY <1>1, NotificationsAssumption DEF Types
  <2>2. free_publish_slots[s] - Len(u) \in 0..MaxSlots
    BY <1>2, <2>1
  <2> QED
    BY <1>1, <1>2, <2>2 DEF Types
<1> DEFINE new == [Chains EXCEPT ![s] = t]
<1>7. Becomes(new) /\ Kept(new)
  <2> HIDE DEF new
  <2>1. new = [Chains EXCEPT ![s] = t]
    BY DEF new
  <2> QED
    BY <1>2, <2>1, QueueGivenUp
<1>8. Types'
  BY <1>1, <1>3, <1>5, <1>6 DEF Types
<1>9. \A r \in Result : Listed(r)' = Listed(r)
  BY <1>3 DEF Listed
<1>10. ListsAgree'
  BY <1>1, <1>3, <1>9 DEF ListsAgree
<1>11. \A x \in Holder : ToSet(new[x]) \subseteq ToSet(Chains[x])
  <2>1. s \in Holder /\ Chains \in [Holder -> Seq(Cell)]
    BY HolderFacts, QueuesNow
  <2>2. ToSet(t) \subseteq ToSet(Chains[s])
    BY <1>2, InConcatenation DEF GivesUp
  <2> QED
    BY <2>1, <2>2
<1>12. AddressedWith(new)
  <2>1. \A q \in Session : session'[q] = "none" => publish_queue'[q] = NoQueue
    BY <1>1, <1>3, <1>4 DEF Addressed
  <2>2. \A r \in Result : result'[r] # Null /\ result'[r].session # Null =>
          result[r] # Null /\ result[r].session # Null /\ Listed(r) \subseteq Listed(r)'
    BY <1>3, <1>9
  <2> HIDE DEF new
  <2> QED
    BY <1>3, <1>7, <1>11, <2>1, <2>2, AddressedStill
<1> HIDE DEF new
<1> QED
  BY <1>7, <1>8, <1>10, <1>12, InvariantNext

(* The items of the session leave the handle and its results list nothing. *)
LEMMA SessionDeleteInvariant ==
    ASSUME IInv, NEW s \in Session, SessionDelete(s)
    PROVE  IInv'
<1>1. Types /\ ListsAgree /\ Addressed /\ TypeOK
  BY TypesNow DEF IInv, LinksSound
<1>2. /\ owner' = owner
      /\ session' = [session EXCEPT ![s] = "none"]
      /\ free_publish_slots' = [free_publish_slots EXCEPT ![s] = MaxSlots]
      /\ publish_queue' = [publish_queue EXCEPT ![s] = NoQueue]
      /\ publish_handle' = Those(publish_handle, {i \in Item : owner[i] # s})
  BY DEF SessionDelete
<1> DEFINE new == [Chains EXCEPT ![s] = <<>>]
<1>3. Becomes(new) /\ Kept(new)
  <2> HIDE DEF new
  <2>1. new = [Chains EXCEPT ![s] = <<>>]
    BY DEF new
  <2> QED
    BY <2>1, SessionDeleteQueues
<1>4. \A r \in Result : result[r] = Null => result'[r] = Null
  BY DEF SessionDelete
<1>5. ASSUME NEW r \in Result, result[r] # Null
      PROVE  /\ result'[r] \in ResultCell /\ result'[r] # Null
             /\ result'[r].session = IF result[r].session = s THEN Null ELSE result[r].session
             /\ result'[r].blocked = result[r].blocked
  <2>1. CASE result[r].session = s
    <3>1. result'[r] = [result[r] EXCEPT !.session = Null]
      BY <1>5, <2>1 DEF SessionDelete
    <3>2. /\ result[r].remaining \in 1..MaxAnswers
          /\ result[r].blocked \in SUBSET Item
          /\ result[r].queue \in Ends
          /\ result[r] = [session |-> result[r].session, remaining |-> result[r].remaining,
                          blocked |-> result[r].blocked, queue |-> result[r].queue]
      BY <1>1, <1>5, ResultFacts
    <3>3. result'[r] = [session |-> Null, remaining |-> result[r].remaining,
                        blocked |-> result[r].blocked, queue |-> result[r].queue]
      BY <3>1, <3>2
    <3>4. result'[r] \in ResultCell /\ result'[r] # Null
      BY <3>2, <3>3, NewResultFacts
    <3> QED
      BY <2>1, <3>3, <3>4
  <2>2. CASE result[r].session # s
    <3>1. result'[r] = result[r]
      BY <2>2 DEF SessionDelete
    <3> QED
      BY <1>1, <1>5, <2>2, <3>1 DEF Types
  <2> QED
    BY <2>1, <2>2
<1>6. result' \in [Result -> ResultCell \cup {Null}]
  <2>1. result' = [r \in Result |-> result'[r]]
    BY DEF SessionDelete
  <2>2. \A r \in Result : result'[r] \in ResultCell \cup {Null}
    BY <1>4, <1>5
  <2> QED
    BY <2>1, <2>2
<1>7. /\ publish_handle' \in Seq(Item)
      /\ ToSet(publish_handle') = ToSet(publish_handle) \cap {i \in Item : owner[i] # s}
      /\ IsInjective(publish_handle')
  BY <1>1, <1>2, ThoseFacts DEF Types, ListsAgree
<1>8. Types'
  <2>1. MaxSlots \in 0..MaxSlots /\ NoQueue \in Ends
    BY NotificationsAssumption DEF NoQueue, Ends
  <2>2. /\ session' \in [Session -> {"none", "open"}]
        /\ free_publish_slots' \in [Session -> 0..MaxSlots]
        /\ publish_queue' \in [Session -> Ends]
    BY <1>1, <1>2, <2>1 DEF Types
  <2> QED
    BY <1>1, <1>2, <1>6, <1>7, <2>2 DEF Types
<1>9. \A q \in Session : session'[q] = IF q = s THEN "none" ELSE session[q]
  BY <1>1, <1>2 DEF Types
<1>10. \A r \in Result : Listed(r)' = IF result[r] # Null /\ result[r].session = s THEN {} ELSE Listed(r)
  BY <1>4, <1>5 DEF Listed
<1>11. ListsAgree'
  <2>1. ASSUME NEW i \in ToSet(publish_handle') PROVE session'[owner'[i]] = "open"
    <3>1. i \in ToSet(publish_handle) /\ i \in Item /\ owner[i] # s
      BY <1>7
    <3>2. owner[i] \in Session
      BY <1>1, <3>1 DEF Types
    <3> QED
      BY <1>1, <1>2, <1>9, <3>1, <3>2 DEF ListsAgree
  <2>2. ASSUME NEW r \in Result, result'[r] # Null, result'[r].session # Null
        PROVE  session'[result'[r].session] = "open"
    <3>1. result[r] # Null
      BY <1>4, <2>2
    <3>2. result'[r].session = result[r].session /\ result[r].session # s
      BY <1>5, <2>2, <3>1
    <3>3. result[r].session \in Session
      BY <1>1, <2>2, <3>1, <3>2, ResultFacts
    <3> QED
      BY <1>1, <1>9, <2>2, <3>1, <3>2, <3>3 DEF ListsAgree
  <2>3. ASSUME NEW r \in Result, NEW i \in Listed(r)'
        PROVE  i \in ToSet(publish_handle') /\ owner'[i] = result'[r].session
    <3>1. i \in Listed(r) /\ ~ (result[r] # Null /\ result[r].session = s)
      BY <1>10, <2>3
    <3>2. result[r] # Null /\ result[r].session # s
      BY <3>1 DEF Listed
    <3>3. i \in ToSet(publish_handle) /\ owner[i] = result[r].session
      BY <1>1, <3>1 DEF ListsAgree
    <3>4. i \in Item
      BY <1>1, <3>3, InSequence DEF Types
    <3> QED
      BY <1>2, <1>5, <1>7, <3>2, <3>3, <3>4
  <2>4. \A p, q \in Result : p # q => Listed(p)' \cap Listed(q)' = {}
    <3>1. \A p \in Result : Listed(p)' \subseteq Listed(p)
      BY <1>10
    <3> QED
      BY <1>1, <3>1 DEF ListsAgree
  <2> QED
    BY <1>7, <2>1, <2>2, <2>3, <2>4 DEF ListsAgree
<1>12. \A x \in Holder : ToSet(new[x]) \subseteq ToSet(Chains[x])
  <2>1. s \in Holder /\ Chains \in [Holder -> Seq(Cell)] /\ ToSet(<<>>) = {}
    BY HolderFacts, QueuesNow DEF ToSet
  <2> QED
    BY <2>1
<1>13. AddressedWith(new)
  <2>1. ASSUME NEW q \in Session, session'[q] = "none" PROVE publish_queue'[q] = NoQueue
    BY <1>1, <1>2, <1>9, <2>1 DEF Addressed, Types
  <2>2. ASSUME NEW r \in Result, result'[r] # Null, result'[r].session # Null
        PROVE  result[r] # Null /\ result[r].session # Null /\ Listed(r) \subseteq Listed(r)'
    <3>1. result[r] # Null
      BY <1>4, <2>2
    <3>2. result'[r].session = result[r].session /\ result[r].session # s
      BY <1>5, <2>2, <3>1
    <3> QED
      BY <1>10, <2>2, <3>1, <3>2
  <2> HIDE DEF new
  <2> QED
    BY <1>2, <1>3, <1>12, <2>1, <2>2, AddressedStill
<1> HIDE DEF new
<1> QED
  BY <1>3, <1>8, <1>11, <1>13, InvariantNext

(* No result lists an item that leaves the handle.                         *)
LEMMA UnsubscribeInvariant ==
    ASSUME IInv, NEW i \in Item, Unsubscribe(i)
    PROVE  IInv' /\ SameQueues
<1>1. Types /\ ListsAgree /\ Addressed /\ TypeOK
  BY TypesNow DEF IInv, LinksSound
<1>2. /\ owner' = owner /\ session' = session /\ result' = result
      /\ publish_queue' = publish_queue /\ free_publish_slots' = free_publish_slots
      /\ publish_handle' = Those(publish_handle, Item \ {i})
      /\ BlockedBy(i) = Null
  BY DEF Unsubscribe
<1>3. SameQueues
  BY <1>2 DEF Unsubscribe, SameQueues, Queue
<1>4. Becomes(Chains) /\ Kept(Chains)
  BY <1>3, QueuesSame
<1>5. /\ publish_handle' \in Seq(Item)
      /\ ToSet(publish_handle') = ToSet(publish_handle) \cap (Item \ {i})
      /\ IsInjective(publish_handle')
  BY <1>1, <1>2, ThoseFacts DEF Types, ListsAgree
<1>6. Types'
  BY <1>1, <1>2, <1>5 DEF Types
<1>7. \A r \in Result : Listed(r)' = Listed(r)
  BY <1>2 DEF Listed
<1>8. \A r \in Result : i \notin Listed(r)
  BY <1>1, <1>2, BlockedByAgrees, NotificationsAssumption DEF BlockedAgrees
<1>9. ListsAgree'
  <2>1. ASSUME NEW r \in Result, NEW j \in Listed(r)
        PROVE  j \in ToSet(publish_handle') /\ owner'[j] = result'[r].session
    <3>1. j \in ToSet(publish_handle) /\ owner[j] = result[r].session /\ j # i
      BY <1>1, <1>8 DEF ListsAgree
    <3>2. j \in Item
      BY <1>1, <3>1, InSequence DEF Types
    <3> QED
      BY <1>2, <1>5, <3>1, <3>2
  <2>2. \A j \in ToSet(publish_handle') : session'[owner'[j]] = "open"
    BY <1>1, <1>2, <1>5 DEF ListsAgree
  <2> QED
    BY <1>1, <1>2, <1>5, <1>7, <2>1, <2>2 DEF ListsAgree
<1>10. AddressedWith(Chains)
  <2>1. \A q \in Session : session'[q] = "none" => publish_queue'[q] = NoQueue
    BY <1>1, <1>2 DEF Addressed
  <2>2. \A r \in Result : result'[r] # Null /\ result'[r].session # Null =>
          result[r] # Null /\ result[r].session # Null /\ Listed(r) \subseteq Listed(r)'
    BY <1>2, <1>7
  <2> QED
    BY <1>2, <1>4, <2>1, <2>2, AddressedStill
<1> QED
  BY <1>3, <1>4, <1>6, <1>9, <1>10, InvariantNext

(* What an answer does to the lists of items: result r may list more of    *)
(* them than before, items of its session that are in the handle and that  *)
(* no other result lists.                                                  *)
Announces(r, blocked) ==
    /\ UNCHANGED <<owner, session, free_publish_slots>>
    /\ publish_handle' \in Seq(Item) /\ IsInjective(publish_handle')
    /\ ToSet(publish_handle) \subseteq ToSet(publish_handle')
    /\ \A i \in ToSet(publish_handle') : session[owner[i]] = "open"
    /\ blocked \in SUBSET Item
    /\ result[r].blocked \subseteq blocked
    /\ result[r].session # Null =>
         /\ \A i \in blocked : i \in ToSet(publish_handle') /\ owner[i] = result[r].session
         /\ \A q \in Result \ {r} : Listed(q) \cap blocked = {}

(* The result is gone.                                                     *)
LEMMA ListsAfterLast ==
    ASSUME IInv, NEW r \in Result, NEW blocked, Announces(r, blocked),
           result' = [result EXCEPT ![r] = Null]
    PROVE  /\ ListsAgree'
           /\ result' \in [Result -> ResultCell \cup {Null}]
           /\ result'[r] = Null
           /\ \A q \in Result \ {r} : result'[q] = result[q] /\ Listed(q)' = Listed(q)
<1>1. Types /\ ListsAgree
  BY TypesNow
<1>2. /\ result' \in [Result -> ResultCell \cup {Null}]
      /\ result'[r] = Null
      /\ \A q \in Result \ {r} : result'[q] = result[q]
  BY <1>1 DEF Types
<1>3. Listed(r)' = {} /\ \A q \in Result \ {r} : Listed(q)' = Listed(q)
  BY <1>2 DEF Listed
<1>4. \A q \in Result : \A i \in Listed(q)' :
        i \in ToSet(publish_handle') /\ owner'[i] = result'[q].session
  BY <1>1, <1>2, <1>3 DEF ListsAgree, Announces
<1>5. \A p, q \in Result : p # q => Listed(p)' \cap Listed(q)' = {}
  BY <1>1, <1>3 DEF ListsAgree
<1>6. \A q \in Result : result'[q] # Null /\ result'[q].session # Null =>
        session'[result'[q].session] = "open"
  BY <1>1, <1>2 DEF ListsAgree, Announces
<1> QED
  BY <1>2, <1>3, <1>4, <1>5, <1>6 DEF ListsAgree, Announces

(* The answer is not the last one.                                         *)
LEMMA StaysInvariant ==
    ASSUME IInv, NEW r \in Result, result[r] # Null, NEW blocked, Announces(r, blocked),
           Stays(r, blocked)
    PROVE  /\ IInv' /\ SameQueues
           /\ Listed(r)' = IF result[r].session = Null THEN {} ELSE blocked
           /\ \A q \in Result \ {r} : Listed(q)' = Listed(q)
<1>1. Types /\ ListsAgree /\ Addressed
  BY TypesNow
<1>2. /\ SameQueues
      /\ result'[r] \in ResultCell /\ result'[r] # Null
      /\ result'[r].session = result[r].session /\ result'[r].blocked = blocked
      /\ \A q \in Result \ {r} : result'[q] = result[q]
      /\ result' \in [Result -> ResultCell \cup {Null}]
  BY StaysQueues DEF Announces
<1>3. publish_queue' = publish_queue
  BY DEF Stays
<1>4. Becomes(Chains) /\ Kept(Chains)
  BY <1>2, QueuesSame
<1>5. Types'
  BY <1>1, <1>2, <1>3 DEF Types, Announces
<1>6. /\ Listed(r)' = IF result[r].session = Null THEN {} ELSE blocked
      /\ \A q \in Result \ {r} : Listed(q)' = Listed(q)
  BY <1>2 DEF Listed
<1>7. Listed(r) = IF result[r].session = Null THEN {} ELSE result[r].blocked
  BY DEF Listed
<1>8. ListsAgree'
  <2>1. ASSUME NEW q \in Result, NEW i \in Listed(q)'
        PROVE  i \in ToSet(publish_handle') /\ owner'[i] = result'[q].session
    <3>1. CASE q = r
      BY <1>2, <1>6, <2>1, <3>1 DEF Announces
    <3>2. CASE q # r
      BY <1>1, <1>2, <1>6, <2>1, <3>2 DEF ListsAgree, Announces
    <3> QED
      BY <3>1, <3>2
  <2>2. ASSUME NEW p \in Result, NEW q \in Result, p # q PROVE Listed(p)' \cap Listed(q)' = {}
    <3>1. CASE p = r
      BY <1>6, <2>2, <3>1 DEF Announces
    <3>2. CASE q = r
      BY <1>6, <2>2, <3>2 DEF Announces
    <3>3. CASE p # r /\ q # r
      BY <1>1, <1>6, <2>2, <3>3 DEF ListsAgree
    <3> QED
      BY <3>1, <3>2, <3>3
  <2>3. \A q \in Result : result'[q] # Null /\ result'[q].session # Null =>
          session'[result'[q].session] = "open"
    BY <1>1, <1>2 DEF ListsAgree, Announces
  <2> QED
    BY <2>1, <2>2, <2>3 DEF ListsAgree, Announces
<1>9. AddressedWith(Chains)
  <2>1. \A q \in Session : session'[q] = "none" => publish_queue'[q] = NoQueue
    BY <1>1, <1>3 DEF Addressed, Announces
  <2>2. \A q \in Result : result'[q] # Null /\ result'[q].session # Null =>
          result[q] # Null /\ result[q].session # Null /\ Listed(q) \subseteq Listed(q)'
    BY <1>2, <1>6, <1>7 DEF Announces
  <2> QED
    BY <1>4, <2>1, <2>2, AddressedStill DEF Announces
<1> QED
  BY <1>2, <1>4, <1>5, <1>6, <1>8, <1>9, InvariantNext

(* It is the last one, and what the result holds is given up.              *)
LEMMA DropsInvariant ==
    ASSUME IInv, NEW r \in Result, result[r] # Null, NEW blocked, Announces(r, blocked),
           Drops(r)
    PROVE  IInv'
<1>1. Types /\ ListsAgree /\ Addressed
  BY TypesNow
<1>2. /\ ListsAgree'
      /\ result' \in [Result -> ResultCell \cup {Null}]
      /\ result'[r] = Null
      /\ \A q \in Result \ {r} : result'[q] = result[q] /\ Listed(q)' = Listed(q)
  BY ListsAfterLast DEF Drops
<1>3. publish_queue' = publish_queue
  BY DEF Drops
<1> DEFINE new == [Chains EXCEPT ![r] = <<>>]
<1>4. Becomes(new) /\ Kept(new)
  <2> HIDE DEF new
  <2>1. new = [Chains EXCEPT ![r] = <<>>]
    BY DEF new
  <2> QED
    BY <2>1, DropsQueues
<1>5. Types'
  BY <1>1, <1>2, <1>3 DEF Types, Announces
<1>6. \A x \in Holder : ToSet(new[x]) \subseteq ToSet(Chains[x])
  <2>1. Chains \in [Holder -> Seq(Cell)] /\ ToSet(<<>>) = {}
    BY QueuesNow DEF ToSet
  <2> QED
    BY <2>1
<1>7. AddressedWith(new)
  <2>1. \A q \in Session : session'[q] = "none" => publish_queue'[q] = NoQueue
    BY <1>1, <1>3 DEF Addressed, Announces
  <2>2. \A q \in Result : result'[q] # Null /\ result'[q].session # Null =>
          result[q] # Null /\ result[q].session # Null /\ Listed(q) \subseteq Listed(q)'
    BY <1>2
  <2> HIDE DEF new
  <2> QED
    BY <1>4, <1>6, <2>1, <2>2, AddressedStill DEF Announces
<1> HIDE DEF new
<1> QED
  BY <1>2, <1>4, <1>5, <1>7, InvariantNext

(* It is the last one, and what the result holds goes to the session.      *)
LEMMA SplicesInvariant ==
    ASSUME IInv, NEW r \in Result, result[r] # Null, NEW blocked, Announces(r, blocked),
           NEW s \in Session, Splices(r, s)
    PROVE  IInv'
<1>1. Types /\ ListsAgree /\ Addressed
  BY TypesNow
<1>2. /\ ListsAgree'
      /\ result' \in [Result -> ResultCell \cup {Null}]
      /\ result'[r] = Null
      /\ \A q \in Result \ {r} : result'[q] = result[q] /\ Listed(q)' = Listed(q)
  BY ListsAfterLast DEF Splices
<1>3. result[r].session = s /\ s # Null /\ session[s] = "open"
  BY <1>1, HolderFacts DEF Splices, ListsAgree
<1> DEFINE new == [Chains EXCEPT ![r] = <<>>, ![s] = Waiting(s) \o Waiting(r)]
<1>4. Becomes(new) /\ Kept(new)
  <2> HIDE DEF new
  <2>1. new = [Chains EXCEPT ![r] = <<>>, ![s] = Waiting(s) \o Waiting(r)]
    BY DEF new
  <2> QED
    BY <2>1, SplicesQueues
<1>5. /\ s \in Holder /\ r \in Holder /\ r # s /\ Chains \in [Holder -> Seq(Cell)]
      /\ Waiting(s) \in Seq(Cell) /\ Waiting(r) \in Seq(Cell)
  <2>1. /\ s \in Holder /\ r \in Holder /\ r # s /\ Chains \in [Holder -> Seq(Cell)]
    BY HolderFacts, QueuesNow
  <2> QED
    BY <2>1 DEF Chains
<1>6. /\ new[r] = <<>> /\ new[s] = Waiting(s) \o Waiting(r)
      /\ \A x \in Holder \ {r, s} : new[x] = Waiting(x)
  <2> DEFINE w == Waiting(s) \o Waiting(r)
             m == [Chains EXCEPT ![r] = <<>>]
  <2> HIDE DEF w
  <2>1. m[r] = <<>> /\ DOMAIN m = Holder /\ \A x \in Holder \ {r} : m[x] = Chains[x]
    BY <1>5
  <2> HIDE DEF m
  <2>2. new = [m EXCEPT ![s] = w]
    BY DEF m, w
  <2>3. [m EXCEPT ![s] = w][r] = <<>> /\ [m EXCEPT ![s] = w][s] = w
    BY <1>5, <2>1
  <2>4. \A x \in Holder \ {r, s} : [m EXCEPT ![s] = w][x] = Chains[x]
    BY <1>5, <2>1
  <2>5. \A x \in Holder \ {r, s} : Chains[x] = Waiting(x)
    BY DEF Chains
  <2> HIDE DEF new
  <2> QED
    BY <2>2, <2>3, <2>4, <2>5 DEF w
<1>7. publish_queue' \in [Session -> Ends]
  <2>1. /\ new[s] \in Seq(Cell) /\ publish_queue'[s] \in Ends
    <3>1. Queues'[s] \in Ends /\ new[s] \in Seq(Cell)
      <4> HIDE DEF new
      <4> QED
        BY <1>4, <1>5 DEF Becomes, Apart
    <3>2. Queues'[s] = publish_queue'[s]
      BY <1>5, HolderFactsNext DEF Queues
    <3> QED
      BY <3>1, <3>2
  <2> DEFINE q == Appended(Queue(s), Queue(r).first, Queue(r).last)
  <2>2. publish_queue' = [publish_queue EXCEPT ![s] = q]
    BY DEF Splices
  <2> HIDE DEF q, new
  <2>3. q \in Ends
    BY <1>1, <2>1, <2>2 DEF Types
  <2> QED
    BY <1>1, <2>2, <2>3 DEF Types
<1>8. Types'
  BY <1>1, <1>2, <1>7 DEF Types, Announces
<1>9. \A q \in Session \ {s} : publish_queue'[q] = publish_queue[q]
  BY <1>1 DEF Splices, Types
<1>10. subscriptionid' = subscriptionid
  BY DEF Splices
<1>11. ASSUME NEW q \in Session, NEW c \in ToSet(new[q])
       PROVE  subscriptionid'[c] \in Item /\ owner'[subscriptionid'[c]] = q
  <2>1. CASE q # s
    <3>1. q \in Holder \ {r, s}
      BY <2>1, HolderFacts
    <3>2. c \in ToSet(Waiting(q))
      <4> HIDE DEF new
      <4> QED
        BY <1>6, <3>1
    <3> QED
      BY <1>1, <1>10, <3>2 DEF Addressed, Announces
  <2>2. CASE q = s
    <3>1. c \in ToSet(Waiting(s)) \cup ToSet(Waiting(r))
      <4>1. c \in ToSet(Waiting(s) \o Waiting(r))
        <5> HIDE DEF new
        <5> QED
          BY <1>6, <2>2, Zenon
      <4>2. ToSet(Waiting(s) \o Waiting(r)) = ToSet(Waiting(s)) \cup ToSet(Waiting(r))
        BY <1>5, InConcatenation
      <4> QED
        BY <4>1, <4>2, Zenon
    <3>2. CASE c \in ToSet(Waiting(s))
      BY <1>1, <1>10, <2>2, <3>2 DEF Addressed, Announces
    <3>3. CASE c \in ToSet(Waiting(r))
      <4>1. subscriptionid[c] \in Listed(r)
        BY <1>1, <1>3, <3>3 DEF Addressed
      <4>2. subscriptionid[c] \in ToSet(publish_handle) /\ owner[subscriptionid[c]] = s
        BY <1>1, <1>3, <4>1 DEF ListsAgree
      <4>3. subscriptionid[c] \in Item
        BY <1>1, <4>2, InSequence DEF Types
      <4> QED
        BY <1>10, <2>2, <4>2, <4>3 DEF Announces
    <3> QED
      BY <3>1, <3>2, <3>3
  <2> QED
    BY <2>1, <2>2
<1>12. ASSUME NEW q \in Result, result'[q] # Null, result'[q].session # Null, NEW c \in ToSet(new[q])
       PROVE  subscriptionid'[c] \in Listed(q)'
  <2>1. q # r /\ q \in Holder \ {r, s}
    BY <1>2, <1>12, HolderFacts
  <2>2. c \in ToSet(Waiting(q))
    <3> HIDE DEF new
    <3> QED
      BY <1>6, <1>12, <2>1
  <2> QED
    BY <1>1, <1>2, <1>10, <1>12, <2>1, <2>2 DEF Addressed
<1>13. ASSUME NEW q \in Session, session'[q] = "none" PROVE publish_queue'[q] = NoQueue
  <2>1. session[q] = "none" /\ q # s
    BY <1>3, <1>13 DEF Announces
  <2> QED
    BY <1>1, <1>9, <2>1 DEF Addressed
<1> HIDE DEF new
<1>14. AddressedWith(new)
  BY <1>11, <1>12, <1>13 DEF AddressedWith
<1> QED
  BY <1>2, <1>4, <1>8, <1>14, InvariantNext

(* Any answer.                                                             *)
LEMMA AnswerInvariant ==
    ASSUME IInv, NEW r \in Result, result[r] # Null, NEW blocked, Announces(r, blocked),
           Answer(r, blocked)
    PROVE  IInv'
<1>1. Stays(r, blocked) \/ Drops(r) \/ \E s \in Session : Splices(r, s)
  BY AnswerOutcomes
<1> QED
  BY <1>1, StaysInvariant, DropsInvariant, SplicesInvariant

(* Answers that accept no subscribe list nothing new.                      *)
LEMMA ReturnAnnounces ==
    ASSUME IInv, NEW r \in Result, Return(r)
    PROVE  result[r] # Null /\ Announces(r, result[r].blocked)
<1>1. Types /\ ListsAgree /\ TypeOK
  BY TypesNow DEF IInv, LinksSound
<1>2. result[r] # Null /\ UNCHANGED clients
  BY DEF Return
<1>3. result[r].blocked \in SUBSET Item
  BY <1>1, <1>2, ResultFacts
<1>4. ASSUME result[r].session # Null
      PROVE  /\ \A i \in result[r].blocked : /\ i \in ToSet(publish_handle)
                                             /\ owner[i] = result[r].session
             /\ \A q \in Result \ {r} : Listed(q) \cap result[r].blocked = {}
  <2>1. Listed(r) = result[r].blocked
    BY <1>2, <1>4 DEF Listed
  <2> QED
    BY <1>1, <2>1 DEF ListsAgree
<1>5. publish_handle' = publish_handle /\ UNCHANGED <<owner, session, free_publish_slots>>
  BY <1>2 DEF clients
<1> QED
  BY <1>1, <1>2, <1>3, <1>4, <1>5 DEF Announces, Types, ListsAgree

(* An accepted item is new in the handle and in one list.                  *)
LEMMA AcceptAnnounces ==
    ASSUME IInv, NEW i \in Item, NEW r \in Result, Accept(i, r)
    PROVE  result[r] # Null /\ Announces(r, result[r].blocked \cup {i})
<1>1. Types /\ ListsAgree /\ TypeOK
  BY TypesNow DEF IInv, LinksSound
<1>2. /\ result[r] # Null /\ result[r].session = owner[i]
      /\ i \notin ToSet(publish_handle)
      /\ publish_handle' = <<i>> \o publish_handle
      /\ UNCHANGED <<owner, session, free_publish_slots>>
  BY DEF Accept
<1>3. result[r].blocked \in SUBSET Item
  BY <1>1, <1>2, ResultFacts
<1>4. owner[i] \in Session /\ owner[i] # Null
  BY <1>1, HolderFacts DEF Types
<1>5. /\ publish_handle' \in Seq(Item) /\ IsInjective(publish_handle')
      /\ ToSet(publish_handle') = ToSet(publish_handle) \cup {i}
  <2> DEFINE h == <<i>> \o publish_handle
  <2>1. h \in Seq(Item) /\ IsInjective(h) /\ ToSet(h) = ToSet(publish_handle) \cup {i}
    BY <1>1, <1>2, PrependedFacts DEF Types, ListsAgree
  <2> HIDE DEF h
  <2>2. publish_handle' = h
    BY <1>2 DEF h
  <2> QED
    BY <2>1, <2>2
<1>6. \A j \in ToSet(publish_handle') : session[owner[j]] = "open"
  BY <1>1, <1>2, <1>4, <1>5 DEF ListsAgree
<1>7. Listed(r) = result[r].blocked
  BY <1>2, <1>4 DEF Listed
<1>8. \A j \in result[r].blocked \cup {i} :
        j \in ToSet(publish_handle') /\ owner[j] = result[r].session
  BY <1>1, <1>2, <1>5, <1>7 DEF ListsAgree
<1>9. \A q \in Result \ {r} : Listed(q) \cap (result[r].blocked \cup {i}) = {}
  BY <1>1, <1>2, <1>7 DEF ListsAgree
<1> QED
  BY <1>2, <1>3, <1>5, <1>6, <1>8, <1>9 DEF Announces

(* The cells of a new block are linked where their items belong.           *)
LEMMA PublishInvariant ==
    ASSUME IInv, NEW list \in Handles, NEW b \in Block, Publish(list, b)
    PROVE  IInv' /\ \A r \in Result : Listed(r)' = Listed(r)
<1>1. Types /\ ListsAgree /\ Addressed /\ TypeOK /\ BlockedAgrees
  BY TypesNow, BlockedByAgrees DEF IInv, LinksSound
<1>2. PICK ch, h : /\ Becomes(ch) /\ Reached(list, b, Len(list), h, ch)
                   /\ publish_queue' = [s \in Session |-> Queue(s)']
                   /\ \A r \in Result : IF result[r] = Null THEN result'[r] = Null
                        ELSE result'[r] = [result[r] EXCEPT !.queue = Queue(r)']
                   /\ result' \in [Result -> ResultCell \cup {Null}]
  BY PublishQueues
<1>3. /\ owner' = owner /\ publish_handle' = publish_handle /\ session' = session
      /\ free_publish_slots' = free_publish_slots
  BY DEF Publish, clients
<1>4. /\ \A k \in 1..Len(list) : /\ list[k] \in Item
                                 /\ subscriptionid'[<<b, k>>] = list[k]
      /\ \A c \in AllOf(Chains) : subscriptionid'[c] = subscriptionid[c]
  BY PublishFacts
<1>5. \A k \in 1..Len(list) : list[k] \in ToSet(publish_handle)
  <2>1. list \in Seq(Item) /\ ToSet(list) \subseteq ToSet(publish_handle)
    BY HandleFacts
  <2>2. \A k \in 1..Len(list) : list[k] \in ToSet(list)
    BY <2>1, InSequence
  <2> QED
    BY <2>1, <2>2
<1>6. ASSUME NEW r \in Result, result[r] # Null
      PROVE  /\ result'[r] # Null /\ result'[r].session = result[r].session
             /\ result'[r].blocked = result[r].blocked
  <2> DEFINE q == Queue(r)'
  <2>1. result'[r] = [result[r] EXCEPT !.queue = q]
    BY <1>2, <1>6
  <2>2. q \in Ends
    <3>1. Queues'[r] \in Ends /\ Queues'[r] = q
      BY <1>2, HolderFacts DEF Becomes, Apart, Queues
    <3> QED
      BY <3>1
  <2> HIDE DEF q
  <2>3. /\ result[r].session \in Session \cup {Null}
        /\ result[r].remaining \in 1..MaxAnswers
        /\ result[r].blocked \in SUBSET Item
        /\ result[r] = [session |-> result[r].session, remaining |-> result[r].remaining,
                        blocked |-> result[r].blocked, queue |-> result[r].queue]
    BY <1>1, <1>6, ResultFacts
  <2>4. result'[r] = [session |-> result[r].session, remaining |-> result[r].remaining,
                      blocked |-> result[r].blocked, queue |-> q]
    BY <2>1, <2>3
  <2>5. result'[r] # Null
    BY <2>2, <2>3, <2>4, NewResultFacts
  <2> QED
    BY <2>4, <2>5
<1>7. \A r \in Result : result[r] = Null => result'[r] = Null
  BY <1>2
<1>8. \A r \in Result : Listed(r)' = Listed(r)
  BY <1>6, <1>7 DEF Listed
<1>9. publish_queue' \in [Session -> Ends]
  <2>1. \A s \in Session : Queue(s)' \in Ends
    BY <1>2, HolderFacts DEF Becomes, Apart, Queues
  <2> QED
    BY <1>2, <2>1
<1>10. Types'
  BY <1>1, <1>2, <1>3, <1>9 DEF Types
<1>11. ListsAgree'
  <2>1. \A r \in Result : result'[r] # Null =>
          result[r] # Null /\ result'[r].session = result[r].session
    BY <1>6, <1>7
  <2>2. \A r \in Result : result'[r] # Null /\ result'[r].session # Null =>
          session[result'[r].session] = "open"
    BY <1>1, <2>1 DEF ListsAgree
  <2>3. ASSUME NEW r \in Result, NEW i \in Listed(r)
        PROVE  i \in ToSet(publish_handle) /\ owner[i] = result'[r].session
    <3>1. result[r] # Null
      BY <2>3 DEF Listed
    <3> QED
      BY <1>1, <1>6, <2>3, <3>1 DEF ListsAgree
  <2> QED
    BY <1>1, <1>3, <1>8, <2>2, <2>3 DEF ListsAgree
<1>12. ASSUME NEW x \in Holder, NEW c \in ToSet(ch[x])
       PROVE  \/ c \in ToSet(Waiting(x)) /\ subscriptionid'[c] = subscriptionid[c]
              \/ \E i \in ToSet(publish_handle) :
                   i \in Item /\ subscriptionid'[c] = i /\ HolderOf(i) = x
  <2>1. c \in ToSet(Chains[x]) \/ \E j \in 1..Len(list) : c = <<b, j>> /\ HolderOf(list[j]) = x
    BY <1>2 DEF Reached
  <2>2. CASE c \in ToSet(Chains[x])
    <3>1. c \in AllOf(Chains) /\ Chains[x] = Waiting(x)
      BY <2>2 DEF AllOf, Chains
    <3> QED
      BY <1>4, <2>2, <3>1
  <2>3. CASE \E j \in 1..Len(list) : c = <<b, j>> /\ HolderOf(list[j]) = x
    <3>1. PICK j \in 1..Len(list) : c = <<b, j>> /\ HolderOf(list[j]) = x
      BY <2>3
    <3> QED
      BY <1>4, <1>5, <3>1
  <2> QED
    BY <2>1, <2>2, <2>3
<1>13. ASSUME NEW s \in Session, NEW c \in ToSet(ch[s])
       PROVE  subscriptionid'[c] \in Item /\ owner'[subscriptionid'[c]] = s
  <2>1. s \in Holder /\ s \notin Result
    BY HolderFacts
  <2>2. CASE c \in ToSet(Waiting(s)) /\ subscriptionid'[c] = subscriptionid[c]
    BY <1>1, <1>3, <2>2 DEF Addressed
  <2>3. CASE \E i \in ToSet(publish_handle) :
               i \in Item /\ subscriptionid'[c] = i /\ HolderOf(i) = s
    <3>1. PICK i \in ToSet(publish_handle) :
                 i \in Item /\ subscriptionid'[c] = i /\ HolderOf(i) = s
      BY <2>3
    <3>2. owner[i] = s
      BY <1>1, <2>1, <3>1, HolderFacts DEF HolderOf, BlockedAgrees
    <3> QED
      BY <1>3, <3>1, <3>2
  <2> QED
    BY <1>12, <2>1, <2>2, <2>3
<1>14. ASSUME NEW r \in Result, result'[r] # Null, result'[r].session # Null, NEW c \in ToSet(ch[r])
       PROVE  subscriptionid'[c] \in Listed(r)'
  <2>1. r \in Holder /\ r \notin Session
    BY HolderFacts
  <2>2. result[r] # Null /\ result[r].session # Null
    BY <1>6, <1>7, <1>14
  <2>3. CASE c \in ToSet(Waiting(r)) /\ subscriptionid'[c] = subscriptionid[c]
    BY <1>1, <1>8, <2>2, <2>3 DEF Addressed
  <2>4. CASE \E i \in ToSet(publish_handle) :
               i \in Item /\ subscriptionid'[c] = i /\ HolderOf(i) = r
    <3>1. PICK i \in ToSet(publish_handle) :
                 i \in Item /\ subscriptionid'[c] = i /\ HolderOf(i) = r
      BY <2>4
    <3>2. BlockedBy(i) = r
      BY <1>1, <2>1, <3>1 DEF HolderOf, Types
    <3>3. i \in Listed(r)
      BY <1>1, <3>1, <3>2 DEF BlockedAgrees
    <3> QED
      BY <1>8, <3>1, <3>3
  <2> QED
    BY <1>12, <2>1, <2>3, <2>4
<1>15. ASSUME NEW s \in Session, session'[s] = "none" PROVE publish_queue'[s] = NoQueue
  <2>1. publish_queue[s] = NoQueue /\ s \in Holder
    BY <1>1, <1>3, <1>15, HolderFacts DEF Addressed
  <2>2. ASSUME NEW c \in ToSet(ch[s]) PROVE FALSE
    <3>1. CASE c \in ToSet(Waiting(s))
      <4>1. Chains[s] = <<>> /\ Chains[s] = Waiting(s)
        BY <2>1, HolderFacts, NothingWaits DEF Chains
      <4> QED
        BY <3>1, <4>1 DEF ToSet
    <3>2. CASE \E i \in ToSet(publish_handle) :
                 i \in Item /\ subscriptionid'[c] = i /\ HolderOf(i) = s
      <4>1. PICK i \in ToSet(publish_handle) :
                   i \in Item /\ subscriptionid'[c] = i /\ HolderOf(i) = s
        BY <3>2
      <4>2. owner[i] = s
        BY <1>1, <4>1, HolderFacts DEF HolderOf, BlockedAgrees
      <4>3. session[s] = "open"
        BY <1>1, <4>1, <4>2 DEF ListsAgree
      <4> QED
        BY <1>3, <1>15, <4>3
    <3> QED
      BY <1>12, <2>1, <3>1, <3>2
  <2>3. ch[s] = <<>>
    <3>1. ch[s] \in Seq(Cell)
      BY <1>2, <2>1 DEF Becomes, Apart
    <3> QED
      BY <2>2, <3>1, InSequence
  <2>4. Queue(s)' = NoQueue
    <3>1. IsQueue(Queues'[s], next', ch[s]) /\ Queues'[s] \in Ends /\ Queues'[s] = Queue(s)'
      BY <1>2, <2>1 DEF Becomes, Apart, Queues
    <3>2. Queues'[s].first = Null /\ Queues'[s].last = Null
      BY <2>3, <3>1 DEF IsQueue
    <3> QED
      BY <3>1, <3>2 DEF Ends, NoQueue
  <2> QED
    BY <1>2, <2>4
<1>16. AddressedWith(ch)
  BY <1>13, <1>14, <1>15 DEF AddressedWith
<1> QED
  BY <1>2, <1>8, <1>10, <1>11, <1>16, InvariantNext

-----------------------------------------------------------------------------

(* Every step keeps the invariant.                                         *)
LEMMA NextInvariant == IInv /\ [Next]_vars => IInv'
<1> SUFFICES ASSUME IInv, [Next]_vars PROVE IInv'
  OBVIOUS
<1>1. ASSUME NEW s \in Session, SessionCreate(s) PROVE IInv'
  BY <1>1, SessionCreateInvariant
<1>2. ASSUME NEW s \in Session, SessionDelete(s) PROVE IInv'
  BY <1>2, SessionDeleteInvariant
<1>3. ASSUME NEW s \in Session, SendPublish(s) PROVE IInv'
  BY <1>3, SendPublishInvariant
<1>4. ASSUME NEW s \in Session, AddFreePublishSlots(s) PROVE IInv'
  BY <1>4, AddFreePublishSlotsInvariant
<1>5. ASSUME NEW s \in Session, NEW r \in Result, NEW count \in 1..MaxAnswers,
             HandleMessage(s, r, count)
      PROVE  IInv'
  BY <1>5, HandleMessageInvariant
<1>6. ASSUME NEW r \in Result, Return(r) PROVE IInv'
  <2>1. result[r] # Null /\ Announces(r, result[r].blocked)
    BY <1>6, ReturnAnnounces
  <2>2. Answer(r, result[r].blocked)
    BY <1>6 DEF Return
  <2> QED
    BY <2>1, <2>2, AnswerInvariant
<1>7. ASSUME NEW r \in Result, NEW i \in Item, Accept(i, r) PROVE IInv'
  <2>1. result[r] # Null /\ Announces(r, result[r].blocked \cup {i})
    BY <1>7, AcceptAnnounces
  <2>2. Answer(r, result[r].blocked \cup {i})
    BY <1>7 DEF Accept
  <2> QED
    BY <2>1, <2>2, AnswerInvariant
<1>8. ASSUME NEW i \in Item, Unsubscribe(i) PROVE IInv'
  BY <1>8, UnsubscribeInvariant
<1>9. ASSUME NEW list \in Handles, NEW b \in Block, Publish(list, b) PROVE IInv'
  BY <1>9, PublishInvariant
<1>10. CASE UNCHANGED vars
  <2>1. /\ owner' = owner /\ publish_handle' = publish_handle /\ session' = session
        /\ free_publish_slots' = free_publish_slots
        /\ publish_queue' = publish_queue /\ result' = result
        /\ data' = data /\ next' = next /\ subscriptionid' = subscriptionid
        /\ undefined' = undefined
    BY <1>10 DEF vars, clients, memory
  <2>2. SameQueues
    BY <2>1 DEF SameQueues, memory, Queue
  <2>3. Types
    BY TypesNow
  <2> QED
    BY <2>1, <2>2, <2>3, SameInvariant DEF Types
<1> QED
  BY <1>1, <1>2, <1>3, <1>4, <1>5, <1>6, <1>7, <1>8, <1>9, <1>10 DEF Next

(* The links are sound, the references are counted, the lists agree and    *)
(* every notification waits where it belongs, in every state.              *)
THEOREM InvCorrect == Spec => []IInv
BY InitInvariant, NextInvariant, PTL DEF Spec

(* No link leads from one queue into another one or to memory that was     *)
(* freed: appending, splicing, sending and deleting keep them sound.       *)
THEOREM LinksSoundCorrect == Spec => []LinksSound
<1>1. IInv => LinksSound
  BY DEF IInv
<1> QED
  BY <1>1, InvCorrect, PTL

(* A block is freed with the last of its cells that was linked, not before *)
(* and not later, however its cells were divided among the queues.         *)
THEOREM ReferencesCountedCorrect == Spec => []ReferencesCounted
<1>1. IInv => ReferencesCounted
  BY DEF IInv
<1> QED
  BY <1>1, InvCorrect, PTL

-----------------------------------------------------------------------------
(* The channel.                                                            *)

(* What i gets from a session o and from a result r, Null if from none,    *)
(* when the queues consist of ch.                                          *)
Both(ids, ch, i, o, r) ==
    Brought(ids, ch[o], i) \o (IF r = Null THEN <<>> ELSE Brought(ids, ch[r], i))

(* What is owed to an item waits with its session and, behind that, with   *)
(* the result that lists the item.                                         *)
OwedAgrees ==
    \A i \in Item : Owed(i) = Both(subscriptionid, Chains, i, owner[i], BlockedBy(i))

(* That is so.                                                             *)
LEMMA OwedIs == IInv => OwedAgrees
<1> SUFFICES ASSUME IInv, NEW i \in Item
             PROVE  Owed(i) = Both(subscriptionid, Chains, i, owner[i], BlockedBy(i))
  BY DEF OwedAgrees
<1>1. Types /\ BlockedAgrees
  BY TypesNow, BlockedByAgrees DEF IInv, LinksSound
<1> DEFINE u == Waiting(owner[i])
           t == IF BlockedBy(i) = Null THEN <<>> ELSE Waiting(BlockedBy(i))
           cells == u \o t
<1>2. Owed(i) = Brought(subscriptionid, cells, i)
  <2>1. Owed(i) = CHOOSE o \in {Share(m, i) : m \in {Notes(subscriptionid, d) : d \in {cells}}} : TRUE
    BY DEF Owed
  <2> HIDE DEF cells
  <2>2. {Notes(subscriptionid, d) : d \in {cells}} = {Notes(subscriptionid, cells)}
    OBVIOUS
  <2> DEFINE m1 == Notes(subscriptionid, cells)
  <2> HIDE DEF m1
  <2>3. {Share(m, i) : m \in {m1}} = {Share(m1, i)}
    OBVIOUS
  <2>4. (CHOOSE o \in {Share(m1, i)} : TRUE) = Share(m1, i)
    OBVIOUS
  <2>5. Owed(i) = Share(m1, i)
    BY <2>1, <2>2, <2>3, <2>4, Zenon DEF m1
  <2> QED
    BY <2>5 DEF m1, Brought
<1>3. owner[i] \in Holder /\ BlockedBy(i) \in Result \cup {Null}
  BY <1>1, HolderFacts DEF Types, BlockedAgrees
<1>4. /\ Chains \in [Holder -> Seq(Cell)] /\ subscriptionid \in Ids
      /\ \A x \in Holder : Chains[x] = Waiting(x)
  BY QueuesNow DEF Chains, Ids
<1>5. u \in Seq(Cell) /\ u = Chains[owner[i]]
  BY <1>3, <1>4
<1>6. CASE BlockedBy(i) = Null
  <2>1. t = <<>> /\ <<>> \in Seq(Cell)
    BY <1>6
  <2>2. cells = u
    <3>1. u \o <<>> = u
      <4> HIDE DEF u
      <4> QED
        BY <1>5
    <3> HIDE DEF u, t
    <3> QED
      BY <2>1, <3>1, Zenon
  <2>3. Brought(subscriptionid, u, i) \in Seq(Block)
    BY <1>4, <1>5, BroughtIs
  <2> DEFINE a == Brought(subscriptionid, u, i)
  <2> HIDE DEF a
  <2>4. a \o <<>> = a
    BY <2>3 DEF a
  <2> HIDE DEF u, t, cells
  <2>5. Owed(i) = a
    BY <1>2, <2>2, Zenon DEF a
  <2>6. Both(subscriptionid, Chains, i, owner[i], BlockedBy(i)) = a \o <<>>
    BY <1>5, <1>6, Zenon DEF Both, a
  <2> QED
    BY <2>4, <2>5, <2>6, Zenon
<1>7. CASE BlockedBy(i) # Null
  <2>1. BlockedBy(i) \in Holder
    BY <1>3, <1>7, HolderFacts
  <2>2. t \in Seq(Cell) /\ t = Chains[BlockedBy(i)]
    BY <1>4, <1>7, <2>1
  <2> HIDE DEF u, t
  <2>3. Brought(subscriptionid, u \o t, i) = Brought(subscriptionid, u, i) \o Brought(subscriptionid, t, i)
    <3>1. u \in Seq(Cell) /\ t \in Seq(Cell) /\ subscriptionid \in Ids
      BY <1>4, <1>5, <2>2
    <3> QED
      BY <3>1, BroughtTogether, Zenon
  <2>4. Both(subscriptionid, Chains, i, owner[i], BlockedBy(i)) =
          Brought(subscriptionid, u, i) \o Brought(subscriptionid, t, i)
    BY <1>5, <1>7, <2>2, Zenon DEF Both
  <2> QED
    BY <1>2, <2>3, <2>4, Zenon
<1> QED
  BY <1>6, <1>7

(* Who lists an item before and after a step.                              *)
LEMMA BlockedFacts ==
    ASSUME IInv, IInv', NEW i \in Item
    PROVE  /\ owner[i] \in Session /\ owner'[i] \in Session
           /\ BlockedBy(i) \in Result \cup {Null} /\ BlockedBy(i)' \in Result \cup {Null}
           /\ \A r \in Result : (i \in Listed(r) <=> BlockedBy(i) = r)
           /\ \A r \in Result : (i \in Listed(r)' <=> BlockedBy(i)' = r)
<1>1. TypeOK /\ ListsAgree /\ TypeOK' /\ ListsAgree'
  BY DEF IInv, LinksSound
<1>2. BlockedAgrees /\ BlockedAgrees'
  BY <1>1, BlockedByAgrees, PTL
<1> QED
  BY <1>1, <1>2 DEF BlockedAgrees, TypeOK

(* What is owed when the queues have become ch.                            *)
LEMMA OwedNext ==
    ASSUME IInv, IInv', NEW ch, Becomes(ch), NEW i \in Item
    PROVE  Owed(i)' = Both(subscriptionid', ch, i, owner'[i], BlockedBy(i)')
<1>1. \A j \in Item : Owed(j)' = Both(subscriptionid', Chains', j, owner'[j], BlockedBy(j)')
  <2>1. OwedAgrees'
    BY OwedIs, PTL
  <2> QED
    BY <2>1 DEF OwedAgrees
<1>2. \A x \in Holder : Chains'[x] = ch[x]
  BY QueuesLater DEF Chains
<1>3. owner'[i] \in Holder /\ (BlockedBy(i)' = Null \/ BlockedBy(i)' \in Holder)
  BY BlockedFacts, HolderFacts
<1>4. Chains'[owner'[i]] = ch[owner'[i]]
  BY <1>2, <1>3
<1>5. CASE BlockedBy(i)' = Null
  BY <1>1, <1>4, <1>5, Zenon DEF Both
<1>6. CASE BlockedBy(i)' # Null
  <2>1. Chains'[BlockedBy(i)'] = ch[BlockedBy(i)']
    BY <1>2, <1>3, <1>6
  <2> QED
    BY <1>1, <1>4, <1>6, <2>1, Zenon DEF Both
<1> QED
  BY <1>5, <1>6

(* A queue brings the same after the step when its cells are for the same. *)
LEMMA BroughtKept ==
    ASSUME IInv, NEW ch, Becomes(ch), Kept(ch), NEW x \in Holder, NEW i
    PROVE  Brought(subscriptionid', ch[x], i) = Brought(subscriptionid, ch[x], i)
<1>1. ch \in [Holder -> Seq(Cell)] /\ subscriptionid' \in Ids
  BY DEF Becomes, Apart, Ids
<1>2. subscriptionid \in Ids
  BY QueuesNow DEF Ids
<1>3. ch[x] \in Seq(Cell) /\ \A c \in ToSet(ch[x]) : subscriptionid'[c] = subscriptionid[c]
  BY <1>1, InAllOf DEF Kept
<1> DEFINE s == ch[x]
<1> HIDE DEF s
<1>4. s \in Seq(Cell) /\ \A c \in ToSet(s) : subscriptionid'[c] = subscriptionid[c]
  BY <1>3 DEF s
<1>5. Brought(subscriptionid', s, i) = Brought(subscriptionid, s, i)
  BY <1>1, <1>2, <1>4, BroughtSame
<1> QED
  BY <1>5 DEF s

(* Results hold nothing for items they do not list, and sessions nothing   *)
(* for the items of others.                                                *)
LEMMA NotBrought ==
    ASSUME IInv, NEW i \in Item
    PROVE  /\ \A r \in Result : result[r] # Null /\ result[r].session # Null /\ i \notin Listed(r)
                => Brought(subscriptionid, Chains[r], i) = <<>>
           /\ \A s \in Session : owner[i] # s => Brought(subscriptionid, Chains[s], i) = <<>>
           /\ \A x \in Holder : Brought(subscriptionid, Chains[x], i) \in Seq(Block)
           /\ Brought(subscriptionid, <<>>, i) = <<>>
<1>1. Addressed
  BY DEF IInv
<1>2. /\ Chains \in [Holder -> Seq(Cell)] /\ subscriptionid \in Ids
      /\ \A x \in Holder : Chains[x] = Waiting(x)
  BY QueuesNow DEF Chains, Ids
<1>3. ASSUME NEW r \in Result, result[r] # Null, result[r].session # Null, i \notin Listed(r)
      PROVE  Brought(subscriptionid, Chains[r], i) = <<>>
  <2>1. r \in Holder
    BY HolderFacts
  <2>2. Chains[r] \in Seq(Cell) /\ \A c \in ToSet(Chains[r]) : subscriptionid[c] # i
    BY <1>1, <1>2, <1>3, <2>1 DEF Addressed
  <2> QED
    BY <1>2, <2>2, BroughtNone
<1>4. ASSUME NEW s \in Session, owner[i] # s
      PROVE  Brought(subscriptionid, Chains[s], i) = <<>>
  <2>1. s \in Holder
    BY HolderFacts
  <2>2. Chains[s] \in Seq(Cell) /\ \A c \in ToSet(Chains[s]) : subscriptionid[c] # i
    BY <1>1, <1>2, <1>4, <2>1 DEF Addressed
  <2> QED
    BY <1>2, <2>2, BroughtNone
<1>5. \A x \in Holder : Brought(subscriptionid, Chains[x], i) \in Seq(Block)
  BY <1>2, BroughtIs
<1>6. Brought(subscriptionid, <<>>, i) = <<>>
  <2>1. <<>> \in Seq(Cell) /\ ToSet(<<>>) = {}
    BY DEF ToSet
  <2> QED
    BY <1>2, <2>1, BroughtNone
<1> QED
  BY <1>3, <1>4, <1>5, <1>6

(* What is owed after a step when the cells stay for the same items.       *)
LEMMA OwedKept ==
    ASSUME IInv, IInv', NEW ch, Becomes(ch), Kept(ch), owner' = owner, NEW i \in Item
    PROVE  Owed(i)' = Both(subscriptionid, ch, i, owner[i], BlockedBy(i)')
<1>1. Owed(i)' = Both(subscriptionid', ch, i, owner[i], BlockedBy(i)')
  BY OwedNext
<1>2. owner[i] \in Holder /\ (BlockedBy(i)' = Null \/ BlockedBy(i)' \in Holder)
  BY BlockedFacts, HolderFacts
<1>3. Brought(subscriptionid', ch[owner[i]], i) = Brought(subscriptionid, ch[owner[i]], i)
  BY <1>2, BroughtKept
<1>4. CASE BlockedBy(i)' = Null
  BY <1>1, <1>3, <1>4, Zenon DEF Both
<1>5. CASE BlockedBy(i)' # Null
  <2>1. Brought(subscriptionid', ch[BlockedBy(i)'], i) = Brought(subscriptionid, ch[BlockedBy(i)'], i)
    BY <1>2, <1>5, BroughtKept
  <2> QED
    BY <1>1, <1>3, <1>5, <2>1, Zenon DEF Both
<1> QED
  BY <1>4, <1>5

(* The queues stay, and a result that lists more holds nothing for it.     *)
LEMMA OwedSame ==
    ASSUME IInv, IInv', SameQueues, owner' = owner, NEW i \in Item,
           \/ BlockedBy(i)' = BlockedBy(i)
           \/ /\ BlockedBy(i) = Null /\ BlockedBy(i)' # Null
              /\ Brought(subscriptionid, Chains[BlockedBy(i)'], i) = <<>>
    PROVE  Owed(i)' = Owed(i)
<1>1. Becomes(Chains) /\ Kept(Chains)
  BY QueuesSame
<1>2. Owed(i)' = Both(subscriptionid, Chains, i, owner[i], BlockedBy(i)')
  BY <1>1, OwedKept
<1>3. Owed(i) = Both(subscriptionid, Chains, i, owner[i], BlockedBy(i))
  BY OwedIs DEF OwedAgrees
<1>4. CASE BlockedBy(i)' = BlockedBy(i)
  BY <1>2, <1>3, <1>4, Zenon
<1>5. CASE /\ BlockedBy(i) = Null /\ BlockedBy(i)' # Null
           /\ Brought(subscriptionid, Chains[BlockedBy(i)'], i) = <<>>
  BY <1>2, <1>3, <1>5, Zenon DEF Both
<1> QED
  BY <1>4, <1>5

(* An answer that is not the last one moves no notification.               *)
LEMMA StaysOwed ==
    ASSUME IInv, NEW r \in Result, result[r] # Null, NEW blocked, Announces(r, blocked),
           Stays(r, blocked), NEW i \in Item
    PROVE  Owed(i)' = Owed(i)
<1>1. /\ IInv' /\ SameQueues
      /\ Listed(r)' = IF result[r].session = Null THEN {} ELSE blocked
      /\ \A q \in Result \ {r} : Listed(q)' = Listed(q)
  BY StaysInvariant
<1>2. Listed(r) = IF result[r].session = Null THEN {} ELSE result[r].blocked
  BY DEF Listed
<1>3. /\ BlockedBy(i) \in Result \cup {Null} /\ BlockedBy(i)' \in Result \cup {Null}
      /\ \A q \in Result : (i \in Listed(q) <=> BlockedBy(i) = q)
      /\ \A q \in Result : (i \in Listed(q)' <=> BlockedBy(i)' = q)
  BY <1>1, BlockedFacts
<1>4. \A q \in Result : Listed(q) \subseteq Listed(q)'
  BY <1>1, <1>2 DEF Announces
<1>5. Null \notin Result
  BY NotificationsAssumption
<1>6. CASE BlockedBy(i) # Null
  <2>1. BlockedBy(i) \in Result /\ i \in Listed(BlockedBy(i))
    BY <1>3, <1>6
  <2>2. BlockedBy(i)' = BlockedBy(i)
    BY <1>3, <1>4, <2>1
  <2> QED
    BY <1>1, <2>2, OwedSame DEF Announces
<1>7. CASE BlockedBy(i) = Null /\ BlockedBy(i)' # Null
  <2>1. PICK q \in Result : BlockedBy(i)' = q
    BY <1>3, <1>7
  <2>2. i \in Listed(q)' /\ i \notin Listed(q)
    BY <1>3, <1>5, <1>7, <2>1
  <2>3. q = r /\ result[r].session # Null
    BY <1>1, <2>2
  <2>4. Brought(subscriptionid, Chains[q], i) = <<>>
    BY <2>2, <2>3, NotBrought
  <2>5. Brought(subscriptionid, Chains[BlockedBy(i)'], i) = <<>>
    BY <2>1, <2>4, Zenon
  <2> QED
    BY <1>1, <1>7, <2>5, OwedSame DEF Announces
<1>8. CASE BlockedBy(i) = Null /\ BlockedBy(i)' = Null
  <2>1. BlockedBy(i)' = BlockedBy(i)
    BY <1>8
  <2> QED
    BY <1>1, <2>1, OwedSame DEF Announces
<1> QED
  BY <1>6, <1>7, <1>8

(* What is given up was owed to nobody.                                    *)
LEMMA DropsOwed ==
    ASSUME IInv, NEW r \in Result, result[r] # Null, NEW blocked, Announces(r, blocked),
           Drops(r), NEW i \in Item
    PROVE  Owed(i)' = Owed(i)
<1>1. IInv'
  BY DropsInvariant
<1>2. /\ result'[r] = Null
      /\ \A q \in Result \ {r} : Listed(q)' = Listed(q)
  BY ListsAfterLast DEF Drops
<1>3. Listed(r)' = {} /\ (Waiting(r) = <<>> \/ Listed(r) = {})
  BY <1>2 DEF Listed, Drops
<1>4. /\ owner[i] \in Session
      /\ BlockedBy(i) \in Result \cup {Null} /\ BlockedBy(i)' \in Result \cup {Null}
      /\ \A q \in Result : (i \in Listed(q) <=> BlockedBy(i) = q)
      /\ \A q \in Result : (i \in Listed(q)' <=> BlockedBy(i)' = q)
  BY <1>1, BlockedFacts
<1> DEFINE new == [Chains EXCEPT ![r] = <<>>]
<1>5. Becomes(new) /\ Kept(new)
  <2> HIDE DEF new
  <2>1. new = [Chains EXCEPT ![r] = <<>>]
    BY DEF new
  <2> QED
    BY <2>1, DropsQueues
<1>6. Chains \in [Holder -> Seq(Cell)]
  BY QueuesNow
<1>7. \A x \in Holder : x # r => new[x] = Chains[x]
  BY <1>6
<1> HIDE DEF new
<1>8. Owed(i)' = Both(subscriptionid, new, i, owner[i], BlockedBy(i)')
  BY <1>1, <1>5, OwedKept DEF Announces
<1>9. Owed(i) = Both(subscriptionid, Chains, i, owner[i], BlockedBy(i))
  BY OwedIs DEF OwedAgrees
<1>10. new[owner[i]] = Chains[owner[i]]
  BY <1>4, <1>7, HolderFacts
<1>11. Null \notin Result /\ \A q \in Result : q \in Holder
  BY NotificationsAssumption, HolderFacts
<1>12. CASE BlockedBy(i) = r
  <2>1. BlockedBy(i)' = Null
    BY <1>2, <1>3, <1>4, <1>12
  <2>2. Chains[r] = <<>>
    BY <1>3, <1>4, <1>11, <1>12 DEF Chains
  <2>3. Brought(subscriptionid, Chains[r], i) = <<>>
    BY <2>2, NotBrought
  <2> QED
    BY <1>8, <1>9, <1>10, <1>11, <1>12, <2>1, <2>3, Zenon DEF Both
<1>13. CASE BlockedBy(i) # r /\ BlockedBy(i) # Null
  <2>1. PICK q \in Result : BlockedBy(i) = q
    BY <1>4, <1>13
  <2>2. BlockedBy(i)' = q
    BY <1>2, <1>4, <1>13, <2>1
  <2>3. new[q] = Chains[q]
    BY <1>7, <1>11, <1>13, <2>1
  <2> QED
    BY <1>8, <1>9, <1>10, <2>1, <2>2, <2>3, Zenon DEF Both
<1>14. CASE BlockedBy(i) = Null
  <2>1. BlockedBy(i)' = Null
    BY <1>2, <1>3, <1>4, <1>11, <1>14
  <2> QED
    BY <1>8, <1>9, <1>10, <1>14, <2>1, Zenon DEF Both
<1> QED
  BY <1>12, <1>13, <1>14

(* What is spliced is owed as before, behind what the session holds.       *)
LEMMA SplicesOwed ==
    ASSUME IInv, NEW r \in Result, result[r] # Null, NEW blocked, Announces(r, blocked),
           NEW s \in Session, Splices(r, s), NEW i \in Item
    PROVE  Owed(i)' = Owed(i)
<1>1. IInv'
  BY SplicesInvariant
<1>2. /\ result'[r] = Null
      /\ \A q \in Result \ {r} : Listed(q)' = Listed(q)
  BY ListsAfterLast DEF Splices
<1>3. Listed(r)' = {} /\ result[r].session = s /\ s # Null
  BY <1>2, HolderFacts DEF Listed, Splices
<1>4. /\ owner[i] \in Session
      /\ BlockedBy(i) \in Result \cup {Null} /\ BlockedBy(i)' \in Result \cup {Null}
      /\ \A q \in Result : (i \in Listed(q) <=> BlockedBy(i) = q)
      /\ \A q \in Result : (i \in Listed(q)' <=> BlockedBy(i)' = q)
  BY <1>1, BlockedFacts
<1> DEFINE new == [Chains EXCEPT ![r] = <<>>, ![s] = Waiting(s) \o Waiting(r)]
<1>5. Becomes(new) /\ Kept(new)
  <2> HIDE DEF new
  <2>1. new = [Chains EXCEPT ![r] = <<>>, ![s] = Waiting(s) \o Waiting(r)]
    BY DEF new
  <2> QED
    BY <2>1, SplicesQueues
<1>6. /\ s \in Holder /\ r \in Holder /\ r # s /\ Chains \in [Holder -> Seq(Cell)]
      /\ Waiting(s) = Chains[s] /\ Waiting(r) = Chains[r]
      /\ Chains[s] \in Seq(Cell) /\ Chains[r] \in Seq(Cell)
      /\ subscriptionid \in Ids
  <2>1. /\ s \in Holder /\ r \in Holder /\ r # s /\ Chains \in [Holder -> Seq(Cell)]
        /\ subscriptionid \in Ids
    BY HolderFacts, QueuesNow DEF Ids
  <2>2. Waiting(s) = Chains[s] /\ Waiting(r) = Chains[r]
    BY <2>1 DEF Chains
  <2> QED
    BY <2>1, <2>2
<1>7. /\ new[s] = Chains[s] \o Chains[r]
      /\ \A x \in Holder \ {r, s} : new[x] = Chains[x]
  <2> DEFINE w == Waiting(s) \o Waiting(r)
             m == [Chains EXCEPT ![r] = <<>>]
  <2>1. w = Chains[s] \o Chains[r]
    BY <1>6
  <2> HIDE DEF w
  <2>2. DOMAIN m = Holder /\ \A x \in Holder \ {r} : m[x] = Chains[x]
    BY <1>6
  <2> HIDE DEF m
  <2>3. new = [m EXCEPT ![s] = w]
    BY DEF m, w
  <2>4. [m EXCEPT ![s] = w][s] = w
    BY <1>6, <2>2
  <2>5. \A x \in Holder \ {r, s} : [m EXCEPT ![s] = w][x] = Chains[x]
    BY <1>6, <2>2
  <2> HIDE DEF new
  <2>6. new[s] = w
    BY <2>3, <2>4, Zenon
  <2>7. \A x \in Holder \ {r, s} : new[x] = Chains[x]
    BY <2>3, <2>5
  <2> QED
    BY <2>1, <2>6, <2>7, Zenon
<1> HIDE DEF new
<1>8. Owed(i)' = Both(subscriptionid, new, i, owner[i], BlockedBy(i)')
  BY <1>1, <1>5, OwedKept DEF Announces
<1>9. Owed(i) = Both(subscriptionid, Chains, i, owner[i], BlockedBy(i))
  BY OwedIs DEF OwedAgrees
<1> DEFINE own == Brought(subscriptionid, Chains[s], i)
           held == Brought(subscriptionid, Chains[r], i)
<1>10. Brought(subscriptionid, new[s], i) = own \o held
  <2>1. Brought(subscriptionid, Chains[s] \o Chains[r], i) = own \o held
    <3>1. Chains[s] \in Seq(Cell) /\ Chains[r] \in Seq(Cell) /\ subscriptionid \in Ids
      BY <1>6
    <3> QED
      BY <3>1, BroughtTogether, Zenon
  <2> QED
    BY <1>7, <2>1, Zenon
<1>11. own \in Seq(Block) /\ held \in Seq(Block)
  BY <1>6, NotBrought
<1>12. i \notin Listed(r) => held = <<>>
  BY <1>3, NotBrought
<1>13. Null \notin Result /\ \A q \in Result : q \in Holder /\ q \notin Session
  BY NotificationsAssumption, HolderFacts
<1> HIDE DEF own, held
<1>14. own \o <<>> = own
  BY <1>11
<1>15. CASE BlockedBy(i) = r
  <2>1. BlockedBy(i)' = Null
    BY <1>2, <1>3, <1>4, <1>15
  <2>2. owner[i] = s
    <3>1. i \in Listed(r) /\ ListsAgree
      BY <1>4, <1>15 DEF IInv
    <3> QED
      BY <1>3, <3>1 DEF ListsAgree
  <2>3. Both(subscriptionid, Chains, i, owner[i], BlockedBy(i)) = own \o held
    BY <1>13, <1>15, <2>2, Zenon DEF Both, own, held
  <2>4. Both(subscriptionid, new, i, owner[i], BlockedBy(i)') = (own \o held) \o <<>>
    BY <1>10, <2>1, <2>2, Zenon DEF Both
  <2>5. (own \o held) \o <<>> = own \o held
    <3> DEFINE w == own \o held
    <3>1. w \in Seq(Block)
      BY <1>11
    <3> HIDE DEF w
    <3>2. w \o <<>> = w
      BY <3>1
    <3> QED
      BY <3>2 DEF w
  <2> QED
    BY <1>8, <1>9, <2>3, <2>4, <2>5, Zenon
<1>16. CASE BlockedBy(i) # r
  <2>1. BlockedBy(i)' = BlockedBy(i) /\ (BlockedBy(i) = Null \/ BlockedBy(i) \in Holder \ {r, s})
    <3>1. CASE BlockedBy(i) = Null
      BY <1>2, <1>3, <1>4, <1>13, <3>1
    <3>2. CASE BlockedBy(i) # Null
      BY <1>2, <1>4, <1>13, <1>16, <3>2
    <3> QED
      BY <3>1, <3>2
  <2>2. held = <<>>
    BY <1>4, <1>12, <1>16
  <2>3. Brought(subscriptionid, new[owner[i]], i) = Brought(subscriptionid, Chains[owner[i]], i)
    <3>1. CASE owner[i] = s
      BY <1>10, <1>14, <2>2, <3>1, Zenon DEF own
    <3>2. CASE owner[i] # s
      <4>1. owner[i] \in Holder \ {r, s}
        BY <1>4, <1>13, <3>2, HolderFacts
      <4> QED
        BY <1>7, <4>1
    <3> QED
      BY <3>1, <3>2
  <2>4. CASE BlockedBy(i) = Null
    BY <1>8, <1>9, <2>1, <2>3, <2>4, Zenon DEF Both
  <2>5. CASE BlockedBy(i) # Null
    <3>1. new[BlockedBy(i)] = Chains[BlockedBy(i)]
      BY <1>7, <2>1, <2>5
    <3> QED
      BY <1>8, <1>9, <2>1, <2>3, <2>5, <3>1, Zenon DEF Both
  <2> QED
    BY <2>4, <2>5
<1> QED
  BY <1>15, <1>16

(* No answer changes what is owed.                                         *)
LEMMA AnswerOwed ==
    ASSUME IInv, NEW r \in Result, result[r] # Null, NEW blocked, Announces(r, blocked),
           Answer(r, blocked), NEW i \in Item
    PROVE  Owed(i)' = Owed(i)
<1>1. Stays(r, blocked) \/ Drops(r) \/ \E s \in Session : Splices(r, s)
  BY AnswerOutcomes
<1> QED
  BY <1>1, StaysOwed, DropsOwed, SplicesOwed

(* Nor does a new result.                                                  *)
LEMMA HandleMessageOwed ==
    ASSUME IInv, NEW s \in Session, NEW r \in Result, NEW count \in 1..MaxAnswers,
           HandleMessage(s, r, count), NEW i \in Item
    PROVE  Owed(i)' = Owed(i)
<1>1. IInv' /\ SameQueues /\ \A q \in Result : Listed(q)' = Listed(q)
  BY HandleMessageInvariant
<1>2. owner' = owner
  BY DEF HandleMessage, clients
<1>3. BlockedBy(i)' = BlockedBy(i)
  <2>1. /\ BlockedBy(i) \in Result \cup {Null} /\ BlockedBy(i)' \in Result \cup {Null}
        /\ \A q \in Result : (i \in Listed(q) <=> BlockedBy(i) = q)
        /\ \A q \in Result : (i \in Listed(q)' <=> BlockedBy(i)' = q)
    BY <1>1, BlockedFacts
  <2> QED
    BY <1>1, <2>1, NotificationsAssumption
<1> QED
  BY <1>1, <1>2, <1>3, OwedSame

(* Steps that leave what the queues are read from.                         *)
LEMMA FrameOwed ==
    ASSUME IInv, IInv', SameQueues, owner' = owner, result' = result, NEW i \in Item
    PROVE  Owed(i)' = Owed(i)
<1>1. BlockedBy(i)' = BlockedBy(i)
  BY DEF BlockedBy
<1> QED
  BY <1>1, OwedSame

(* A publish message takes from the front of one session's queue.          *)
LEMMA SendPublishOwed ==
    ASSUME IInv, NEW s \in Session, SendPublish(s)
    PROVE  \E u \in Seq(Cell) :
              /\ sent' = Notes(subscriptionid, u) /\ u # <<>>
              /\ \A c \in ToSet(u) : subscriptionid[c] \in Item /\ owner[subscriptionid[c]] = s
              /\ \A i \in Item : Brought(subscriptionid, u, i) \o Owed(i)' = Owed(i)
<1>1. IInv'
  BY SendPublishInvariant
<1>2. PICK u, t \in Seq(Cell) : /\ GivesUp(s, u, t) /\ u # <<>>
                                /\ sent' = Notes(subscriptionid, u)
  BY SendPublishQueues
<1>3. owner' = owner /\ result' = result
  BY DEF SendPublish
<1> DEFINE new == [Chains EXCEPT ![s] = t]
<1>4. Becomes(new) /\ Kept(new)
  <2> HIDE DEF new
  <2>1. new = [Chains EXCEPT ![s] = t]
    BY DEF new
  <2> QED
    BY <1>2, <2>1, QueueGivenUp
<1>5. /\ s \in Holder /\ Chains \in [Holder -> Seq(Cell)] /\ subscriptionid \in Ids
      /\ Chains[s] = u \o t /\ Chains[s] = Waiting(s)
  BY <1>2, HolderFacts, QueuesNow DEF Ids, GivesUp, Chains
<1>6. new[s] = t /\ \A x \in Holder : x # s => new[x] = Chains[x]
  BY <1>5
<1> HIDE DEF new
<1>7. \A c \in ToSet(u) : subscriptionid[c] \in Item /\ owner[subscriptionid[c]] = s
  <2>1. ToSet(u \o t) = ToSet(u) \cup ToSet(t)
    BY <1>2, InConcatenation
  <2>2. ToSet(u) \subseteq ToSet(Waiting(s))
    <3>1. ToSet(Waiting(s)) = ToSet(u) \cup ToSet(t)
      BY <1>5, <2>1, Zenon
    <3> QED
      BY <3>1
  <2> QED
    BY <2>2 DEF IInv, Addressed
<1>8. ASSUME NEW i \in Item PROVE Brought(subscriptionid, u, i) \o Owed(i)' = Owed(i)
  <2>1. BlockedBy(i)' = BlockedBy(i)
    BY <1>3 DEF BlockedBy
  <2>2. Owed(i)' = Both(subscriptionid, new, i, owner[i], BlockedBy(i))
    BY <1>1, <1>3, <1>4, <2>1, OwedKept
  <2>3. Owed(i) = Both(subscriptionid, Chains, i, owner[i], BlockedBy(i))
    BY OwedIs DEF OwedAgrees
  <2>4. /\ owner[i] \in Session /\ owner[i] \in Holder
        /\ BlockedBy(i) = Null \/ (BlockedBy(i) \in Holder /\ BlockedBy(i) # s)
    BY <1>1, BlockedFacts, HolderFacts
  <2> DEFINE a == Brought(subscriptionid, u, i)
             b == Brought(subscriptionid, t, i)
             c == IF BlockedBy(i) = Null THEN <<>> ELSE Brought(subscriptionid, Chains[BlockedBy(i)], i)
             d == Brought(subscriptionid, Chains[owner[i]], i)
  <2>5. a \in Seq(Block) /\ b \in Seq(Block) /\ c \in Seq(Block) /\ d \in Seq(Block)
    <3>1. a \in Seq(Block) /\ b \in Seq(Block)
      BY <1>2, <1>5, BroughtIs
    <3>2. d \in Seq(Block)
      BY <2>4, NotBrought
    <3>3. c \in Seq(Block)
      <4>1. CASE BlockedBy(i) = Null
        BY <4>1
      <4>2. CASE BlockedBy(i) # Null
        BY <2>4, <4>2, NotBrought
      <4> QED
        BY <4>1, <4>2
    <3> QED
      BY <3>1, <3>2, <3>3
  <2>6. Owed(i) = d \o c
    BY <2>3, Zenon DEF Both
  <2>7. Owed(i)' = Brought(subscriptionid, new[owner[i]], i) \o c
    <3>1. CASE BlockedBy(i) = Null
      BY <2>2, <3>1, Zenon DEF Both
    <3>2. CASE BlockedBy(i) # Null
      <4>1. new[BlockedBy(i)] = Chains[BlockedBy(i)]
        BY <1>6, <2>4, <3>2
      <4> QED
        BY <2>2, <3>2, <4>1, Zenon DEF Both
    <3> QED
      BY <3>1, <3>2
  <2>8. CASE owner[i] = s
    <3>1. d = a \o b
      <4>1. Brought(subscriptionid, u \o t, i) = a \o b
        <5>1. u \in Seq(Cell) /\ t \in Seq(Cell) /\ subscriptionid \in Ids
          BY <1>2, <1>5
        <5> QED
          BY <5>1, BroughtTogether, Zenon
      <4> QED
        BY <1>5, <2>8, <4>1, Zenon
    <3>2. Owed(i)' = b \o c
      BY <1>6, <2>7, <2>8, Zenon
    <3> HIDE DEF a, b, c, d
    <3>3. (a \o b) \o c = a \o (b \o c)
      BY <2>5, ConcatAssociative
    <3>4. a \o Owed(i)' = Owed(i)
      BY <2>6, <3>1, <3>2, <3>3, Zenon
    <3> QED
      BY <3>4 DEF a
  <2>9. CASE owner[i] # s
    <3>1. a = <<>>
      <4>1. \A e \in ToSet(u) : subscriptionid[e] # i
        BY <1>7, <2>9
      <4> QED
        BY <1>2, <1>5, <4>1, BroughtNone
    <3>2. Owed(i)' = d \o c
      <4>1. new[owner[i]] = Chains[owner[i]]
        BY <1>6, <2>4, <2>9
      <4> QED
        BY <2>7, <4>1, Zenon
    <3> HIDE DEF a, b, c, d
    <3>3. <<>> \o (d \o c) = d \o c
      <4> DEFINE w == d \o c
      <4>1. w \in Seq(Block)
        BY <2>5
      <4> HIDE DEF w
      <4>2. <<>> \o w = w
        BY <4>1
      <4> QED
        BY <4>2 DEF w
    <3>4. a \o Owed(i)' = Owed(i)
      BY <2>6, <3>1, <3>2, <3>3, Zenon
    <3> QED
      BY <3>4 DEF a
  <2> QED
    BY <2>8, <2>9
<1> QED
  BY <1>2, <1>7, <1>8

(* With a session ends what is owed to its items.                          *)
LEMMA SessionDeleteOwed ==
    ASSUME IInv, NEW s \in Session, SessionDelete(s), NEW i \in Item
    PROVE  Owed(i)' = IF owner[i] = s THEN <<>> ELSE Owed(i)
<1>1. IInv' /\ ListsAgree /\ TypeOK
  BY SessionDeleteInvariant DEF IInv, LinksSound
<1>2. owner' = owner
  BY DEF SessionDelete
<1> DEFINE new == [Chains EXCEPT ![s] = <<>>]
<1>3. Becomes(new) /\ Kept(new)
  <2> HIDE DEF new
  <2>1. new = [Chains EXCEPT ![s] = <<>>]
    BY DEF new
  <2> QED
    BY <2>1, SessionDeleteQueues
<1>4. s \in Holder /\ s # Null /\ Chains \in [Holder -> Seq(Cell)]
  BY HolderFacts, QueuesNow
<1>5. new[s] = <<>> /\ \A x \in Holder : x # s => new[x] = Chains[x]
  BY <1>4
<1> HIDE DEF new
<1>6. \A q \in Result : Listed(q)' = IF result[q] # Null /\ result[q].session = s THEN {} ELSE Listed(q)
  <2>1. ASSUME NEW q \in Result, result[q] # Null, result[q].session = s PROVE Listed(q)' = {}
    <3>1. result'[q] = [result[q] EXCEPT !.session = Null]
      BY <2>1 DEF SessionDelete
    <3>2. result[q] = [session |-> result[q].session, remaining |-> result[q].remaining,
                       blocked |-> result[q].blocked, queue |-> result[q].queue]
      BY <1>1, <2>1, ResultFacts
    <3>3. result'[q].session = Null
      BY <3>1, <3>2
    <3> QED
      BY <3>3 DEF Listed
  <2>2. ASSUME NEW q \in Result, ~ (result[q] # Null /\ result[q].session = s)
        PROVE  Listed(q)' = Listed(q)
    <3>1. result'[q] = result[q]
      BY <2>2 DEF SessionDelete
    <3> QED
      BY <3>1 DEF Listed
  <2> QED
    BY <2>1, <2>2
<1>7. /\ owner[i] \in Session /\ owner[i] \in Holder
      /\ BlockedBy(i) \in Result \cup {Null} /\ BlockedBy(i)' \in Result \cup {Null}
      /\ \A q \in Result : (i \in Listed(q) <=> BlockedBy(i) = q)
      /\ \A q \in Result : (i \in Listed(q)' <=> BlockedBy(i)' = q)
  BY <1>1, BlockedFacts, HolderFacts
<1>8. Owed(i)' = Both(subscriptionid, new, i, owner[i], BlockedBy(i)')
  BY <1>1, <1>2, <1>3, OwedKept
<1>9. Owed(i) = Both(subscriptionid, Chains, i, owner[i], BlockedBy(i))
  BY OwedIs DEF OwedAgrees
<1>10. \A q \in Result : i \in Listed(q) => result[q] # Null /\ owner[i] = result[q].session
  BY <1>1 DEF ListsAgree, Listed
<1>11. Null \notin Result /\ \A q \in Result : q \in Holder /\ q # s
  BY NotificationsAssumption, HolderFacts
<1>12. CASE owner[i] = s
  <2>1. BlockedBy(i)' = Null
    BY <1>6, <1>7, <1>10, <1>12
  <2>2. Brought(subscriptionid, new[s], i) = <<>>
    BY <1>5, NotBrought
  <2>3. <<>> \o <<>> = <<>>
    OBVIOUS
  <2>4. Owed(i)' = <<>>
    BY <1>8, <1>12, <2>1, <2>2, <2>3, Zenon DEF Both
  <2> QED
    BY <1>12, <2>4
<1>13. CASE owner[i] # s
  <2>1. BlockedBy(i)' = BlockedBy(i)
    <3>1. \A q \in Result : i \in Listed(q)' <=> i \in Listed(q)
      BY <1>6, <1>10, <1>13
    <3> QED
      BY <1>7, <1>11, <3>1
  <2>2. new[owner[i]] = Chains[owner[i]]
    BY <1>5, <1>7, <1>13
  <2>3. CASE BlockedBy(i) = Null
    <3>1. Owed(i)' = Owed(i)
      BY <1>8, <1>9, <2>1, <2>2, <2>3, Zenon DEF Both
    <3> QED
      BY <1>13, <3>1
  <2>4. CASE BlockedBy(i) # Null
    <3>1. new[BlockedBy(i)] = Chains[BlockedBy(i)]
      BY <1>5, <1>7, <1>11, <2>4
    <3>2. Owed(i)' = Owed(i)
      BY <1>8, <1>9, <2>1, <2>2, <2>4, <3>1, Zenon DEF Both
    <3> QED
      BY <1>13, <3>2
  <2> QED
    BY <2>3, <2>4
<1> QED
  BY <1>12, <1>13

(* A publication is owed behind what is owed already, or not at all.       *)
LEMMA PublishOwed ==
    ASSUME IInv, NEW list \in Handles, NEW b \in Block, Publish(list, b), NEW i \in Item
    PROVE  Owed(i)' \in {Owed(i), Append(Owed(i), b)}
<1>1. IInv'
  BY PublishInvariant
<1>2. PICK ch, h : Becomes(ch) /\ Reached(list, b, Len(list), h, ch)
  BY PublishQueues
<1>3. owner' = owner
  BY DEF Publish, clients
<1>4. /\ subscriptionid' \in Ids /\ subscriptionid \in Ids /\ Chains \in [Holder -> Seq(Cell)]
      /\ \A c \in AllOf(Chains) : subscriptionid'[c] = subscriptionid[c]
  BY PublishFacts, QueuesNow DEF Ids
<1>5. ASSUME NEW x \in Holder
      PROVE  Brought(subscriptionid', Chains[x], i) = Brought(subscriptionid, Chains[x], i)
  <2> DEFINE w == Chains[x]
  <2>1. w \in Seq(Cell) /\ \A c \in ToSet(w) : subscriptionid'[c] = subscriptionid[c]
    BY <1>4, InAllOf
  <2> HIDE DEF w
  <2>2. Brought(subscriptionid', w, i) = Brought(subscriptionid, w, i)
    BY <1>4, <2>1, BroughtSame
  <2> QED
    BY <2>2 DEF w
<1> DEFINE n == Len(list)
           new(x) == Brought(subscriptionid', ch[x], i)
           old(x) == Brought(subscriptionid, Chains[x], i)
<1>6. ASSUME NEW x \in Holder
      PROVE  new(x) = IF Gets(list, n, x, i) THEN Append(old(x), b) ELSE old(x)
  <2>1. new(x) = IF Gets(list, n, x, i) THEN Append(Brought(subscriptionid', Chains[x], i), b)
                 ELSE Brought(subscriptionid', Chains[x], i)
    BY <1>2 DEF Reached
  <2> QED
    BY <1>5, <2>1, Zenon
<1>7. \A r \in Result : Listed(r)' = Listed(r)
  BY PublishInvariant
<1>8. /\ owner[i] \in Session /\ owner[i] \in Holder
      /\ BlockedBy(i) \in Result \cup {Null} /\ BlockedBy(i)' = BlockedBy(i)
  <2>1. /\ owner[i] \in Session
        /\ BlockedBy(i) \in Result \cup {Null} /\ BlockedBy(i)' \in Result \cup {Null}
        /\ \A q \in Result : (i \in Listed(q) <=> BlockedBy(i) = q)
        /\ \A q \in Result : (i \in Listed(q)' <=> BlockedBy(i)' = q)
    BY <1>1, BlockedFacts
  <2> QED
    BY <1>7, <2>1, HolderFacts, NotificationsAssumption
<1>9. Owed(i)' = Both(subscriptionid', ch, i, owner[i], BlockedBy(i))
  BY <1>1, <1>2, <1>3, <1>8, OwedNext
<1>10. Owed(i) = Both(subscriptionid, Chains, i, owner[i], BlockedBy(i))
  BY OwedIs DEF OwedAgrees
<1>11. \A x \in Holder : old(x) \in Seq(Block)
  BY NotBrought
<1>12. Owed(i)' = new(owner[i]) \o (IF BlockedBy(i) = Null THEN <<>> ELSE new(BlockedBy(i)))
  BY <1>9, Zenon DEF Both
<1>13. Owed(i) = old(owner[i]) \o (IF BlockedBy(i) = Null THEN <<>> ELSE old(BlockedBy(i)))
  BY <1>10, Zenon DEF Both
<1> HIDE DEF n, new, old
<1>14. \A x : Gets(list, n, x, i) => HolderOf(i) = x
  BY DEF Gets
<1>15. CASE BlockedBy(i) = Null
  <2>1. new(owner[i]) \in {old(owner[i]), Append(old(owner[i]), b)}
    BY <1>6, <1>8
  <2> DEFINE o == old(owner[i])
             e == new(owner[i])
  <2>2. o \in Seq(Block) /\ e \in Seq(Block) /\ e \in {o, Append(o, b)}
    BY <1>8, <1>11, <2>1
  <2>3. Owed(i)' = e \o <<>> /\ Owed(i) = o \o <<>>
    BY <1>12, <1>13, <1>15, Zenon
  <2> HIDE DEF o, e
  <2>4. e \o <<>> = e /\ o \o <<>> = o
    BY <2>2
  <2>5. Owed(i)' = e /\ Owed(i) = o
    BY <2>3, <2>4, Zenon
  <2> QED
    BY <2>2, <2>5, Zenon
<1>16. CASE BlockedBy(i) # Null
  <2>1. BlockedBy(i) \in Holder /\ owner[i] # BlockedBy(i) /\ HolderOf(i) = BlockedBy(i)
    BY <1>8, <1>16, HolderFacts DEF HolderOf
  <2>2. new(owner[i]) = old(owner[i])
    BY <1>6, <1>8, <1>14, <2>1
  <2> DEFINE a == old(owner[i])
             o == old(BlockedBy(i))
             e == new(BlockedBy(i))
  <2>3. a \in Seq(Block) /\ o \in Seq(Block) /\ e \in {o, Append(o, b)}
    BY <1>6, <1>8, <1>11, <2>1
  <2>4. Owed(i)' = a \o e /\ Owed(i) = a \o o
    BY <1>12, <1>13, <1>16, <2>2, Zenon
  <2> HIDE DEF a, o, e
  <2>5. a \o Append(o, b) = Append(a \o o, b)
    BY <2>3, AppendInside
  <2>6. CASE e = o
    <3>1. Owed(i)' = Owed(i)
      BY <2>4, <2>6, Zenon
    <3> QED
      BY <3>1, Zenon
  <2>7. CASE e = Append(o, b)
    <3>1. Owed(i)' = Append(Owed(i), b)
      BY <2>4, <2>5, <2>7, Zenon
    <3> QED
      BY <3>1, Zenon
  <2> QED
    BY <2>3, <2>6, <2>7
<1> QED
  BY <1>15, <1>16

(* The channel takes shares as the queues do.                              *)
LEMMA ChannelShare == \A m, i : Channel!Share(m, i) = Share(m, i)
BY DEF Channel!Share, Share

(* Initially nothing is owed.                                              *)
LEMMA ChannelInit == IInv /\ Init => Channel!Init
<1> SUFFICES ASSUME IInv, Init PROVE Channel!Init
  OBVIOUS
<1>1. owner \in [Item -> Session] /\ sent = <<>>
  BY NotificationsAssumption DEF Init
<1>2. ASSUME NEW i \in Item PROVE Owed(i) = <<>>
  <2>1. \A x \in Holder : Queue(x) = NoQueue
    BY HolderFacts DEF Init, Holder
  <2>2. \A x \in Holder : Chains[x] = <<>>
    BY <2>1, NothingWaits
  <2>3. owner[i] \in Holder /\ (BlockedBy(i) = Null \/ BlockedBy(i) \in Holder)
    <3>1. TypeOK /\ BlockedAgrees
      BY BlockedByAgrees DEF IInv, LinksSound
    <3> QED
      BY <1>1, <3>1, HolderFacts DEF BlockedAgrees
  <2>4. Brought(subscriptionid, Chains[owner[i]], i) = <<>>
    BY <2>2, <2>3, NotBrought
  <2>5. BlockedBy(i) # Null => Brought(subscriptionid, Chains[BlockedBy(i)], i) = <<>>
    BY <2>2, <2>3, NotBrought
  <2>6. <<>> \o <<>> = <<>>
    OBVIOUS
  <2>7. Owed(i) = Both(subscriptionid, Chains, i, owner[i], BlockedBy(i))
    BY OwedIs DEF OwedAgrees
  <2> QED
    BY <2>4, <2>5, <2>6, <2>7, Zenon DEF Both
<1> QED
  BY <1>1, <1>2 DEF Channel!Init

(* Every step of the queues is one of the channel, or none at all.         *)
LEMMA ChannelNext == IInv /\ IInv' /\ [Next]_vars => [Channel!Next]_(Channel!vars)
<1> SUFFICES ASSUME IInv, IInv', [Next]_vars PROVE [Channel!Next]_(Channel!vars)
  OBVIOUS
<1>0. ASSUME sent' = <<>>, owner' = owner, \A i \in Item : Owed(i)' = Owed(i)
      PROVE  Channel!Next
  <2>1. [i \in Item |-> Owed(i)]' = [i \in Item |-> Owed(i)]
    BY <1>0
  <2>2. Channel!Quiet
    BY <1>0, <2>1 DEF Channel!Quiet
  <2> QED
    BY <1>0, <2>2 DEF Channel!Next
<1>1. ASSUME NEW s \in Session, SessionCreate(s) PROVE Channel!Next
  <2>1. SameQueues
    BY <1>1, SessionCreateInvariant
  <2>2. sent' = <<>> /\ owner' = owner /\ result' = result
    BY <1>1 DEF SessionCreate
  <2> QED
    BY <1>0, <2>1, <2>2, FrameOwed
<1>2. ASSUME NEW s \in Session, SessionDelete(s) PROVE Channel!Next
  <2>1. sent' = <<>> /\ owner' = owner
    BY <1>2 DEF SessionDelete
  <2>2. \A i \in Item : Owed(i)' = IF owner[i] = s THEN <<>> ELSE Owed(i)
    BY <1>2, SessionDeleteOwed
  <2>3. [i \in Item |-> Owed(i)]' =
          [i \in Item |-> IF owner[i] = s THEN <<>> ELSE [j \in Item |-> Owed(j)][i]]
    BY <2>2
  <2>4. Channel!SessionEnd
    BY <2>1, <2>3 DEF Channel!SessionEnd
  <2> QED
    BY <2>1, <2>4 DEF Channel!Next
<1>3. ASSUME NEW s \in Session, SendPublish(s) PROVE Channel!Next
  <2>1. owner' = owner
    BY <1>3 DEF SendPublish
  <2>2. PICK u \in Seq(Cell) :
          /\ sent' = Notes(subscriptionid, u) /\ u # <<>>
          /\ \A c \in ToSet(u) : subscriptionid[c] \in Item /\ owner[subscriptionid[c]] = s
          /\ \A i \in Item : Brought(subscriptionid, u, i) \o Owed(i)' = Owed(i)
    BY <1>3, SendPublishOwed
  <2>3. /\ Notes(subscriptionid, u) \in Seq(Note)
        /\ Len(Notes(subscriptionid, u)) = Len(u)
        /\ \A k \in 1..Len(u) : Notes(subscriptionid, u)[k].item = subscriptionid[u[k]]
    <3>1. subscriptionid \in Ids
      BY QueuesNow DEF Ids
    <3> QED
      BY <3>1, NotesFacts
  <2>4. DOMAIN Notes(subscriptionid, u) = 1..Len(u)
    <3> DEFINE m == Notes(subscriptionid, u)
    <3>1. m \in Seq(Note) /\ Len(m) = Len(u)
      BY <2>3
    <3> HIDE DEF m
    <3>2. DOMAIN m = 1..Len(m)
      BY <3>1
    <3> QED
      BY <3>1, <3>2 DEF m
  <2>5. \A k \in DOMAIN sent' : owner[sent'[k].item] = s
    <3>1. \A k \in 1..Len(u) : u[k] \in ToSet(u)
      BY InSequence
    <3>2. \A k \in 1..Len(u) : sent'[k].item = subscriptionid[u[k]]
      BY <2>2, <2>3
    <3>3. DOMAIN sent' = 1..Len(u)
      BY <2>2, <2>4, Zenon
    <3> QED
      BY <2>2, <3>1, <3>2, <3>3
  <2>6. sent' # <<>>
    <3>1. 1 \in 1..Len(u)
      BY <2>2
    <3>2. 1 \in DOMAIN sent'
      BY <2>2, <2>4, <3>1, Zenon
    <3> QED
      BY <3>2
  <2>7. \A i \in Item : Share(sent', i) \o Owed(i)' = Owed(i)
    BY <2>2, Zenon DEF Brought
  <2>8. \A i \in Item : Channel!Share(sent', i) \o [j \in Item |-> Owed(j)'][i] = [j \in Item |-> Owed(j)][i]
    <3>1. ASSUME NEW i \in Item
          PROVE  Channel!Share(sent', i) \o [j \in Item |-> Owed(j)'][i] = [j \in Item |-> Owed(j)][i]
      <4>1. Channel!Share(sent', i) = Share(sent', i)
        BY ChannelShare
      <4>2. [j \in Item |-> Owed(j)'][i] = Owed(i)' /\ [j \in Item |-> Owed(j)][i] = Owed(i)
        OBVIOUS
      <4> QED
        BY <2>7, <4>1, <4>2, Zenon
    <3> QED
      BY <3>1
  <2>9. Channel!Send
    BY <2>5, <2>6, <2>8, Zenon DEF Channel!Send
  <2> QED
    BY <2>1, <2>9 DEF Channel!Next
<1>4. ASSUME NEW s \in Session, AddFreePublishSlots(s) PROVE Channel!Next
  <2>1. SameQueues
    BY <1>4, AddFreePublishSlotsInvariant
  <2>2. sent' = <<>> /\ owner' = owner /\ result' = result
    BY <1>4 DEF AddFreePublishSlots
  <2> QED
    BY <1>0, <2>1, <2>2, FrameOwed
<1>5. ASSUME NEW s \in Session, NEW r \in Result, NEW count \in 1..MaxAnswers,
             HandleMessage(s, r, count)
      PROVE  Channel!Next
  <2>1. sent' = <<>> /\ owner' = owner
    BY <1>5 DEF HandleMessage, clients
  <2> QED
    BY <1>0, <1>5, <2>1, HandleMessageOwed
<1>6. ASSUME NEW r \in Result, Return(r) PROVE Channel!Next
  <2>1. result[r] # Null /\ Announces(r, result[r].blocked)
    BY <1>6, ReturnAnnounces
  <2>2. Answer(r, result[r].blocked) /\ sent' = <<>> /\ owner' = owner
    BY <1>6 DEF Return, clients
  <2> QED
    BY <1>0, <2>1, <2>2, AnswerOwed
<1>7. ASSUME NEW r \in Result, NEW i \in Item, Accept(i, r) PROVE Channel!Next
  <2>1. result[r] # Null /\ Announces(r, result[r].blocked \cup {i})
    BY <1>7, AcceptAnnounces
  <2>2. Answer(r, result[r].blocked \cup {i}) /\ sent' = <<>> /\ owner' = owner
    BY <1>7 DEF Accept
  <2> QED
    BY <1>0, <2>1, <2>2, AnswerOwed
<1>8. ASSUME NEW i \in Item, Unsubscribe(i) PROVE Channel!Next
  <2>1. SameQueues
    BY <1>8, UnsubscribeInvariant
  <2>2. sent' = <<>> /\ owner' = owner /\ result' = result
    BY <1>8 DEF Unsubscribe
  <2> QED
    BY <1>0, <2>1, <2>2, FrameOwed
<1>9. ASSUME NEW list \in Handles, NEW b \in Block, Publish(list, b) PROVE Channel!Next
  <2>1. sent' = <<>> /\ owner' = owner
    BY <1>9 DEF Publish, clients
  <2>2. \A i \in Item : Owed(i)' \in {Owed(i), Append(Owed(i), b)}
    BY <1>9, PublishOwed
  <2>3. DOMAIN [i \in Item |-> Owed(i)]' = Item
    OBVIOUS
  <2>4. \A i \in Item : [j \in Item |-> Owed(j)]'[i] \in
          {[j \in Item |-> Owed(j)][i], Append([j \in Item |-> Owed(j)][i], b)}
    BY <2>2
  <2>5. Channel!Publish
    BY <2>1, <2>3, <2>4 DEF Channel!Publish
  <2> QED
    BY <2>1, <2>5 DEF Channel!Next
<1>10. CASE UNCHANGED vars
  <2>1. /\ owner' = owner /\ result' = result /\ sent' = sent
        /\ publish_queue' = publish_queue
        /\ data' = data /\ next' = next /\ subscriptionid' = subscriptionid
        /\ undefined' = undefined
    BY <1>10 DEF vars, clients, memory
  <2>2. SameQueues
    BY <2>1 DEF SameQueues, memory, Queue
  <2>3. \A i \in Item : Owed(i)' = Owed(i)
    BY <2>1, <2>2, FrameOwed
  <2>4. [i \in Item |-> Owed(i)]' = [i \in Item |-> Owed(i)]
    BY <2>3
  <2> QED
    BY <2>1, <2>4 DEF Channel!vars
<1> QED
  BY <1>1, <1>2, <1>3, <1>4, <1>5, <1>6, <1>7, <1>8, <1>9, <1>10 DEF Next

(* Through all links, splices and shared blocks every publish item is sent *)
(* what was published to it, in that order and once, until its session     *)
(* ends, and no message mixes sessions.                                    *)
THEOREM Implementation == Spec => ImplementsChannel
<1>1. Spec => Channel!Init
  BY InitInvariant, ChannelInit DEF Spec
<1>2. IInv /\ IInv' /\ [Next]_vars => [Channel!Next]_(Channel!vars)
  BY ChannelNext
<1> QED
  BY <1>1, <1>2, InvCorrect, PTL DEF Spec, ImplementsChannel, Channel!Spec
=============================================================================
