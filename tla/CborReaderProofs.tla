-------------------------- MODULE CborReaderProofs --------------------------
(***************************************************************************)
(* The reader of messages frees every value it allocated exactly once,     *)
(* keeps nothing of a message, and stays inside the message, for messages, *)
(* keys and handlers of any number and size and whatever allocation fails; *)
(* and every head that the library writes is read back.                    *)
(***************************************************************************)
EXTENDS CborReader, FiniteSetTheorems, FunctionTheorems, WellFoundedInduction, TLAPS

-----------------------------------------------------------------------------
(* Numbers and recursive functions.                                        *)

(* A set of numbers has a least one.                                       *)
LEMMA Least ==
    ASSUME NEW S \in SUBSET Nat, S # {}
    PROVE  \E x \in S : \A y \in S : x <= y
<1> DEFINE R == {ss \in Nat \X Nat : ss[1] < ss[2]}
<1>1. IsWellFoundedOn(R, Nat)
  BY NatLessThanWellFounded, Zenon DEF OpToRel
<1>2. PICK x \in S : \A y \in S : ~ (<<y, x>> \in R)
  <2> HIDE DEF R
  <2> QED
    BY <1>1, WFMin, Zenon
<1>3. ASSUME NEW y \in S PROVE x <= y
  <2>1. ~ (<<y, x>> \in R)
    BY <1>2
  <2> QED
    BY <2>1
<1> QED
  BY <1>3

(* Induction up to a number, for the members of a set.                     *)
LEMMA UpTo ==
    ASSUME NEW n \in Nat, NEW T, 0 \in T,
           \A i \in 1..n : i - 1 \in T => i \in T
    PROVE  \A i \in 0..n : i \in T
<1> DEFINE S == {i \in 0..n : i \notin T}
<1>1. S \subseteq Nat
  OBVIOUS
<1>2. ASSUME S # {} PROVE FALSE
  <2>1. PICK x \in S : \A y \in S : x <= y
    <3> HIDE DEF S
    <3> QED
      BY <1>1, <1>2, Least
  <2>2. x \in 1..n /\ x \notin T /\ x - 1 \notin S
    BY <2>1
  <2>3. x - 1 \in T
    BY <2>2
  <2> QED
    BY <2>2, <2>3
<1> QED
  BY <1>2

(* A function that starts with a and goes on in steps.                     *)
Runs(g, n, a, step) == g[0] = a /\ \A i \in 1..n : g[i] = step[i][g[i - 1]]

(* A function can be defined by recursion over a range of numbers.         *)
LEMMA Recursion ==
    ASSUME NEW n \in Nat, NEW S, NEW a \in S, NEW step \in [1..n -> [S -> S]]
    PROVE  \E g \in [0..n -> S] : Runs(g, n, a, step)
<1> DEFINE T == {m \in 0..n : \E g \in [0..m -> S] : Runs(g, m, a, step)}
<1>1. 0 \in T
  <2> DEFINE g == [i \in 0..0 |-> a]
  <2>1. g \in [0..0 -> S] /\ Runs(g, 0, a, step)
    BY DEF Runs
  <2> HIDE DEF g
  <2> QED
    BY <2>1
<1>2. ASSUME NEW m \in 1..n, m - 1 \in T PROVE m \in T
  <2>1. PICK g \in [0..m - 1 -> S] : Runs(g, m - 1, a, step)
    BY <1>2
  <2> DEFINE x == step[m][g[m - 1]]
             h == [i \in 0..m |-> IF i = m THEN x ELSE g[i]]
  <2>2. g[m - 1] \in S
    OBVIOUS
  <2>3. x \in S
    BY <2>2
  <2>4. h \in [0..m -> S]
    <3> HIDE DEF x
    <3> QED
      BY <2>3
  <2>5. h[0] = a
    BY <2>1 DEF Runs
  <2>6. ASSUME NEW i \in 1..m PROVE h[i] = step[i][h[i - 1]]
    <3>1. CASE i = m
      <4>1. h[m] = x /\ h[m - 1] = g[m - 1] /\ m # 0
        OBVIOUS
      <4> QED
        BY <3>1, <4>1
    <3>2. CASE i # m
      <4>1. i \in 1..m - 1 /\ h[i] = g[i] /\ h[i - 1] = g[i - 1]
        BY <3>2
      <4> QED
        BY <2>1, <4>1 DEF Runs
    <3> QED
      BY <3>1, <3>2
  <2>7. Runs(h, m, a, step)
    BY <2>5, <2>6 DEF Runs
  <2> HIDE DEF h
  <2> QED
    BY <2>4, <2>7
<1>3. \A m \in 0..n : m \in T
  <2> HIDE DEF T
  <2> QED
    BY <1>1, <1>2, UpTo
<1>4. n \in T
  <2> HIDE DEF T
  <2> QED
    BY <1>3
<1> QED
  BY <1>4

-----------------------------------------------------------------------------
(* Heads.                                                                  *)

Positive == Nat \ {0}

LEMMA ByteIsPositive == Infos \in Positive /\ Byte \in Positive /\ Byte > 1
BY HeaderAssumption DEF Infos, Byte, Positive

(* The function in Power.                                                  *)
Powers(n) == CHOOSE f : f = [i \in 0..n |-> IF i = 0 THEN 1 ELSE f[i - 1] * Byte]

LEMMA PowersDef ==
    ASSUME NEW n \in Nat
    PROVE  /\ Powers(n) \in [0..n -> Positive]
           /\ \A i \in 0..n : Powers(n)[i] = IF i = 0 THEN 1 ELSE Powers(n)[i - 1] * Byte
           /\ Power(n) = Powers(n)[n]
<1> DEFINE f == Powers(n)
           Rec(g) == g = [i \in 0..n |-> IF i = 0 THEN 1 ELSE g[i - 1] * Byte]
           step == [i \in 1..n |-> [x \in Positive |-> x * Byte]]
<1>1. ASSUME NEW x \in Positive PROVE x * Byte \in Positive
  BY ByteIsPositive DEF Positive
<1>2. step \in [1..n -> [Positive -> Positive]]
  BY <1>1
<1>3. PICK g \in [0..n -> Positive] : Runs(g, n, 1, step)
  <2> HIDE DEF step
  <2>1. 1 \in Positive
    BY DEF Positive
  <2> QED
    BY <1>2, <2>1, Recursion
<1>4. Rec(g)
  <2>1. ASSUME NEW i \in 0..n, i # 0 PROVE step[i][g[i - 1]] = g[i - 1] * Byte
    BY <2>1
  <2> HIDE DEF step
  <2>2. \A i \in 0..n : g[i] = IF i = 0 THEN 1 ELSE g[i - 1] * Byte
    BY <1>3, <2>1 DEF Runs
  <2>3. g = [i \in 0..n |-> g[i]]
    OBVIOUS
  <2> QED
    BY <2>2, <2>3
<1>5. Rec(f)
  BY <1>4 DEF Powers
<1>6. \A i \in 0..n : f[i] \in Positive
  <2> DEFINE T == {i \in 0..n : f[i] \in Positive}
  <2>1. 0 \in T
    BY <1>5 DEF Positive
  <2>2. \A i \in 1..n : i - 1 \in T => i \in T
    BY <1>5, <1>1
  <2>3. \A i \in 0..n : i \in T
    <3> HIDE DEF T
    <3> QED
      BY <2>1, <2>2, UpTo
  <2> QED
    BY <2>3
<1>7. Power(n) = f[n]
  BY DEF Power, Powers
<1> QED
  BY <1>5, <1>6, <1>7

LEMMA PowersAgree ==
    ASSUME NEW n \in Nat, NEW m \in 0..n
    PROVE  Power(m) = Powers(n)[m]
<1> DEFINE T == {i \in 0..m : Powers(m)[i] = Powers(n)[i]}
<1>1. 0 \in T
  BY PowersDef
<1>2. \A i \in 1..m : i - 1 \in T => i \in T
  BY PowersDef
<1>3. \A i \in 0..m : i \in T
  <2> HIDE DEF T
  <2> QED
    BY <1>1, <1>2, UpTo
<1> QED
  BY <1>3, PowersDef

(* What a power is.                                                        *)
LEMMA PowerDef ==
    /\ Power(0) = 1
    /\ \A n \in Nat : Power(n) \in Positive /\ Power(n + 1) = Power(n) * Byte
<1>1. Power(0) = 1
  BY PowersDef
<1>2. ASSUME NEW n \in Nat PROVE Power(n) \in Positive /\ Power(n + 1) = Power(n) * Byte
  <2>1. Power(n) = Powers(n + 1)[n]
    BY PowersAgree
  <2>2. Power(n + 1) = Powers(n + 1)[n] * Byte
    BY PowersDef
  <2>3. Power(n) \in Positive
    BY PowersDef
  <2> QED
    BY <2>1, <2>2, <2>3
<1> QED
  BY <1>1, <1>2

LEMMA LimitIsPositive == \A i \in 1..4 : Limit(i) \in Positive
BY PowerDef, HeaderAssumption DEF Limit

(* The function in FromBytes.                                              *)
Numbers(s) == CHOOSE f : f = [i \in 0..Len(s) |-> IF i = 0 THEN 0 ELSE f[i - 1] * Byte + s[i]]

LEMMA NumbersDef ==
    ASSUME NEW s \in Seq(Nat)
    PROVE  /\ Numbers(s) \in [0..Len(s) -> Nat]
           /\ \A i \in 0..Len(s) :
                Numbers(s)[i] = IF i = 0 THEN 0 ELSE Numbers(s)[i - 1] * Byte + s[i]
           /\ FromBytes(s) = Numbers(s)[Len(s)]
<1> DEFINE n == Len(s)
           f == Numbers(s)
           Rec(g) == g = [i \in 0..n |-> IF i = 0 THEN 0 ELSE g[i - 1] * Byte + s[i]]
           step == [i \in 1..n |-> [x \in Nat |-> x * Byte + s[i]]]
<1>0. n \in Nat /\ 0 \in Nat
  OBVIOUS
<1>1. ASSUME NEW x \in Nat, NEW i \in 1..n PROVE x * Byte + s[i] \in Nat
  BY ByteIsPositive DEF Positive
<1>2. /\ step \in [1..n -> [Nat -> Nat]]
      /\ \A i \in 1..n, x \in Nat : step[i][x] = x * Byte + s[i]
  BY <1>1
<1> HIDE DEF n, step
<1>3. PICK g \in [0..n -> Nat] : Runs(g, n, 0, step)
  BY <1>0, <1>2, Recursion
<1>4. Rec(g)
  <2>1. ASSUME NEW i \in 0..n, i # 0 PROVE step[i][g[i - 1]] = g[i - 1] * Byte + s[i]
    <3>1. i \in 1..n /\ g[i - 1] \in Nat
      BY <1>0, <2>1
    <3> QED
      BY <1>2, <3>1
  <2>2. \A i \in 0..n : g[i] = IF i = 0 THEN 0 ELSE g[i - 1] * Byte + s[i]
    BY <1>3, <2>1 DEF Runs
  <2>3. g = [i \in 0..n |-> g[i]]
    OBVIOUS
  <2> QED
    BY <2>2, <2>3
<1>5. Rec(f)
  BY <1>4 DEF Numbers, n
<1>6. \A i \in 0..n : f[i] \in Nat
  <2> DEFINE T == {i \in 0..n : f[i] \in Nat}
  <2>1. 0 \in T
    BY <1>0, <1>5
  <2>2. ASSUME NEW i \in 1..n, i - 1 \in T PROVE i \in T
    <3>1. i \in 0..n /\ i # 0 /\ f[i - 1] \in Nat
      BY <1>0, <2>2
    <3>2. f[i] = f[i - 1] * Byte + s[i]
      BY <1>5, <3>1
    <3> QED
      BY <3>1, <3>2, <1>1
  <2>3. \A i \in 0..n : i \in T
    <3> HIDE DEF T
    <3> QED
      BY <1>0, <2>1, <2>2, UpTo
  <2> QED
    BY <2>3
<1>7. FromBytes(s) = f[n]
  BY DEF FromBytes, Numbers, n
<1>8. /\ f = [i \in 0..n |-> IF i = 0 THEN 0 ELSE f[i - 1] * Byte + s[i]]
      /\ f \in [0..n -> Nat]
  BY <1>5, <1>6
<1> QED
  BY <1>5, <1>7, <1>8 DEF n

(* What is read of a head: numbers, and the cursor inside the message      *)
(* unless it failed.                                                       *)
HeadOK(h, s) ==
    /\ \E ok \in BOOLEAN, b, n \in Nat, next \in Nat : h = ReadHead(ok, b, n, next)
    /\ h.ok => h.begin <= Len(s)

LEMMA ReadHeadFields ==
    ASSUME NEW ok, NEW b, NEW n, NEW next
    PROVE  /\ ReadHead(ok, b, n, next).ok = ok
           /\ ReadHead(ok, b, n, next).info = b % Infos
           /\ ReadHead(ok, b, n, next).type = b \div Infos
           /\ ReadHead(ok, b, n, next).value = n
           /\ ReadHead(ok, b, n, next).begin = next
BY DEF ReadHead

LEMMA HeadIsOK ==
    ASSUME NEW s, NEW ok \in BOOLEAN, NEW b \in Nat, NEW n \in Nat, NEW next \in Nat,
           ok => next <= Len(s)
    PROVE  HeadOK(ReadHead(ok, b, n, next), s)
<1>1. ReadHead(ok, b, n, next).ok = ok /\ ReadHead(ok, b, n, next).begin = next
  BY ReadHeadFields
<1> QED
  BY <1>1 DEF HeadOK

LEMMA ReadFormsOK ==
    ASSUME NEW s \in Seq(0..Byte - 1), NEW cursor \in Nat, NEW forms \in SUBSET (1..4)
    PROVE  HeadOK(ReadForms(s, cursor, forms), s)
<1>0. FALSE \in BOOLEAN /\ TRUE \in BOOLEAN /\ 0 \in Nat /\ cursor + 1 \in Nat
  OBVIOUS
<1> DEFINE b == s[cursor + 1]
           info == b % Infos
           form == info - ADDITONAL_BYTES_1 + 1
           next == cursor + 1 + Width[form]
           h == ReadForms(s, cursor, forms)
<1>1. CASE ~Available(s, cursor, 1)
  <2>1. h = ReadHead(FALSE, 0, 0, cursor + 1)
    BY <1>1 DEF ReadForms
  <2> QED
    BY <1>0, <2>1, HeadIsOK
<1>2. CASE Available(s, cursor, 1)
  <2>1. cursor + 1 \in 1..Len(s) /\ b \in 0..Byte - 1 /\ b \in Nat
    BY <1>2, ByteIsPositive DEF Available, Positive
  <2>2. info \in Nat
    BY <2>1, ByteIsPositive DEF Positive
  <2>3. h = CASE info < ADDITONAL_BYTES_1 -> ReadHead(TRUE, b, info, cursor + 1)
              [] form \in forms /\ Available(s, cursor + 1, Width[form]) ->
                    ReadHead(TRUE, b, FromBytes(SubSeq(s, cursor + 2, next)), next)
              [] form \in forms /\ ~Available(s, cursor + 1, Width[form]) ->
                    ReadHead(FALSE, b, 0, next)
              [] OTHER -> ReadHead(FALSE, b, 0, cursor + 1)
    BY <1>2 DEF ReadForms
  <2>7. form \in Int /\ (info < ADDITONAL_BYTES_1 <=> form < 1)
    BY <2>2, HeaderAssumption
  <2>8. form \in forms => form >= 1
    <3> HIDE DEF form
    <3> QED
      OBVIOUS
  <2> HIDE DEF h, b, info, form
  <2>4. CASE info < ADDITONAL_BYTES_1
    <3>2. form \notin forms
      BY <2>4, <2>7, <2>8
    <3>1. h = ReadHead(TRUE, b, info, cursor + 1)
      BY <2>3, <2>4, <3>2
    <3> QED
      BY <1>0, <1>2, <2>1, <2>2, <3>1, HeadIsOK DEF h, Available
  <2>5. CASE info >= ADDITONAL_BYTES_1 /\ form \in forms
    <3>1. form \in 1..4 /\ Width[form] \in Nat /\ Width[form] > 0
      BY <2>5, HeaderAssumption
    <3>5. ~(info < ADDITONAL_BYTES_1)
      BY <2>7, <2>8, <2>5
    <3>2. next \in Nat /\ next >= cursor + 2
      BY <3>1
    <3>3. CASE Available(s, cursor + 1, Width[form])
      <4> DEFINE part == SubSeq(s, cursor + 2, next)
      <4>1. next <= Len(s)
        BY <3>1, <3>3 DEF Available
      <4>2. part \in Seq(Nat)
        <5>1. s \in Seq(Nat)
          BY ByteIsPositive DEF Positive
        <5> HIDE DEF next
        <5> QED
          BY <3>2, <4>1, <5>1
      <4> HIDE DEF part
      <4>3. FromBytes(part) \in Nat
        BY <4>2, NumbersDef
      <4>4. h = ReadHead(TRUE, b, FromBytes(part), next)
        BY <2>3, <3>5, <3>3, <2>5 DEF part
      <4> QED
        BY <1>0, <2>1, <3>2, <4>1, <4>3, <4>4, HeadIsOK DEF h
    <3>4. CASE ~Available(s, cursor + 1, Width[form])
      <4>1. h = ReadHead(FALSE, b, 0, next)
        BY <2>3, <3>5, <2>5, <3>4
      <4> QED
        BY <1>0, <2>1, <3>2, <4>1, HeadIsOK DEF h
    <3> QED
      BY <3>3, <3>4
  <2>6. CASE info >= ADDITONAL_BYTES_1 /\ form \notin forms
    <3>5. ~(info < ADDITONAL_BYTES_1)
      BY <2>2, <2>6, HeaderAssumption
    <3>1. h = ReadHead(FALSE, b, 0, cursor + 1)
      BY <2>3, <3>5, <2>6
    <3> QED
      BY <1>0, <2>1, <3>1, HeadIsOK DEF h
  <2> QED
    BY <2>2, <2>4, <2>5, <2>6, HeaderAssumption DEF h
<1> QED
  BY <1>1, <1>2

LEMMA ReadHeader32OK ==
    ASSUME NEW s \in Seq(0..Byte - 1), NEW cursor \in Nat, NEW type
    PROVE  LET h == ReadHeader32(s, cursor, type)
           IN  /\ h.ok \in BOOLEAN /\ h.value \in Nat /\ h.begin \in Nat
               /\ h.ok => h.begin <= Len(s)
<1> DEFINE h == ReadForms(s, cursor, 1..3)
<1>1. HeadOK(h, s)
  <2>1. 1..3 \subseteq 1..4
    OBVIOUS
  <2> QED
    BY <2>1, ReadFormsOK
<1>2. PICK ok \in BOOLEAN, b, n \in Nat, next \in Nat : h = ReadHead(ok, b, n, next)
  BY <1>1 DEF HeadOK
<1> HIDE DEF h
<1>3. ReadHeader32(s, cursor, type) = [h EXCEPT !.ok = (h.ok /\ h.type = type)]
  BY DEF ReadHeader32, h
<1> DEFINE e == [h EXCEPT !.ok = (h.ok /\ h.type = type)]
<1>4. /\ e.ok = (h.ok /\ h.type = type) /\ e.value = n /\ e.begin = next
      /\ h.ok = ok /\ h.begin = next
  BY <1>2 DEF ReadHead
<1> HIDE DEF e
<1>5. e.ok \in BOOLEAN
  BY <1>4
<1>6. e.ok => next <= Len(s)
  BY <1>1, <1>4 DEF HeadOK
<1> QED
  BY <1>3, <1>4, <1>5, <1>6 DEF e

LEMMA ReadHeader64OK ==
    ASSUME NEW s \in Seq(0..Byte - 1), NEW cursor \in Nat
    PROVE  LET h == ReadHeader64(s, cursor)
           IN  /\ h.ok \in BOOLEAN /\ h.value \in Nat /\ h.begin \in Nat
               /\ h.ok => h.begin <= Len(s)
<1> DEFINE h == ReadForms(s, cursor, 1..4)
           special == /\ Available(s, cursor, 1)
                      /\ h.info = Indefinite
                      /\ h.type \in {ByteString, TextString, Array, Map}
<1>1. HeadOK(h, s)
  BY ReadFormsOK
<1>2. PICK ok \in BOOLEAN, b, n \in Nat, next \in Nat : h = ReadHead(ok, b, n, next)
  BY <1>1 DEF HeadOK
<1>3. ReadHeader64(s, cursor) = IF special THEN [h EXCEPT !.ok = TRUE] ELSE h
  BY DEF ReadHeader64
<1>4. special => h.begin = cursor + 1
  <2> DEFINE c == s[cursor + 1]
             info == c % Infos
             form == info - ADDITONAL_BYTES_1 + 1
  <2> SUFFICES ASSUME special PROVE h.begin = cursor + 1
    OBVIOUS
  <2>1. cursor + 1 \in 1..Len(s) /\ c \in 0..Byte - 1
    BY ByteIsPositive DEF Available, Positive
  <2>2. info \in Nat
    BY <2>1, ByteIsPositive DEF Positive
  <2>3. h = CASE info < ADDITONAL_BYTES_1 -> ReadHead(TRUE, c, info, cursor + 1)
              [] form \in 1..4 /\ Available(s, cursor + 1, Width[form]) ->
                    ReadHead(TRUE, c, FromBytes(SubSeq(s, cursor + 2, cursor + 1 + Width[form])),
                             cursor + 1 + Width[form])
              [] form \in 1..4 /\ ~Available(s, cursor + 1, Width[form]) ->
                    ReadHead(FALSE, c, 0, cursor + 1 + Width[form])
              [] OTHER -> ReadHead(FALSE, c, 0, cursor + 1)
    BY DEF ReadForms
  <2>7. \E ok1, n1, next1 : h = ReadHead(ok1, c, n1, next1)
    <3>1. CASE info < ADDITONAL_BYTES_1
      <4>1. form \notin 1..4
        BY <2>2, <3>1, HeaderAssumption
      <4> HIDE DEF h, form, info, c
      <4> QED
        BY <2>3, <3>1, <4>1
    <3>2. CASE ~(info < ADDITONAL_BYTES_1)
      <4> HIDE DEF h, form, info, c
      <4> QED
        BY <2>3, <3>2
    <3> QED
      BY <3>1, <3>2
  <2>4. h.info = info
    BY <2>7, ReadHeadFields
  <2>5. info = ADDITONAL_BYTES_1 + 7
    <3> HIDE DEF h, info
    <3> QED
      BY <2>4, HeaderAssumption DEF Indefinite, Infos
  <2>6. ~(info < ADDITONAL_BYTES_1) /\ form \notin 1..4
    BY <2>5, HeaderAssumption
  <2> HIDE DEF h, info, form
  <2> QED
    BY <2>3, <2>6 DEF ReadHead
<1>5. CASE special
  <2>1. cursor + 1 <= Len(s)
    BY <1>5 DEF Available
  <2> DEFINE e == [h EXCEPT !.ok = TRUE]
  <2>2. ReadHeader64(s, cursor) = e
    BY <1>3, <1>5
  <2> HIDE DEF h, special
  <2>3. e.ok = TRUE /\ e.value = n /\ e.begin = h.begin
    BY <1>2 DEF ReadHead
  <2> QED
    BY <1>4, <1>5, <2>1, <2>2, <2>3
<1>6. CASE ~special
  <2>1. ReadHeader64(s, cursor) = h
    BY <1>3, <1>6
  <2> HIDE DEF h, special
  <2> QED
    BY <1>1, <1>2, <2>1 DEF HeadOK, ReadHead
<1> QED
  BY <1>5, <1>6

-----------------------------------------------------------------------------
(* The inductive invariant.                                                *)

(* Who holds an allocated value: a known key of the map, another pair of   *)
(* the map, an open call, the caller of one that has returned, or another  *)
(* value, as one of its children.                                          *)
Holds(kind, a, b, c) ==
    \/ kind = "map" /\ a \in Key /\ b = 0 /\ c = map[a] /\ c # Null
    \/ kind = "additional" /\ a \in 1..Len(additional) /\ b = 0 /\ c = additional[a].value
    \/ kind = "stack" /\ a \in 1..Len(stack) /\ b = 0 /\ c = stack[a].cell
    \/ kind = "returned" /\ a = 0 /\ b = 0 /\ c = returned /\ c \in Cell
    \/ kind = "child" /\ a \in Allocated /\ b \in 1..Len(heap[a].children)
          /\ c = heap[a].children[b]

(* Exactly one holds each of the allocated values, and nobody another.     *)
HeldAllocated == \A kind, a, b, c : Holds(kind, a, b, c) => c \in Allocated

HeldOnce ==
    \A kind, a, b, kind2, a2, b2, c :
        Holds(kind, a, b, c) /\ Holds(kind2, a2, b2, c) => kind = kind2 /\ a = a2 /\ b = b2

(* No values hold one another in a ring: among any of them is one that is  *)
(* held by another.                                                        *)
Outside(kind, a, cells) == ~(kind = "child" /\ a \in cells)

Rooted ==
    \A cells : cells \subseteq Allocated /\ cells # {} =>
        \E kind, a, b, c : c \in cells /\ Holds(kind, a, b, c) /\ Outside(kind, a, cells)

Forest == HeldAllocated /\ HeldOnce /\ Rooted

(* The types.                                                              *)
IsNode(v) ==
    /\ v = [type |-> v.type, value |-> v.value, data |-> v.data, children |-> v.children]
    /\ v.children \in Seq(Cell)

HeapOK == Allocated \subseteq Cell /\ \A c \in Allocated : IsNode(heap[c])

OpenValue == [cell : Cell, parts : Nat \cup {None}]

PairRead == [key : Seq(0..Byte - 1), value : Cell]

Phase == {"head", "id", "map", "key", "value", "handle", "done", "asserted"}

Kinds == {"unknown", "hello", "none", "processed", "ids", "items"}

Types ==
    /\ request \in Request
    /\ begin \in Nat /\ remaining \in Nat /\ item_count \in Nat /\ room \in Nat
    /\ handler \in Kinds
    /\ phase \in Phase
    /\ key \in Seq(0..Byte - 1)
    /\ stack \in Seq(OpenValue)
    /\ returned \in Pointer \cup {None}
    /\ map \in [Key -> Pointer]
    /\ additional \in Seq(PairRead)
    /\ ret \in BOOLEAN /\ denied \in BOOLEAN
    /\ HeapOK

(* A string has only pieces of its own type, and none when it is complete. *)
Strings ==
    /\ \A c \in Allocated : \A i \in 1..Len(heap[c].children) :
          IsString(heap[c].type) => heap[heap[c].children[i]].type = heap[c].type
    /\ \A c \in Allocated :
          IsString(heap[c].type) /\ (\A i \in 1..Len(stack) : stack[i].cell # c)
              => heap[c].children = <<>>

NoPairs == (\A k \in Key : map[k] = Null) /\ additional = <<>>

(* Where the loops are, and what is left to be read.                       *)
Control ==
    /\ phase # "value" => stack = <<>> /\ returned = None
    /\ phase \in {"head", "id", "map", "asserted"} => NoPairs
    /\ phase = "done" => NoPairs \/ (handler = "hello" /\ ~ret)
    /\ handler = "hello" => request.hello
    /\ phase \in {"map", "key", "value", "handle"} => handler \in {"hello", "items"}
    /\ phase \in {"id", "map", "key", "value", "handle"} => remaining > 0
    /\ phase = "value" => item_count > 0
    /\ room = 0 => additional = <<>>
    /\ Len(additional) <= room
    /\ phase \in {"key", "value"} /\ room > 0 => Len(additional) + item_count <= room

(* Only a failed read leaves the cursor behind the end of the message.     *)
Cursor == stack # <<>> /\ returned # Null => begin <= Len(bytes)

IInv == Types /\ Forest /\ Strings /\ Control /\ Cursor

-----------------------------------------------------------------------------
(* The heap.                                                               *)

(* A new value goes to a free cell, and leaves the others alone.           *)
LEMMA NewCellIsFree ==
    ASSUME HeapOK, Allocated # Cell
    PROVE  NewCell \in Cell /\ NewCell \notin Allocated
<1> DEFINE S == Cell \ Allocated
<1>0. Allocated \subseteq Cell /\ Cell \subseteq Nat
  BY MaxCellsAssumption DEF Cell, HeapOK
<1>1. S \in SUBSET Nat /\ S # {}
  BY <1>0
<1>2. \E c \in S : \A d \in S : c <= d
  <2> HIDE DEF S
  <2> QED
    BY <1>1, Least
<1>3. NewCell \in S
  BY <1>2 DEF NewCell
<1> QED
  BY <1>3

LEMMA PutIs ==
    ASSUME NEW c, NEW v, heap' = Put(c, v)
    PROVE  /\ Allocated' = Allocated \cup {c}
           /\ heap'[c] = v
           /\ \A d \in Allocated \ {c} : heap'[d] = heap[d]
BY DEF Put, Allocated

LEMMA WithoutIs ==
    ASSUME NEW T, heap' = Without(T)
    PROVE  /\ Allocated' = Allocated \ T
           /\ \A d \in Allocated' : d \in Allocated /\ heap'[d] = heap[d]
BY DEF Without, Allocated

(* A tree is its cell, and the children of what is in it.                  *)
LEMMA TreeIs ==
    ASSUME HeapOK, HeldAllocated, NEW c \in Allocated
    PROVE  /\ c \in Tree(c) /\ Tree(c) \subseteq Allocated
           /\ \A d \in Tree(c) : \A i \in 1..Len(heap[d].children) :
                heap[d].children[i] \in Tree(c)
           /\ \A x \in Tree(c) :
                x = c \/ \E d \in Tree(c) : \E i \in 1..Len(heap[d].children) :
                            x = heap[d].children[i]
<1> DEFINE Closed(cells) ==
             /\ c \in cells
             /\ \A d \in cells : \A i \in 1..Len(heap[d].children) :
                  heap[d].children[i] \in cells
           T == Tree(c)
<1>1. ASSUME NEW d \in Allocated, NEW cells
      PROVE  Range(heap[d].children) \subseteq cells
               <=> \A i \in 1..Len(heap[d].children) : heap[d].children[i] \in cells
  <2>1. heap[d].children \in Seq(Cell)
    BY DEF HeapOK, IsNode
  <2>2. DOMAIN heap[d].children = 1..Len(heap[d].children)
    BY <2>1
  <2> QED
    BY <2>2 DEF Range
<1>2. T = {d \in Allocated : \A cells \in SUBSET Allocated : Closed(cells) => d \in cells}
  <2>1. ASSUME NEW cells \in SUBSET Allocated
        PROVE  (\A d \in cells : Range(heap[d].children) \subseteq cells)
                 <=> \A d \in cells : \A i \in 1..Len(heap[d].children) :
                       heap[d].children[i] \in cells
    BY <1>1
  <2> QED
    BY <2>1 DEF Tree
<1>3. \A d \in Allocated : \A i \in 1..Len(heap[d].children) :
        heap[d].children[i] \in Allocated
  BY DEF HeldAllocated, Holds
<1> HIDE DEF T
<1>4. Closed(T)
  <2>1. c \in T
    BY <1>2
  <2>2. ASSUME NEW d \in T, NEW i \in 1..Len(heap[d].children)
        PROVE  heap[d].children[i] \in T
    <3>1. heap[d].children[i] \in Allocated
      BY <1>2, <1>3
    <3>2. ASSUME NEW cells \in SUBSET Allocated, Closed(cells)
          PROVE  heap[d].children[i] \in cells
      <4>1. d \in cells
        BY <1>2, <3>2
      <4> QED
        BY <3>2, <4>1
    <3> QED
      BY <1>2, <3>1, <3>2
  <2> QED
    BY <2>1, <2>2
<1>5. ASSUME NEW x \in T, x # c,
             \A d \in T : \A i \in 1..Len(heap[d].children) : x # heap[d].children[i]
      PROVE  FALSE
  <2> DEFINE cells == T \ {x}
  <2>1. Closed(cells)
    BY <1>4, <1>5
  <2>2. cells \in SUBSET Allocated
    BY <1>2
  <2> HIDE DEF cells
  <2>3. x \in cells
    BY <1>2, <2>1, <2>2
  <2> QED
    BY <2>3 DEF cells
<1>6. T \subseteq Allocated
  BY <1>2
<1> QED
  BY <1>4, <1>5, <1>6 DEF T

(* All the trees of some cells.                                            *)
Trees(roots) == UNION {Tree(c) : c \in roots}

LEMMA TreesAre ==
    ASSUME HeapOK, Forest, NEW roots \in SUBSET Allocated,
           \A r \in roots : \E kind, a, b : Holds(kind, a, b, r) /\ kind # "child"
    PROVE  /\ Trees(roots) \subseteq Allocated
           /\ \A kind, a, b, c : Holds(kind, a, b, c) =>
                (c \in Trees(roots) <=> c \in roots \/ (kind = "child" /\ a \in Trees(roots)))
           /\ \A kind, a, b, c : Holds(kind, a, b, c) /\ kind = "child" => c \notin roots
<1> USE DEF Forest
<1>1. ASSUME NEW r \in roots
      PROVE  /\ r \in Tree(r) /\ Tree(r) \subseteq Allocated
             /\ \A d \in Tree(r) : \A i \in 1..Len(heap[d].children) :
                  heap[d].children[i] \in Tree(r)
             /\ \A x \in Tree(r) :
                  x = r \/ \E d \in Tree(r) : \E i \in 1..Len(heap[d].children) :
                              x = heap[d].children[i]
  BY TreeIs
<1>2. Trees(roots) \subseteq Allocated
  BY <1>1 DEF Trees
<1>3. ASSUME NEW kind, NEW a, NEW b, NEW c, Holds(kind, a, b, c), c \in Trees(roots)
      PROVE  c \in roots \/ (kind = "child" /\ a \in Trees(roots))
  <2>1. PICK r \in roots : c \in Tree(r)
    BY <1>3 DEF Trees
  <2>2. SUFFICES ASSUME c # r PROVE kind = "child" /\ a \in Trees(roots)
    BY <2>1
  <2>3. PICK d \in Tree(r) : \E i \in 1..Len(heap[d].children) : c = heap[d].children[i]
    BY <1>1, <2>1, <2>2
  <2>4. PICK i \in 1..Len(heap[d].children) : c = heap[d].children[i]
    BY <2>3
  <2>5. d \in Allocated
    BY <1>1
  <2>6. Holds("child", d, i, c)
    BY <2>4, <2>5 DEF Holds
  <2>7. kind = "child" /\ a = d
    BY <1>3, <2>6 DEF HeldOnce
  <2> QED
    BY <2>7 DEF Trees
<1>4. ASSUME NEW kind, NEW a, NEW b, NEW c, Holds(kind, a, b, c),
             c \in roots \/ (kind = "child" /\ a \in Trees(roots))
      PROVE  c \in Trees(roots)
  <2>1. CASE c \in roots
    BY <1>1, <2>1 DEF Trees
  <2>2. CASE kind = "child" /\ a \in Trees(roots)
    <3>1. PICK r \in roots : a \in Tree(r)
      BY <2>2 DEF Trees
    <3>2. b \in 1..Len(heap[a].children) /\ c = heap[a].children[b]
      BY <1>4, <2>2 DEF Holds
    <3>3. c \in Tree(r)
      BY <1>1, <3>1, <3>2
    <3> QED
      BY <3>3 DEF Trees
  <2> QED
    BY <1>4, <2>1, <2>2
<1>5. ASSUME NEW kind, NEW a, NEW b, NEW c, Holds(kind, a, b, c), kind = "child", c \in roots
      PROVE  FALSE
  BY <1>5 DEF HeldOnce
<1> QED
  BY <1>2, <1>3, <1>4, <1>5

-----------------------------------------------------------------------------
(* What changes hands.                                                     *)

(* Nobody gives anything away or gets anything.                            *)
LEMMA ForestSame ==
    ASSUME Forest, Allocated' = Allocated,
           \A kind, a, b, c : Holds(kind, a, b, c)' <=> Holds(kind, a, b, c)
    PROVE  Forest'
<1>1. HeldAllocated' /\ HeldOnce'
  BY DEF Forest, HeldAllocated, HeldOnce
<1>2. Rooted'
  BY DEF Forest, Rooted, Outside
<1> QED
  BY <1>1, <1>2 DEF Forest

(* A value that is new, or was somebody else's, is now held by this one;   *)
(* the values in T are freed.                                              *)
LEMMA ForestPassed ==
    ASSUME Forest, NEW T, NEW m, m \in Allocated', Allocated' \ {m} = (Allocated \ T) \ {m},
           NEW kind0, NEW a0, NEW b0,
           kind0 = "child" => a0 # m /\ \E kind, a, b : kind # "child" /\ Holds(kind, a, b, a0)',
           \A kind, a, b, c : Holds(kind, a, b, c)' <=>
                IF c = m THEN kind = kind0 /\ a = a0 /\ b = b0
                         ELSE Holds(kind, a, b, c) /\ c \notin T
    PROVE  Forest'
<1>1. HeldAllocated'
  BY DEF Forest, HeldAllocated
<1>2. HeldOnce'
  BY DEF Forest, HeldOnce
<1>3. ASSUME NEW cells, cells \subseteq Allocated', cells # {}
      PROVE  \E kind, a, b, c : c \in cells /\ Holds(kind, a, b, c)' /\ Outside(kind, a, cells)
  <2>1. CASE m \notin cells
    <3>1. cells \subseteq Allocated /\ \A c \in cells : c \notin T /\ c # m
      BY <1>3, <2>1
    <3>2. PICK kind, a, b, c : c \in cells /\ Holds(kind, a, b, c) /\ Outside(kind, a, cells)
      BY <1>3, <3>1 DEF Forest, Rooted
    <3>3. Holds(kind, a, b, c)'
      BY <3>1, <3>2
    <3> QED
      BY <3>2, <3>3
  <2>2. CASE m \in cells /\ Outside(kind0, a0, cells)
    BY <2>2
  <2>3. CASE m \in cells /\ ~Outside(kind0, a0, cells)
    <3>1. kind0 = "child" /\ a0 \in cells
      BY <2>3 DEF Outside
    <3>2. PICK kind, a, b : kind # "child" /\ Holds(kind, a, b, a0)'
      BY <3>1
    <3> QED
      BY <3>1, <3>2 DEF Outside
  <2> QED
    BY <2>1, <2>2, <2>3
<1>4. Rooted'
  BY <1>3 DEF Rooted
<1> QED
  BY <1>1, <1>2, <1>4 DEF Forest

(* The same, when a root holds it now.                                     *)
LEMMA ForestMoved ==
    ASSUME Forest, NEW T, NEW m, m \in Allocated', Allocated' \ {m} = (Allocated \ T) \ {m},
           NEW kind0, NEW a0, NEW b0, kind0 # "child",
           \A kind, a, b, c : Holds(kind, a, b, c)' <=>
                IF c = m THEN kind = kind0 /\ a = a0 /\ b = b0
                         ELSE Holds(kind, a, b, c) /\ c \notin T
    PROVE  Forest'
BY ForestPassed

(* The children of what is left after trees were freed.                    *)
LEMMA ChildrenLeft ==
    ASSUME HeapOK, Forest, NEW roots \in SUBSET Allocated,
           \A r \in roots : \E kind, a, b : Holds(kind, a, b, r) /\ kind # "child",
           heap' = Without(Trees(roots))
    PROVE  \A a, b, c : Holds("child", a, b, c)' <=>
                          Holds("child", a, b, c) /\ c \notin Trees(roots)
<1>1. /\ Allocated' = Allocated \ Trees(roots)
      /\ \A d \in Allocated' : d \in Allocated /\ heap'[d] = heap[d]
  BY WithoutIs
<1>2. \A a, b, c : Holds("child", a, b, c)' <=>
                     Holds("child", a, b, c) /\ a \notin Trees(roots)
  BY <1>1 DEF Holds
<1>3. \A a, b, c : Holds("child", a, b, c) =>
                     (c \in Trees(roots) <=> a \in Trees(roots))
  BY TreesAre
<1> QED
  BY <1>2, <1>3

(* Whoever holds the roots of trees frees them.                            *)
LEMMA ForestFreed ==
    ASSUME HeapOK, Forest, NEW roots \in SUBSET Allocated,
           \A r \in roots : \E kind, a, b : Holds(kind, a, b, r) /\ kind # "child",
           heap' = Without(Trees(roots)),
           \A kind, a, b, c : kind # "child" =>
                (Holds(kind, a, b, c)' <=> Holds(kind, a, b, c) /\ c \notin roots)
    PROVE  Forest'
<1>1. Allocated' = Allocated \ Trees(roots)
  BY WithoutIs
<1>2. \A kind, a, b, c : Holds(kind, a, b, c)' <=>
                           Holds(kind, a, b, c) /\ c \notin Trees(roots)
  <2>1. \A kind, a, b, c : kind # "child" /\ Holds(kind, a, b, c) =>
          (c \in Trees(roots) <=> c \in roots)
    BY TreesAre
  <2>2. \A a, b, c : Holds("child", a, b, c)' <=>
                       Holds("child", a, b, c) /\ c \notin Trees(roots)
    BY ChildrenLeft
  <2> QED
    BY <2>1, <2>2
<1>3. HeldAllocated' /\ HeldOnce'
  BY <1>1, <1>2 DEF Forest, HeldAllocated, HeldOnce
<1>4. ASSUME NEW cells, cells \subseteq Allocated', cells # {}
      PROVE  \E kind, a, b, c : c \in cells /\ Holds(kind, a, b, c)' /\ Outside(kind, a, cells)
  <2>1. cells \subseteq Allocated /\ \A c \in cells : c \notin Trees(roots)
    BY <1>1, <1>4
  <2>2. PICK kind, a, b, c : c \in cells /\ Holds(kind, a, b, c) /\ Outside(kind, a, cells)
    BY <1>4, <2>1 DEF Forest, Rooted
  <2>3. Holds(kind, a, b, c)'
    BY <1>2, <2>1, <2>2
  <2> QED
    BY <2>2, <2>3
<1>5. Rooted'
  BY <1>4 DEF Rooted
<1> QED
  BY <1>3, <1>5 DEF Forest

(* What was returned takes the place of another value of the map.          *)
LEMMA ForestReplaced ==
    ASSUME HeapOK, Forest, NEW k, NEW r, Holds("map", k, 0, r), heap' = Freed(r),
           NEW m, Holds("returned", 0, 0, m),
           \A kind, a, b, c : kind # "child" =>
                (Holds(kind, a, b, c)' <=>
                   IF c = m THEN kind = "map" /\ a = k /\ b = 0
                            ELSE Holds(kind, a, b, c) /\ c # r)
    PROVE  Forest'
<1> DEFINE roots == {r}
<1>a. heap' = Without(Trees(roots))
  BY DEF Freed, Trees
<1>b. roots \in SUBSET Allocated
  BY DEF Forest, HeldAllocated
<1>c. \A x \in roots : \E kind, a, b : Holds(kind, a, b, x) /\ kind # "child"
  OBVIOUS
<1>d. m # r
  BY DEF Forest, HeldOnce
<1>e. m \notin roots /\ \A c : c \in roots <=> c = r
  BY <1>d
<1> HIDE DEF roots
<1> DEFINE T == Trees(roots)
<1>1. Allocated' = Allocated \ T
  BY <1>a, WithoutIs
<1>2. /\ \A kind, a, b, c : kind # "child" /\ Holds(kind, a, b, c) =>
           (c \in T <=> c \in roots)
      /\ m \in Allocated /\ m \notin T
  BY <1>b, <1>c, <1>e, TreesAre DEF Forest, HeldAllocated
<1>3. \A a, b, c : Holds("child", a, b, c)' <=> Holds("child", a, b, c) /\ c \notin T
  BY <1>a, <1>b, <1>c, ChildrenLeft
<1>4. \A a, b : ~Holds("child", a, b, m)
  BY DEF Forest, HeldOnce
<1> HIDE DEF T
<1>5. \A kind, a, b, c : Holds(kind, a, b, c)' <=>
                IF c = m THEN kind = "map" /\ a = k /\ b = 0
                         ELSE Holds(kind, a, b, c) /\ c \notin T
  <2> TAKE kind, a, b, c
  <2>1. CASE kind = "child"
    BY <1>3, <1>4, <2>1
  <2>2. CASE kind # "child"
    BY <1>2, <1>e, <2>2
  <2> QED
    BY <2>1, <2>2
<1>6. m \in Allocated' /\ Allocated' \ {m} = (Allocated \ T) \ {m}
  BY <1>1, <1>2
<1> QED
  BY <1>5, <1>6, ForestMoved

(* Neither map nor calls give or take anything.                            *)
LEMMA ForestQuiet ==
    ASSUME Forest, UNCHANGED <<heap, stack, map>>, Len(additional') = Len(additional),
           \A i \in 1..Len(additional) : additional'[i].value = additional[i].value,
           returned' = returned \/ (returned \notin Cell /\ returned' \notin Cell)
    PROVE  Forest'
<1>1. \A kind, a, b, c : Holds(kind, a, b, c)' <=> Holds(kind, a, b, c)
  BY DEF Holds, Allocated
<1> QED
  BY <1>1, ForestSame DEF Allocated

LEMMA NoneIsNoCell == None \notin Cell /\ Null \notin Cell /\ Null # None
BY MaxCellsAssumption DEF Cell

(* A new value is returned.                                                *)
LEMMA ForestNewReturned ==
    ASSUME Types, Forest, Allocated # Cell, NEW v, v.children = <<>>,
           heap' = Put(NewCell, v), returned = None, returned' = NewCell,
           UNCHANGED <<stack, map, additional>>
    PROVE  Forest'
<1>1. NewCell \in Cell /\ NewCell \notin Allocated
  BY NewCellIsFree DEF Types
<1>2. /\ Allocated' = Allocated \cup {NewCell}
      /\ heap'[NewCell] = v
      /\ \A d \in Allocated \ {NewCell} : heap'[d] = heap[d]
  BY PutIs
<1>3. Len(v.children) = 0
  OBVIOUS
<1>4. \A kind, a, b : ~Holds(kind, a, b, NewCell)
  BY <1>1 DEF Forest, HeldAllocated
<1> DEFINE m == NewCell
<1> HIDE DEF m
<1>5. \A kind, a, b, c : Holds(kind, a, b, c)' <=>
                IF c = m THEN kind = "returned" /\ a = 0 /\ b = 0
                         ELSE Holds(kind, a, b, c) /\ c \notin {}
  <2> TAKE kind, a, b, c
  <2>1. CASE kind = "child"
    BY <1>1, <1>2, <1>3, <1>4, <2>1 DEF Holds, m
  <2>2. CASE kind = "returned"
    BY <1>1, <2>2, NoneIsNoCell DEF Holds, m
  <2>3. CASE kind \notin {"child", "returned"}
    BY <1>4, <2>3 DEF Holds, m
  <2> QED
    BY <2>1, <2>2, <2>3
<1>6. m \in Allocated' /\ Allocated' \ {m} = (Allocated \ {}) \ {m}
  BY <1>2 DEF m
<1> QED
  BY <1>5, <1>6, ForestMoved

(* A new value is opened.                                                  *)
LEMMA ForestNewOpened ==
    ASSUME Types, Forest, Allocated # Cell, NEW v, v.children = <<>>,
           heap' = Put(NewCell, v), returned = None, returned' = None,
           NEW parts, stack' = Append(stack, [cell |-> NewCell, parts |-> parts]),
           UNCHANGED <<map, additional>>
    PROVE  Forest'
<1>1. NewCell \in Cell /\ NewCell \notin Allocated
  BY NewCellIsFree DEF Types
<1>2. /\ Allocated' = Allocated \cup {NewCell}
      /\ heap'[NewCell] = v
      /\ \A d \in Allocated \ {NewCell} : heap'[d] = heap[d]
  BY PutIs
<1>3. Len(v.children) = 0
  OBVIOUS
<1>4. \A kind, a, b : ~Holds(kind, a, b, NewCell)
  BY <1>1 DEF Forest, HeldAllocated
<1>5. /\ Len(stack') = Len(stack) + 1 /\ Len(stack) \in Nat
      /\ stack'[Len(stack) + 1].cell = NewCell
      /\ \A i \in 1..Len(stack) : stack'[i] = stack[i]
  BY DEF Types
<1> DEFINE m == NewCell
           n == Len(stack) + 1
<1>6. \A kind, a, b, c : Holds(kind, a, b, c)' <=>
                IF c = m THEN kind = "stack" /\ a = n /\ b = 0
                         ELSE Holds(kind, a, b, c) /\ c \notin {}
  <2> TAKE kind, a, b, c
  <2>1. CASE kind = "child"
    BY <1>1, <1>2, <1>3, <1>4, <2>1 DEF Holds
  <2>2. CASE kind = "stack"
    <3>1. a \in 1..Len(stack') <=> a \in 1..Len(stack) \/ a = n
      BY <1>5
    <3>2. Len(stack) + 1 \notin 1..Len(stack)
      BY <1>5
    <3> QED
      BY <1>4, <1>5, <2>2, <3>1, <3>2 DEF Holds
  <2>3. CASE kind \notin {"child", "stack"}
    BY <1>1, <1>4, <2>3, NoneIsNoCell DEF Holds
  <2> QED
    BY <2>1, <2>2, <2>3
<1>7. m \in Allocated' /\ Allocated' \ {m} = (Allocated \ {}) \ {m}
  BY <1>2
<1> HIDE DEF m, n
<1> QED
  BY <1>6, <1>7, ForestMoved

(* The stack, when its last value is taken off.                            *)
LEMMA StackFront ==
    ASSUME Types, stack # <<>>
    PROVE  /\ Len(stack) \in Nat /\ Len(stack) > 0
           /\ Open = stack[Len(stack)] /\ Open.cell \in Cell
           /\ Open.parts \in Nat \cup {None}
           /\ Len(Front(stack)) = Len(stack) - 1
           /\ \A i \in 1..Len(stack) - 1 : Front(stack)[i] = stack[i]
           /\ Front(stack) \in Seq(OpenValue)
           /\ Holds("stack", Len(stack), 0, Open.cell)
<1>1. stack \in Seq(OpenValue) /\ Len(stack) \in Nat /\ Len(stack) > 0
  BY DEF Types
<1>2. Open = stack[Len(stack)] /\ Open \in OpenValue
  BY <1>1 DEF Open, Last
<1>3. Open.cell \in Cell /\ Open.parts \in Nat \cup {None}
  BY <1>2 DEF OpenValue
<1>4. /\ Len(Front(stack)) = Len(stack) - 1
      /\ \A i \in 1..Len(stack) - 1 : Front(stack)[i] = stack[i]
      /\ Front(stack) \in Seq(OpenValue)
  <2> DEFINE n == Len(stack) - 1
  <2>1. n \in Nat /\ n <= Len(stack)
    BY <1>1
  <2> HIDE DEF n
  <2>2. /\ Len(SubSeq(stack, 1, n)) = n
        /\ \A i \in 1..n : SubSeq(stack, 1, n)[i] = stack[i]
        /\ SubSeq(stack, 1, n) \in Seq(OpenValue)
    BY <1>1, <2>1
  <2> QED
    BY <2>2 DEF Front, n
<1>5. Holds("stack", Len(stack), 0, Open.cell)
  BY <1>1, <1>2 DEF Holds
<1> QED
  BY <1>1, <1>2, <1>3, <1>4, <1>5

LEMMA OpenIsAllocated ==
    ASSUME Types, Forest, stack # <<>>
    PROVE  /\ Open.cell \in Allocated
           /\ Children \in Seq(Cell) /\ Len(Children) \in Nat
           /\ Children = heap[Open.cell].children
<1>1. Open.cell \in Allocated
  BY StackFront DEF Forest, HeldAllocated
<1>2. heap[Open.cell].children \in Seq(Cell)
  BY <1>1 DEF Types, HeapOK, IsNode
<1> QED
  BY <1>1, <1>2 DEF Children

(* What a link changes.                                                    *)
LEMMA LinkIs ==
    ASSUME Types, Forest, Link
    PROVE  LET o == Open.cell
               n == Len(Children)
           IN  /\ o \in Allocated /\ returned \in Cell /\ n \in Nat
               /\ Allocated' = Allocated
               /\ \A d \in Allocated \ {o} : heap'[d] = heap[d]
               /\ IsNode(heap'[o])
               /\ heap'[o].type = heap[o].type
               /\ Len(heap'[o].children) = n + 1
               /\ heap'[o].children[n + 1] = returned
               /\ \A i \in 1..n : heap'[o].children[i] = heap[o].children[i]
<1> DEFINE o == Open.cell
           n == Len(Children)
           new == Append(Children, returned)
<1>1. o \in Allocated /\ n \in Nat /\ Children \in Seq(Cell) /\ IsNode(heap[o])
  BY OpenIsAllocated DEF Link, Types, HeapOK
<1>2. returned \in Cell
  BY DEF Link, Fits
<1>3. /\ new \in Seq(Cell) /\ Len(new) = n + 1 /\ new[n + 1] = returned
      /\ \A i \in 1..n : new[i] = Children[i]
  BY <1>1, <1>2
<1>4. heap' = [heap EXCEPT ![o] = [heap[o] EXCEPT !.children = new]]
  BY DEF Link, Children
<1> HIDE DEF o, new
<1>5. /\ Allocated' = Allocated
      /\ heap'[o] = [heap[o] EXCEPT !.children = new]
      /\ \A d \in Allocated \ {o} : heap'[d] = heap[d]
  BY <1>1, <1>4 DEF Allocated
<1>6. heap'[o] = [type |-> heap[o].type, value |-> heap[o].value, data |-> heap[o].data,
                  children |-> new]
  BY <1>1, <1>5 DEF IsNode
<1>7. heap'[o].children = new /\ heap'[o].type = heap[o].type /\ IsNode(heap'[o])
  BY <1>3, <1>6 DEF IsNode
<1>8. Children = heap[o].children
  BY DEF Children, o
<1> QED
  BY <1>1, <1>2, <1>3, <1>5, <1>7, <1>8 DEF o

LEMMA ForestLink ==
    ASSUME Types, Forest, Link
    PROVE  Forest'
<1> DEFINE o == Open.cell
           n == Len(Children)
           m == returned
<1>1. /\ o \in Allocated /\ m \in Cell /\ n \in Nat
      /\ Allocated' = Allocated
      /\ \A d \in Allocated \ {o} : heap'[d] = heap[d]
      /\ Len(heap'[o].children) = n + 1
      /\ heap'[o].children[n + 1] = m
      /\ \A i \in 1..n : heap'[o].children[i] = heap[o].children[i]
  BY LinkIs
<1>2. n = Len(heap[o].children)
  BY DEF Children
<1>3. /\ returned' = None /\ UNCHANGED <<stack, map, additional>>
  BY DEF Link, Return, calls, pairs
<1> HIDE DEF o, n
<1>4. Holds("returned", 0, 0, m)
  BY <1>1 DEF Holds
<1>5. \A kind, a, b : Holds(kind, a, b, m) => kind = "returned" /\ a = 0 /\ b = 0
  BY <1>4 DEF Forest, HeldOnce
<1>6. \A kind, a, b, c : Holds(kind, a, b, c)' <=>
                IF c = m THEN kind = "child" /\ a = o /\ b = n + 1
                         ELSE Holds(kind, a, b, c) /\ c \notin {}
  <2> TAKE kind, a, b, c
  <2>1. CASE kind = "child" /\ a = o
    <3>1. b \in 1..Len(heap'[o].children) <=> b \in 1..n \/ b = n + 1
      BY <1>1
    <3>2. n + 1 \notin 1..n
      BY <1>1
    <3>3. Holds(kind, a, b, c)' <=> (b \in 1..n /\ c = heap[o].children[b]) \/ (b = n + 1 /\ c = m)
      BY <1>1, <2>1, <3>1, <3>2 DEF Holds
    <3>4. Holds(kind, a, b, c) <=> b \in 1..n /\ c = heap[o].children[b]
      BY <1>1, <1>2, <2>1 DEF Holds
    <3> QED
      BY <1>5, <2>1, <3>2, <3>3, <3>4
  <2>2. CASE kind = "child" /\ a # o
    <3>1. Holds(kind, a, b, c)' <=> Holds(kind, a, b, c)
      BY <1>1, <2>2 DEF Holds
    <3> QED
      BY <1>5, <2>2, <3>1
  <2>3. CASE kind = "returned"
    BY <1>1, <1>3, <2>3, NoneIsNoCell DEF Holds
  <2>4. CASE kind \notin {"child", "returned"}
    <3>1. Holds(kind, a, b, c)' <=> Holds(kind, a, b, c)
      BY <1>3, <2>4 DEF Holds
    <3> QED
      BY <1>5, <2>4, <3>1
  <2> QED
    BY <2>1, <2>2, <2>3, <2>4
<1>7. m \in Allocated
  BY <1>4 DEF Forest, HeldAllocated
<1>8. m \in Allocated' /\ Allocated' \ {m} = (Allocated \ {}) \ {m}
  BY <1>1, <1>7
<1>9. PICK x, l : x = o /\ l = Len(stack)
  OBVIOUS
<1>10. x # m /\ Holds("stack", l, 0, x)'
  <2>1. Holds("stack", l, 0, x)
    BY <1>9, StackFront DEF Link, o
  <2> QED
    BY <1>5, <1>6, <2>1
<1>11. \A kind, a, b, c : Holds(kind, a, b, c)' <=>
                IF c = m THEN kind = "child" /\ a = x /\ b = n + 1
                         ELSE Holds(kind, a, b, c) /\ c \notin {}
  BY <1>6, <1>9
<1> HIDE DEF m
<1> QED
  BY <1>8, <1>10, <1>11, ForestPassed

(* An open value is freed, with what a call returned for it.               *)
LEMMA ForestAbandoned ==
    ASSUME Types, Forest, stack # <<>>, stack' = Front(stack), returned' = Null,
           UNCHANGED <<map, additional>>,
           heap' = Without(Tree(Open.cell) \cup IF returned \in Cell THEN Tree(returned) ELSE {})
    PROVE  Forest'
<1> DEFINE roots == {Open.cell} \cup {c \in {returned} : c \in Cell}
           n == Len(stack)
<1>1. Trees(roots) = Tree(Open.cell) \cup IF returned \in Cell THEN Tree(returned) ELSE {}
  <2>1. CASE returned \in Cell
    <3>1. roots = {Open.cell, returned}
      BY <2>1
    <3> QED
      BY <2>1, <3>1 DEF Trees
  <2>2. CASE returned \notin Cell
    <3>1. roots = {Open.cell}
      BY <2>2
    <3> QED
      BY <2>2, <3>1 DEF Trees
  <2> QED
    BY <2>1, <2>2
<1>2. heap' = Without(Trees(roots))
  BY <1>1
<1>3. /\ n \in Nat /\ n > 0 /\ Len(stack') = n - 1
      /\ \A i \in 1..n - 1 : stack'[i] = stack[i]
      /\ Holds("stack", n, 0, Open.cell)
  BY StackFront
<1>4. returned \in Cell => Holds("returned", 0, 0, returned)
  BY DEF Holds
<1>5. \A r \in roots : r \in Allocated /\ \E kind, a, b : Holds(kind, a, b, r) /\ kind # "child"
  <2>1. Open.cell \in Allocated /\ \E kind, a, b : Holds(kind, a, b, Open.cell) /\ kind # "child"
    BY <1>3 DEF Forest, HeldAllocated
  <2>2. returned \in Cell => /\ returned \in Allocated
                             /\ \E kind, a, b : Holds(kind, a, b, returned) /\ kind # "child"
    BY <1>4 DEF Forest, HeldAllocated
  <2> QED
    BY <2>1, <2>2
<1>6. ASSUME NEW kind, NEW a, NEW b, NEW c, kind # "child"
      PROVE  Holds(kind, a, b, c)' <=> Holds(kind, a, b, c) /\ c \notin roots
  <2>1. Holds(kind, a, b, c)' <=>
          Holds(kind, a, b, c) /\ ~(kind = "stack" /\ a = n) /\ kind # "returned"
    <3>1. CASE kind = "stack"
      <4>1. a \in 1..Len(stack') <=> a \in 1..n /\ a # n
        BY <1>3
      <4> QED
        BY <1>3, <3>1, <4>1 DEF Holds
    <3>2. CASE kind = "returned"
      BY <3>2, NoneIsNoCell DEF Holds
    <3>3. CASE kind \notin {"stack", "returned"}
      BY <1>6, <3>3 DEF Holds
    <3> QED
      BY <3>1, <3>2, <3>3
  <2>2. ASSUME Holds(kind, a, b, c)
        PROVE  c \in roots <=> (kind = "stack" /\ a = n) \/ kind = "returned"
    <3>1. c = Open.cell <=> kind = "stack" /\ a = n
      <4>1. c = Open.cell => kind = "stack" /\ a = n
        BY <1>3, <2>2 DEF Forest, HeldOnce
      <4>2. kind = "stack" /\ a = n => c = Open.cell
        BY <1>3, <2>2 DEF Holds
      <4> QED
        BY <4>1, <4>2
    <3>2. (c = returned /\ returned \in Cell) <=> kind = "returned"
      <4>1. c = returned /\ returned \in Cell => kind = "returned"
        BY <1>4, <2>2 DEF Forest, HeldOnce
      <4>2. kind = "returned" => c = returned /\ returned \in Cell
        BY <2>2 DEF Holds
      <4> QED
        BY <4>1, <4>2
    <3> QED
      BY <3>1, <3>2
  <2> QED
    BY <2>1, <2>2
<1>7. roots \in SUBSET Allocated
  BY <1>5
<1>8. HeapOK
  BY DEF Types
<1> HIDE DEF roots
<1> QED
  BY <1>2, <1>5, <1>6, <1>7, <1>8, ForestFreed

(* An open value is complete, and returned.                                *)
LEMMA ForestReturned ==
    ASSUME Types, Forest, stack # <<>>, stack' = Front(stack),
           returned = None, returned' = Open.cell, UNCHANGED <<heap, map, additional>>
    PROVE  Forest'
<1> DEFINE m == Open.cell
           n == Len(stack)
<1>1. /\ n \in Nat /\ n > 0 /\ Len(stack') = n - 1 /\ m \in Cell
      /\ \A i \in 1..n - 1 : stack'[i] = stack[i]
      /\ Holds("stack", n, 0, m)
  BY StackFront
<1>2. \A kind, a, b : Holds(kind, a, b, m) => kind = "stack" /\ a = n /\ b = 0
  BY <1>1 DEF Forest, HeldOnce
<1>3. m \in Allocated
  BY <1>1 DEF Forest, HeldAllocated
<1> HIDE DEF m
<1>4. \A kind, a, b, c : Holds(kind, a, b, c)' <=>
                IF c = m THEN kind = "returned" /\ a = 0 /\ b = 0
                         ELSE Holds(kind, a, b, c) /\ c \notin {}
  <2> TAKE kind, a, b, c
  <2>1. CASE kind = "stack"
    <3>1. a \in 1..Len(stack') <=> a \in 1..n /\ a # n
      BY <1>1
    <3>2. Holds(kind, a, b, c)' <=> Holds(kind, a, b, c) /\ a # n
      BY <1>1, <2>1, <3>1 DEF Holds
    <3>3. Holds(kind, n, b, c) => c = m
      BY <1>1, <2>1 DEF Holds
    <3> QED
      BY <1>2, <2>1, <3>2, <3>3
  <2>2. CASE kind = "returned"
    BY <1>1, <2>2, NoneIsNoCell DEF Holds, m
  <2>3. CASE kind \notin {"stack", "returned"}
    <3>1. Holds(kind, a, b, c)' <=> Holds(kind, a, b, c)
      BY <2>3 DEF Holds, Allocated
    <3> QED
      BY <1>2, <2>3, <3>1
  <2> QED
    BY <2>1, <2>2, <2>3
<1>5. m \in Allocated' /\ Allocated' \ {m} = (Allocated \ {}) \ {m}
  BY <1>3 DEF Allocated
<1> QED
  BY <1>4, <1>5, ForestMoved

(* The pieces of a string: they are its own, and have no pieces.           *)
LEMMA PiecesAre ==
    ASSUME Types, Forest, Strings, stack # <<>>, IsString(heap[Open.cell].type)
    PROVE  LET T == Range(Children)
           IN  /\ T \subseteq Allocated /\ Open.cell \notin T
               /\ \A a, b, c : Holds("child", a, b, c) => (c \in T <=> a = Open.cell)
               /\ \A kind, a, b, c : Holds(kind, a, b, c) /\ kind # "child" => c \notin T
               /\ \A c \in T : heap[c].children = <<>>
<1> DEFINE T == Range(Children)
           o == Open.cell
<1>1. o \in Allocated /\ Children \in Seq(Cell) /\ Children = heap[o].children
  BY OpenIsAllocated
<1>2. T = {Children[i] : i \in 1..Len(Children)}
  BY <1>1 DEF Range
<1> HIDE DEF o, T
<1>3. \A c \in T : \E i : Holds("child", o, i, c) /\ i \in 1..Len(Children)
                            /\ c = Children[i]
  BY <1>1, <1>2 DEF Holds
<1>4. \A i, c : Holds("child", o, i, c) => c \in T
  BY <1>1, <1>2 DEF Holds
<1>5. T \subseteq Allocated
  BY <1>3 DEF Forest, HeldAllocated
<1>6. \A kind, a, b, c : Holds(kind, a, b, c) /\ c \in T => kind = "child" /\ a = o
  BY <1>3 DEF Forest, HeldOnce
<1>7. o \notin T
  <2>1. Holds("stack", Len(stack), 0, o)
    BY StackFront DEF o
  <2> QED
    BY <1>6, <2>1
<1>8. ASSUME NEW c \in T PROVE heap[c].children = <<>>
  <2>1. PICK i \in 1..Len(Children) : c = Children[i]
    BY <1>2
  <2>2. IsString(heap[c].type)
    <3>1. heap[c].type = heap[o].type
      BY <1>1, <2>1 DEF Strings, o
    <3> QED
      BY <3>1 DEF o
  <2>3. \A j \in 1..Len(stack) : stack[j].cell # c
    <3>1. \A j \in 1..Len(stack) : Holds("stack", j, 0, stack[j].cell)
      BY DEF Holds
    <3> QED
      BY <1>6, <3>1
  <2>4. c \in Allocated
    BY <1>5
  <2> QED
    BY <2>2, <2>3, <2>4 DEF Strings
<1>9. \A a, b, c : Holds("child", a, b, c) => (c \in T <=> a = o)
  BY <1>4, <1>6
<1>10. \A kind, a, b, c : Holds(kind, a, b, c) /\ kind # "child" => c \notin T
  BY <1>6
<1> QED
  BY <1>5, <1>7, <1>8, <1>9, <1>10 DEF o, T

LEMMA JoinIs ==
    ASSUME Types, Forest, Strings, Join
    PROVE  LET T == Range(Children)
               o == Open.cell
           IN  /\ Allocated' = Allocated \ T /\ o \in Allocated'
               /\ \A d \in Allocated' \ {o} : d \in Allocated /\ heap'[d] = heap[d]
               /\ IsNode(heap'[o]) /\ heap'[o].children = <<>>
               /\ heap'[o].type = heap[o].type
<1> DEFINE T == Range(Children)
           o == Open.cell
           joined == FlattenSeq([i \in DOMAIN Children |-> heap[Children[i]].data])
           whole == Text(heap[Open.cell].type, joined)
<1>1. o \in Allocated /\ o \notin T /\ T \subseteq Allocated
  BY OpenIsAllocated, PiecesAre DEF Join, Closing
<1>2. heap' = [Without(T) EXCEPT ![o] = whole]
  BY DEF Join
<1>3. whole.children = <<>> /\ whole.type = heap[o].type /\ IsNode(whole)
  <2> HIDE DEF joined
  <2>1. whole = [type |-> heap[o].type, value |-> Len(joined), data |-> joined,
                 children |-> <<>>]
    BY DEF Text, Leaf
  <2>2. <<>> \in Seq(Cell)
    OBVIOUS
  <2> QED
    BY <2>1, <2>2 DEF IsNode
<1> HIDE DEF T, o, whole
<1>4. /\ Allocated' = Allocated \ T /\ heap'[o] = whole
      /\ \A d \in Allocated' \ {o} : d \in Allocated /\ heap'[d] = heap[d]
  BY <1>1, <1>2 DEF Without, Allocated
<1> QED
  BY <1>1, <1>3, <1>4 DEF T, o

LEMMA ForestJoined ==
    ASSUME Types, Forest, Strings, Join
    PROVE  Forest'
<1> DEFINE T == Range(Children)
           m == Open.cell
           n == Len(stack)
<1>1. /\ stack # <<>> /\ stack' = Front(stack) /\ returned = None
      /\ IsString(heap[Open.cell].type)
      /\ returned' = m /\ UNCHANGED <<map, additional>>
  BY DEF Join, Closing, Return, pairs
<1>2. /\ n \in Nat /\ n > 0 /\ Len(stack') = n - 1 /\ m \in Cell
      /\ \A i \in 1..n - 1 : stack'[i] = stack[i]
      /\ Holds("stack", n, 0, m)
  BY <1>1, StackFront
<1>3. \A kind, a, b : Holds(kind, a, b, m) => kind = "stack" /\ a = n /\ b = 0
  BY <1>2 DEF Forest, HeldOnce
<1>4. /\ Allocated' = Allocated \ T /\ m \in Allocated'
      /\ \A d \in Allocated' \ {m} : d \in Allocated /\ heap'[d] = heap[d]
      /\ heap'[m].children = <<>>
  BY JoinIs
<1>5. /\ \A a, b, c : Holds("child", a, b, c) => (c \in T <=> a = m)
      /\ \A kind, a, b, c : Holds(kind, a, b, c) /\ kind # "child" => c \notin T
      /\ \A c \in T : heap[c].children = <<>>
  BY <1>1, PiecesAre
<1>6. \A c \in T : Len(heap[c].children) = 0
  BY <1>5
<1>7. Len(heap'[m].children) = 0
  BY <1>4
<1> HIDE DEF m, T
<1>8. \A a, b, c : Holds("child", a, b, c)' <=> Holds("child", a, b, c) /\ c \notin T
  <2> TAKE a, b, c
  <2>1. CASE a = m
    <3>1. ~Holds("child", a, b, c)'
      BY <1>7, <2>1 DEF Holds
    <3> QED
      BY <1>5, <2>1, <3>1
  <2>2. CASE a \in T
    <3>1. ~Holds("child", a, b, c)
      BY <1>6, <2>2 DEF Holds
    <3>2. ~Holds("child", a, b, c)'
      BY <1>4, <2>2 DEF Holds
    <3> QED
      BY <3>1, <3>2
  <2>3. CASE a # m /\ a \notin T
    <3>1. Holds("child", a, b, c)' <=> Holds("child", a, b, c)
      BY <1>4, <2>3 DEF Holds
    <3> QED
      BY <1>5, <2>3, <3>1
  <2> QED
    BY <2>1, <2>2, <2>3
<1>9. \A kind, a, b, c : Holds(kind, a, b, c)' <=>
                IF c = m THEN kind = "returned" /\ a = 0 /\ b = 0
                         ELSE Holds(kind, a, b, c) /\ c \notin T
  <2> TAKE kind, a, b, c
  <2>1. CASE kind = "stack"
    <3>1. a \in 1..Len(stack') <=> a \in 1..n /\ a # n
      BY <1>2
    <3>2. Holds(kind, a, b, c)' <=> Holds(kind, a, b, c) /\ a # n
      BY <1>2, <2>1, <3>1 DEF Holds
    <3>3. Holds(kind, n, b, c) => c = m
      BY <1>1, <1>2, <2>1, StackFront DEF Holds, m
    <3> QED
      BY <1>3, <1>5, <2>1, <3>2, <3>3
  <2>2. CASE kind = "returned"
    <3>1. Holds(kind, a, b, c)' <=> a = 0 /\ b = 0 /\ c = m
      BY <1>1, <1>2, <2>2 DEF Holds
    <3>2. ~Holds(kind, a, b, c)
      BY <1>1, <2>2, NoneIsNoCell DEF Holds
    <3> QED
      BY <2>2, <3>1, <3>2
  <2>3. CASE kind = "child"
    BY <1>3, <1>8, <2>3
  <2>4. CASE kind \notin {"stack", "returned", "child"}
    <3>1. Holds(kind, a, b, c)' <=> Holds(kind, a, b, c)
      BY <1>1, <2>4 DEF Holds
    <3> QED
      BY <1>3, <1>5, <2>4, <3>1
  <2> QED
    BY <2>1, <2>2, <2>3, <2>4
<1>10. m \in Allocated' /\ Allocated' \ {m} = (Allocated \ T) \ {m}
  BY <1>4
<1> QED
  BY <1>9, <1>10, ForestMoved

-----------------------------------------------------------------------------
(* The pairs of a map.                                                     *)

(* What a call returned is stored under a known key, instead of another.   *)
LEMMA ForestKnown ==
    ASSUME Types, Forest, StoreKnown
    PROVE  Forest'
<1> DEFINE m == returned
           roots == {c \in {map[key]} : c # Null}
<1>1. /\ m \in Cell /\ key \in Key /\ map' = [map EXCEPT ![key] = m] /\ returned' = None
      /\ heap' = (IF map[key] = Null THEN heap ELSE Freed(map[key]))
      /\ UNCHANGED <<additional, stack>>
  BY DEF StoreKnown, ValueRead
<1>2. /\ map \in [Key -> Pointer]
      /\ map'[key] = m /\ \A k \in Key \ {key} : map'[k] = map[k]
  BY <1>1 DEF Types
<1>3. Holds("returned", 0, 0, m)
  BY <1>1 DEF Holds
<1>4. \A kind, a, b : Holds(kind, a, b, m) => kind = "returned" /\ a = 0 /\ b = 0
  BY <1>3 DEF Forest, HeldOnce
<1>5. m \in Allocated
  BY <1>3 DEF Forest, HeldAllocated
<1>6. map[key] # Null => Holds("map", key, 0, map[key])
  BY <1>1 DEF Holds
<1>7. \A kind, a, b : map[key] # Null /\ Holds(kind, a, b, map[key]) => kind = "map" /\ a = key
  BY <1>6 DEF Forest, HeldOnce
<1> HIDE DEF m
<1>8. ASSUME NEW kind, NEW a, NEW b, NEW c, kind # "child"
      PROVE  Holds(kind, a, b, c)' <=>
                IF c = m THEN kind = "map" /\ a = key /\ b = 0
                         ELSE Holds(kind, a, b, c) /\ c \notin roots
  <2>1. CASE kind = "map" /\ a = key
    <3>1. Holds(kind, a, b, c)' <=> b = 0 /\ c = m
      BY <1>1, <1>2, <2>1, NoneIsNoCell DEF Holds
    <3>2. Holds(kind, a, b, c) => c \in roots
      BY <2>1 DEF Holds
    <3> QED
      BY <2>1, <3>1, <3>2
  <2>2. CASE kind = "map" /\ a # key
    <3>1. Holds(kind, a, b, c)' <=> Holds(kind, a, b, c)
      BY <1>2, <2>2 DEF Holds
    <3> QED
      BY <1>4, <1>7, <2>2, <3>1
  <2>3. CASE kind = "returned"
    <3>1. ~Holds(kind, a, b, c)'
      BY <1>1, <2>3, NoneIsNoCell DEF Holds
    <3>2. Holds(kind, a, b, c) => c = m
      BY <2>3 DEF Holds, m
    <3> QED
      BY <2>3, <3>1, <3>2
  <2>4. CASE kind \notin {"map", "returned"}
    <3>1. Holds(kind, a, b, c)' <=> Holds(kind, a, b, c)
      BY <1>1, <1>8, <2>4 DEF Holds
    <3> QED
      BY <1>4, <1>7, <2>4, <3>1
  <2> QED
    BY <2>1, <2>2, <2>3, <2>4
<1>9. CASE map[key] = Null
  <2>1. heap' = heap /\ roots = {}
    BY <1>1, <1>9
  <2>2. \A a, b, c : Holds("child", a, b, c)' <=> Holds("child", a, b, c)
    BY <2>1 DEF Holds, Allocated
  <2>3. \A kind, a, b, c : Holds(kind, a, b, c)' <=>
                IF c = m THEN kind = "map" /\ a = key /\ b = 0
                         ELSE Holds(kind, a, b, c) /\ c \notin {}
    <3> TAKE kind, a, b, c
    <3>1. CASE kind = "child"
      BY <1>4, <2>2, <3>1
    <3>2. CASE kind # "child"
      BY <1>8, <2>1, <3>2
    <3> QED
      BY <3>1, <3>2
  <2>4. m \in Allocated' /\ Allocated' \ {m} = (Allocated \ {}) \ {m}
    BY <1>5, <2>1 DEF Allocated
  <2> QED
    BY <2>3, <2>4, ForestMoved
<1>10. CASE map[key] # Null
  <2>1. Holds("map", key, 0, map[key]) /\ heap' = Freed(map[key])
    BY <1>1, <1>6, <1>10
  <2>2. \A c : c \in roots <=> c = map[key]
    BY <1>10
  <2>3. \A kind, a, b, c : kind # "child" =>
          (Holds(kind, a, b, c)' <=>
             IF c = m THEN kind = "map" /\ a = key /\ b = 0
                      ELSE Holds(kind, a, b, c) /\ c # map[key])
    BY <1>8, <2>2
  <2>4. HeapOK
    BY DEF Types
  <2> QED
    BY <1>3, <2>1, <2>3, <2>4, ForestReplaced
<1> QED
  BY <1>9, <1>10

(* What a call returned is stored under another key.                       *)
LEMMA ForestAdditional ==
    ASSUME Types, Forest, StoreAdditional
    PROVE  Forest'
<1> DEFINE m == returned
           n == Len(additional) + 1
<1>1. /\ m \in Cell /\ returned' = None
      /\ additional' = Append(additional, [key |-> key, value |-> m])
      /\ UNCHANGED <<heap, map, stack>>
  BY DEF StoreAdditional, ValueRead
<1>2. /\ Len(additional') = n /\ Len(additional) \in Nat /\ additional'[n].value = m
      /\ \A i \in 1..Len(additional) : additional'[i] = additional[i]
  BY <1>1 DEF Types
<1>3. Holds("returned", 0, 0, m)
  BY <1>1 DEF Holds
<1>4. \A kind, a, b : Holds(kind, a, b, m) => kind = "returned" /\ a = 0 /\ b = 0
  BY <1>3 DEF Forest, HeldOnce
<1>5. m \in Allocated
  BY <1>3 DEF Forest, HeldAllocated
<1>6. \A kind, a, b, c : Holds(kind, a, b, c)' <=>
                IF c = m THEN kind = "additional" /\ a = n /\ b = 0
                         ELSE Holds(kind, a, b, c) /\ c \notin {}
  <2> TAKE kind, a, b, c
  <2>1. CASE kind = "additional"
    <3>1. (a \in 1..Len(additional') <=> a \in 1..Len(additional) \/ a = n)
          /\ n \notin 1..Len(additional)
      BY <1>2
    <3>2. Holds(kind, a, b, c)' <=> Holds(kind, a, b, c) \/ (a = n /\ b = 0 /\ c = m)
      BY <1>2, <2>1, <3>1 DEF Holds
    <3>3. Holds(kind, a, b, c) => a # n
      BY <2>1, <3>1 DEF Holds
    <3> HIDE DEF m, n
    <3> QED
      BY <1>4, <2>1, <3>2, <3>3
  <2>2. CASE kind = "returned"
    <3>1. ~Holds(kind, a, b, c)'
      BY <1>1, <2>2, NoneIsNoCell DEF Holds
    <3>2. Holds(kind, a, b, c) => c = m
      BY <2>2 DEF Holds
    <3> QED
      BY <2>2, <3>1, <3>2
  <2>3. CASE kind \notin {"additional", "returned"}
    <3>1. Holds(kind, a, b, c)' <=> Holds(kind, a, b, c)
      BY <1>1, <2>3 DEF Holds, Allocated
    <3> QED
      BY <1>4, <2>3, <3>1
  <2> QED
    BY <2>1, <2>2, <2>3
<1>7. m \in Allocated' /\ Allocated' \ {m} = (Allocated \ {}) \ {m}
  BY <1>1, <1>5 DEF Allocated
<1> HIDE DEF m, n
<1> QED
  BY <1>6, <1>7, ForestMoved

(* What a call returned is freed.                                          *)
LEMMA ForestDenied ==
    ASSUME Types, Forest, StoreDenied
    PROVE  Forest'
<1> DEFINE m == returned
           roots == {m}
<1>1. /\ m \in Cell /\ returned' = None /\ heap' = Freed(m)
      /\ UNCHANGED <<map, additional, stack>>
  BY DEF StoreDenied, ValueRead, pairs
<1>2. Holds("returned", 0, 0, m)
  BY <1>1 DEF Holds
<1>3. \A kind, a, b : Holds(kind, a, b, m) => kind = "returned" /\ a = 0 /\ b = 0
  BY <1>2 DEF Forest, HeldOnce
<1>4. ASSUME NEW kind, NEW a, NEW b, NEW c, kind # "child"
      PROVE  Holds(kind, a, b, c)' <=> Holds(kind, a, b, c) /\ c \notin roots
  <2>1. CASE kind = "returned"
    BY <1>1, <2>1, NoneIsNoCell DEF Holds
  <2>2. CASE kind # "returned"
    <3>1. Holds(kind, a, b, c)' <=> Holds(kind, a, b, c)
      BY <1>1, <1>4, <2>2 DEF Holds
    <3> QED
      BY <1>3, <2>2, <3>1
  <2> QED
    BY <2>1, <2>2
<1>5. heap' = Without(Trees(roots))
  BY <1>1 DEF Freed, Trees
<1>6. roots \in SUBSET Allocated
  BY <1>2 DEF Forest, HeldAllocated
<1>7. \A r \in roots : \E kind, a, b : Holds(kind, a, b, r) /\ kind # "child"
  BY <1>2
<1>8. HeapOK
  BY DEF Types
<1> HIDE DEF roots
<1> QED
  BY <1>4, <1>5, <1>6, <1>7, <1>8, ForestFreed

(* All values of the map are freed.                                        *)
LEMMA ForestCleared ==
    ASSUME Types, Forest, Clear, UNCHANGED <<stack, returned>>
    PROVE  Forest'
<1> DEFINE roots == Held
<1>1. /\ heap' = Without(Trees(roots)) /\ map' = [k \in Key |-> Null]
      /\ additional' = <<>>
  BY DEF Clear, Trees
<1>2. /\ Len(additional') = 0 /\ \A k \in Key : map'[k] = Null
  BY <1>1
<1>3. \A c : c \in roots <=>
               (\E k \in Key : c = map[k] /\ c # Null)
               \/ \E i \in 1..Len(additional) : c = additional[i].value
  <2>1. DOMAIN map = Key /\ DOMAIN additional = 1..Len(additional)
    BY DEF Types
  <2> QED
    BY <2>1 DEF Held, Range
<1> HIDE DEF roots
<1>4. \A r \in roots : \E kind, a, b :
        Holds(kind, a, b, r) /\ kind \in {"map", "additional"}
  BY <1>3 DEF Holds
<1>5. \A kind, a, b, c : Holds(kind, a, b, c) =>
        (c \in roots <=> kind \in {"map", "additional"})
  <2> SUFFICES ASSUME NEW kind, NEW a, NEW b, NEW c, Holds(kind, a, b, c)
               PROVE  c \in roots <=> kind \in {"map", "additional"}
    OBVIOUS
  <2>1. c \in roots => kind \in {"map", "additional"}
    BY <1>4 DEF Forest, HeldOnce
  <2>2. kind \in {"map", "additional"} => c \in roots
    BY <1>3 DEF Holds
  <2> QED
    BY <2>1, <2>2
<1>6. ASSUME NEW kind, NEW a, NEW b, NEW c, kind # "child"
      PROVE  Holds(kind, a, b, c)' <=> Holds(kind, a, b, c) /\ c \notin roots
  <2>1. CASE kind \in {"map", "additional"}
    <3>1. ~Holds(kind, a, b, c)'
      BY <1>2, <2>1 DEF Holds
    <3> QED
      BY <1>5, <2>1, <3>1
  <2>2. CASE kind \notin {"map", "additional"}
    <3>1. Holds(kind, a, b, c)' <=> Holds(kind, a, b, c)
      BY <1>6, <2>2 DEF Holds
    <3> QED
      BY <1>5, <2>2, <3>1
  <2> QED
    BY <2>1, <2>2
<1>7. roots \in SUBSET Allocated
  BY <1>4 DEF Forest, HeldAllocated
<1>8. \A r \in roots : \E kind, a, b : Holds(kind, a, b, r) /\ kind # "child"
  BY <1>4
<1>9. HeapOK
  BY DEF Types
<1> QED
  BY <1>1, <1>6, <1>7, <1>8, <1>9, ForestFreed

-----------------------------------------------------------------------------
(* Every step keeps the forest.                                            *)

(* What the steps that read a value have in common.                        *)
LEMMA CallingIs ==
    ASSUME Types, Calling
    PROVE  LET h == ReadHeader64(bytes, begin)
           IN  /\ returned = None /\ phase = "value"
               /\ h.ok \in BOOLEAN /\ h.value \in Nat /\ h.begin \in Nat
               /\ h.ok => h.begin <= Len(bytes)
               /\ bytes \in Seq(0..Byte - 1)
<1>1. bytes \in Seq(0..Byte - 1) /\ begin \in Nat
  BY RequestAssumption DEF Types, bytes
<1>2. returned = None /\ phase = "value"
  BY DEF Calling
<1> QED
  BY <1>1, <1>2, ReadHeader64OK

(* A scalar is a value without children.                                   *)
LEMMA ScalarIs ==
    ASSUME NEW h, h.type \in {UnsignedInteger, NegativeInteger, FloatAndSimple}
    PROVE  /\ Scalar(h).children = <<>> /\ IsNode(Scalar(h))
           /\ ~IsString(Scalar(h).type)
<1> DEFINE Fine(v) == v.children = <<>> /\ IsNode(v) /\ ~IsString(v.type)
<1>1. ASSUME NEW t \in {"UINT64", "INT64", "FLOAT", "DOUBLE", "FALSE", "TRUE", "NULL",
                        "UNDEFINED", "SIMPLE_VALUE"}, NEW n, NEW d
      PROVE  Fine(Leaf(t, n, d))
  <2>1. Leaf(t, n, d) = [type |-> t, value |-> n, data |-> d, children |-> <<>>]
    BY DEF Leaf
  <2>2. <<>> \in Seq(Cell)
    OBVIOUS
  <2> QED
    BY <2>1, <2>2 DEF IsNode, IsString
<1> HIDE DEF Fine
<1>2. ASSUME NEW n PROVE Fine(SimpleValue(n))
  <2>1. CASE n = SimpleFalse
    BY <1>1, <2>1 DEF SimpleValue, Number, SimpleFalse, SimpleTrue, SimpleNull, SimpleUndefined
  <2> QED
    BY <1>1 DEF SimpleValue, Number
<1> DEFINE f == CASE h.info = ADDITONAL_BYTES_1 + 1 -> Leaf("FLOAT", h.value, <<2>>)
                  [] h.info = ADDITONAL_BYTES_1 + 2 -> Leaf("FLOAT", h.value, <<3>>)
                  [] h.info = ADDITONAL_BYTES_1 + 3 -> Leaf("DOUBLE", h.value, <<4>>)
                  [] OTHER -> SimpleValue(h.value)
<1>3. Fine(f)
  BY <1>1, <1>2
<1>4. Scalar(h) = CASE h.type = UnsignedInteger -> Number("UINT64", h.value)
                    [] h.type = NegativeInteger -> Number("INT64", Negative(h.value))
                    [] h.type = FloatAndSimple -> f
  BY DEF Scalar
<1> HIDE DEF f
<1>5. Fine(Number("UINT64", h.value)) /\ Fine(Number("INT64", Negative(h.value)))
  BY <1>1 DEF Number
<1>6. Fine(Scalar(h))
  BY <1>3, <1>4, <1>5 DEF UnsignedInteger, NegativeInteger, FloatAndSimple
<1> QED
  BY <1>6 DEF Fine

LEMMA TextIs ==
    ASSUME NEW t, NEW s
    PROVE  Text(t, s).children = <<>> /\ Text(t, s).type = t /\ IsNode(Text(t, s))
<1>1. Text(t, s) = [type |-> t, value |-> Len(s), data |-> s, children |-> <<>>]
  BY DEF Text, Leaf
<1>2. <<>> \in Seq(Cell)
  OBVIOUS
<1> QED
  BY <1>1, <1>2 DEF IsNode

LEMMA NumberIs ==
    ASSUME NEW t, NEW n
    PROVE  Number(t, n).children = <<>> /\ Number(t, n).type = t /\ IsNode(Number(t, n))
<1>1. Number(t, n) = [type |-> t, value |-> n, data |-> <<>>, children |-> <<>>]
  BY DEF Number, Leaf
<1>2. <<>> \in Seq(Cell)
  OBVIOUS
<1> QED
  BY <1>1, <1>2 DEF IsNode

LEMMA ForestStep ==
    ASSUME IInv, [Next]_vars
    PROVE  Forest'
<1>1. Types /\ Forest /\ Strings /\ Control
  BY DEF IInv
<1>2. CASE HandleInMessage \/ ReadId \/ ReadKey \/ EndMap
  BY <1>1, <1>2, ForestQuiet DEF HandleInMessage, ReadId, ReadKey, EndMap, calls, pairs
<1>3. CASE ReadInvalid \/ ReadDenied
  <2>1. returned = None /\ returned' = Null /\ UNCHANGED <<heap, stack, map, additional>>
    BY <1>3 DEF ReadInvalid, ReadDenied, Return, pairs, Calling
  <2> QED
    BY <1>1, <2>1, ForestQuiet, NoneIsNoCell
<1>4. CASE ReadScalar
  <2> DEFINE v == Scalar(ReadHeader64(bytes, begin))
  <2>1. v.children = <<>>
    BY <1>4, ScalarIs DEF ReadScalar
  <2>2. /\ Allocated # Cell /\ heap' = Put(NewCell, v)
        /\ returned = None /\ returned' = NewCell /\ UNCHANGED <<stack, map, additional>>
    BY <1>4 DEF ReadScalar, Return, pairs, Calling
  <2> HIDE DEF v
  <2> QED
    BY <1>1, <2>1, <2>2, ForestNewReturned
<1>5. CASE ReadString
  <2> DEFINE h == ReadHeader64(bytes, begin)
             v == Text(ContainerType(h), SubSeq(bytes, h.begin + 1, h.begin + h.value))
  <2>1. v.children = <<>>
    BY TextIs
  <2>2. Allocated # Cell /\ returned = None /\ UNCHANGED <<stack, map, additional>>
    BY <1>5 DEF ReadString, Return, pairs, Calling
  <2>3. \/ heap' = Put(NewCell, v) /\ returned' = NewCell
        \/ heap' = heap /\ returned' = Null
    BY <1>5 DEF ReadString, Return
  <2> HIDE DEF v
  <2>4. CASE heap' = Put(NewCell, v) /\ returned' = NewCell
    BY <1>1, <2>1, <2>2, <2>4, ForestNewReturned
  <2>5. CASE heap' = heap /\ returned' = Null
    BY <1>1, <2>2, <2>5, ForestQuiet, NoneIsNoCell
  <2> QED
    BY <2>3, <2>4, <2>5
<1>6. CASE ReadContainer
  <2> DEFINE h == ReadHeader64(bytes, begin)
             v == Number(ContainerType(h), IF h.type = Tag THEN h.value ELSE 0)
             parts == Parts(h)
  <2>1. v.children = <<>>
    BY NumberIs
  <2>2. /\ Allocated # Cell /\ heap' = Put(NewCell, v)
        /\ returned = None /\ returned' = None /\ UNCHANGED <<map, additional>>
        /\ stack' = Append(stack, [cell |-> NewCell, parts |-> parts])
    BY <1>6 DEF ReadContainer, Return, pairs, Calling
  <2> HIDE DEF v, parts
  <2> QED
    BY <1>1, <2>1, <2>2, ForestNewOpened
<1>7. CASE Link
  BY <1>1, <1>7, ForestLink
<1>8. CASE Abandon
  <2>1. /\ stack # <<>> /\ stack' = Front(stack) /\ returned # None /\ returned' = Null
        /\ UNCHANGED <<map, additional>>
        /\ heap' = Without(Tree(Open.cell)
                             \cup IF returned = Null THEN {} ELSE Tree(returned))
    BY <1>8 DEF Abandon, Return, pairs
  <2>2. returned = Null <=> returned \notin Cell
    BY <1>1, <2>1, NoneIsNoCell DEF Types, Pointer
  <2>3. heap' = Without(Tree(Open.cell)
                          \cup IF returned \in Cell THEN Tree(returned) ELSE {})
    BY <2>1, <2>2
  <2> QED
    BY <1>1, <2>1, <2>3, ForestAbandoned
<1>9. CASE Close \/ JoinDenied
  <2>1. /\ stack # <<>> /\ stack' = Front(stack) /\ returned = None
        /\ UNCHANGED <<map, additional>>
    BY <1>9 DEF Close, JoinDenied, Closing, Return, pairs
  <2>2. \/ heap' = Freed(Open.cell) /\ returned' = Null
        \/ heap' = heap /\ returned' = Open.cell
    BY <1>9 DEF Close, JoinDenied, Return
  <2>3. CASE heap' = Freed(Open.cell) /\ returned' = Null
    <3>1. heap' = Without(Tree(Open.cell)
                            \cup IF returned \in Cell THEN Tree(returned) ELSE {})
      BY <2>1, <2>3, NoneIsNoCell DEF Freed
    <3> QED
      BY <1>1, <2>1, <2>3, <3>1, ForestAbandoned
  <2>4. CASE heap' = heap /\ returned' = Open.cell
    BY <1>1, <2>1, <2>4, ForestReturned
  <2> QED
    BY <2>2, <2>3, <2>4
<1>10. CASE Join
  BY <1>1, <1>10, ForestJoined
<1>11. CASE StartMap
  <2>1. additional = <<>> /\ additional' = <<>> /\ UNCHANGED <<heap, stack, map, returned>>
    BY <1>1, <1>11 DEF StartMap, calls, Control, NoPairs
  <2> QED
    BY <1>1, <2>1, ForestQuiet
<1>12. CASE NoValue
  <2>1. returned = Null /\ returned' = None /\ UNCHANGED <<heap, stack, map, additional>>
    BY <1>12 DEF NoValue, ValueRead, pairs
  <2> QED
    BY <1>1, <2>1, ForestQuiet, NoneIsNoCell
<1>13. CASE StoreKnown
  BY <1>1, <1>13, ForestKnown
<1>14. CASE StoreAdditional
  BY <1>1, <1>14, ForestAdditional
<1>15. CASE StoreDenied
  BY <1>1, <1>15, ForestDenied
<1>16. CASE HandleItem
  BY <1>1, <1>16, ForestCleared DEF HandleItem, calls
<1>17. CASE HandleHello
  <2>1. CASE ret
    BY <1>1, <1>17, <2>1, ForestCleared DEF HandleHello, calls
  <2>2. CASE ~ret
    BY <1>1, <1>17, <2>2, ForestQuiet DEF HandleHello, calls, pairs
  <2> QED
    BY <2>1, <2>2
<1>18. CASE UNCHANGED vars
  BY <1>1, <1>18, ForestQuiet DEF vars, calls, pairs
<1>19. CASE Done
  BY <1>18, <1>19 DEF Done
<1> QED
  BY <1>2, <1>3, <1>4, <1>5, <1>6, <1>7, <1>8, <1>9, <1>10, <1>11, <1>12, <1>13, <1>14,
     <1>15, <1>16, <1>17, <1>18, <1>19 DEF Next, Step

-----------------------------------------------------------------------------
(* Every step keeps the types.                                             *)

LEMMA HeapPut ==
    ASSUME HeapOK, Allocated # Cell, NEW v, IsNode(v), heap' = Put(NewCell, v)
    PROVE  HeapOK'
<1>1. NewCell \in Cell
  BY NewCellIsFree
<1> DEFINE m == NewCell
<1>2. /\ Allocated' = Allocated \cup {m} /\ heap'[m] = v
      /\ \A d \in Allocated \ {m} : heap'[d] = heap[d]
  BY PutIs
<1> HIDE DEF m
<1>3. \A c \in Allocated' : IsNode(heap'[c])
  BY <1>2 DEF HeapOK
<1> QED
  BY <1>1, <1>2, <1>3 DEF HeapOK, m

LEMMA HeapWithout ==
    ASSUME HeapOK, NEW T, heap' = Without(T)
    PROVE  HeapOK'
<1>1. /\ Allocated' = Allocated \ T
      /\ \A d \in Allocated' : d \in Allocated /\ heap'[d] = heap[d]
  BY WithoutIs
<1>2. \A c \in Allocated' : IsNode(heap'[c])
  BY <1>1 DEF HeapOK
<1> QED
  BY <1>1, <1>2 DEF HeapOK

LEMMA HeapSame == HeapOK /\ heap' = heap => HeapOK'
BY DEF HeapOK, Allocated

LEMMA HeapStep ==
    ASSUME IInv, [Next]_vars
    PROVE  HeapOK'
<1>1. Types /\ Forest /\ Strings /\ HeapOK
  BY DEF IInv, Types
<1>2. CASE UNCHANGED heap
  BY <1>1, <1>2, HeapSame
<1>3. CASE ReadScalar
  <2> DEFINE v == Scalar(ReadHeader64(bytes, begin))
  <2>1. IsNode(v)
    BY <1>3, ScalarIs DEF ReadScalar
  <2>2. Allocated # Cell /\ heap' = Put(NewCell, v)
    BY <1>3 DEF ReadScalar
  <2> HIDE DEF v
  <2> QED
    BY <1>1, <2>1, <2>2, HeapPut
<1>4. CASE ReadString
  <2> DEFINE h == ReadHeader64(bytes, begin)
             v == Text(ContainerType(h), SubSeq(bytes, h.begin + 1, h.begin + h.value))
  <2>1. IsNode(v)
    BY TextIs
  <2>2. Allocated # Cell /\ (heap' = Put(NewCell, v) \/ heap' = heap)
    BY <1>4 DEF ReadString
  <2> HIDE DEF v
  <2> QED
    BY <1>1, <1>2, <2>1, <2>2, HeapPut
<1>5. CASE ReadContainer
  <2> DEFINE h == ReadHeader64(bytes, begin)
             v == Number(ContainerType(h), IF h.type = Tag THEN h.value ELSE 0)
  <2>1. IsNode(v)
    BY NumberIs
  <2>2. Allocated # Cell /\ heap' = Put(NewCell, v)
    BY <1>5 DEF ReadContainer
  <2> HIDE DEF v
  <2> QED
    BY <1>1, <2>1, <2>2, HeapPut
<1>6. CASE Link
  <2> DEFINE o == Open.cell
  <2>1. /\ o \in Allocated /\ Allocated' = Allocated
        /\ \A d \in Allocated \ {o} : heap'[d] = heap[d]
        /\ IsNode(heap'[o])
    BY <1>1, <1>6, LinkIs
  <2> HIDE DEF o
  <2>2. \A c \in Allocated' : IsNode(heap'[c])
    BY <1>1, <2>1 DEF HeapOK
  <2> QED
    BY <1>1, <2>1, <2>2 DEF HeapOK
<1>7. CASE Join
  <2> DEFINE o == Open.cell
             T == Range(Children)
  <2>1. /\ Allocated' = Allocated \ T
        /\ \A d \in Allocated' \ {o} : d \in Allocated /\ heap'[d] = heap[d]
        /\ IsNode(heap'[o])
    BY <1>1, <1>7, JoinIs
  <2> HIDE DEF o, T
  <2>2. \A c \in Allocated' : IsNode(heap'[c])
    BY <1>1, <2>1 DEF HeapOK
  <2> QED
    BY <1>1, <2>1, <2>2 DEF HeapOK
<1>8. ASSUME NEW T, heap' = Without(T) PROVE HeapOK'
  BY <1>1, <1>8, HeapWithout
<1>9. CASE Abandon \/ Close \/ JoinDenied \/ StoreKnown \/ StoreDenied \/ Clear
  <2>1. UNCHANGED heap \/ \E T : heap' = Without(T)
    BY <1>9 DEF Abandon, Close, JoinDenied, StoreKnown, StoreDenied, Clear, Freed
  <2> QED
    BY <1>2, <1>8, <2>1
<1>10. CASE ReadInvalid \/ ReadDenied \/ HandleInMessage \/ ReadId \/ ReadKey \/ EndMap
            \/ StartMap \/ NoValue \/ StoreAdditional \/ UNCHANGED vars
  BY <1>2, <1>10 DEF ReadInvalid, ReadDenied, HandleInMessage, ReadId, ReadKey, EndMap,
       StartMap, NoValue, StoreAdditional, vars
<1>11. CASE HandleItem \/ HandleHello
  <2>1. Clear \/ UNCHANGED heap
    BY <1>11 DEF HandleItem, HandleHello
  <2> QED
    BY <1>2, <1>9, <2>1
<1> QED
  BY <1>3, <1>4, <1>5, <1>6, <1>7, <1>9, <1>10, <1>11 DEF Next, Step, Done

(* What a container has as its number of parts.                            *)
LEMMA PartsIs ==
    ASSUME NEW h, h.value \in Nat,
           \/ h.type \in {Array, Map, Tag}
           \/ h.type \in {ByteString, TextString} /\ h.info = Indefinite
    PROVE  Parts(h) \in Nat \cup {None}
<1>1. (2 * h.value) % Limit(4) \in Nat
  <2> DEFINE l == Limit(4)
  <2>1. l \in Nat /\ l > 0
    BY LimitIsPositive DEF Positive
  <2> HIDE DEF l
  <2>2. (2 * h.value) % l \in Nat
    BY <2>1
  <2> QED
    BY <2>2 DEF l
<1> DEFINE n == (2 * h.value) % Limit(4)
<1>2. Parts(h) = CASE h.info = Indefinite -> None
                   [] h.info # Indefinite /\ h.type = Array -> h.value
                   [] h.info # Indefinite /\ h.type = Map -> n
                   [] h.info # Indefinite /\ h.type = Tag -> 1
  BY DEF Parts
<1> HIDE DEF n
<1>3. n \in Nat
  BY <1>1 DEF n
<1>4. CASE h.info = Indefinite
  BY <1>2, <1>4
<1>5. CASE h.info # Indefinite /\ h.type = Array
  BY <1>2, <1>5 DEF Array, Map, Tag
<1>6. CASE h.info # Indefinite /\ h.type = Map
  BY <1>2, <1>3, <1>6 DEF Array, Map, Tag
<1>7. CASE h.info # Indefinite /\ h.type = Tag
  BY <1>2, <1>7 DEF Array, Map, Tag
<1> QED
  BY <1>4, <1>5, <1>6, <1>7

(* The types of the calls.                                                 *)
LEMMA CallsStep ==
    ASSUME IInv, [Next]_vars
    PROVE  stack' \in Seq(OpenValue) /\ returned' \in Pointer \cup {None}
<1>1. Types /\ Forest
  BY DEF IInv
<1>2. stack \in Seq(OpenValue) /\ returned \in Pointer \cup {None}
  BY <1>1 DEF Types
<1>3. {Null, None} \subseteq Pointer \cup {None} /\ Cell \subseteq Pointer
  BY DEF Pointer
<1>4. CASE ReadInvalid \/ ReadDenied
  BY <1>2, <1>3, <1>4 DEF ReadInvalid, ReadDenied, Return
<1>5. CASE ReadScalar \/ ReadString
  <2>1. NewCell \in Cell
    BY <1>1, <1>5, NewCellIsFree DEF Types, ReadScalar, ReadString
  <2>2. stack' = stack /\ returned' \in {NewCell, Null}
    BY <1>5 DEF ReadScalar, ReadString, Return
  <2> QED
    BY <1>2, <1>3, <2>1, <2>2
<1>6. CASE ReadContainer
  <2> DEFINE h == ReadHeader64(bytes, begin)
             new == [cell |-> NewCell, parts |-> Parts(h)]
  <2>1. NewCell \in Cell
    BY <1>1, <1>6, NewCellIsFree DEF Types, ReadContainer
  <2>2. h.value \in Nat
    BY <1>1, <1>6, CallingIs DEF ReadContainer
  <2>3. Parts(h) \in Nat \cup {None}
    <3>1. \/ h.type \in {Array, Map, Tag}
          \/ h.type \in {ByteString, TextString} /\ h.info = Indefinite
      BY <1>6 DEF ReadContainer
    <3> HIDE DEF h
    <3> QED
      BY <2>2, <3>1, PartsIs
  <2>4. new \in OpenValue
    BY <2>1, <2>3 DEF OpenValue
  <2>5. stack' = Append(stack, new) /\ returned' = None
    BY <1>6 DEF ReadContainer, Return
  <2> HIDE DEF new
  <2> QED
    BY <1>2, <2>4, <2>5
<1>7. CASE Link
  BY <1>2, <1>7 DEF Link, Return
<1>8. CASE Abandon \/ Close \/ Join \/ JoinDenied
  <2>1. stack # <<>> /\ stack' = Front(stack) /\ returned' \in {Null, Open.cell}
    BY <1>8 DEF Abandon, Close, Join, JoinDenied, Closing, Return
  <2>2. Open.cell \in Cell /\ Front(stack) \in Seq(OpenValue)
    BY <1>1, <2>1, StackFront
  <2> QED
    BY <1>3, <2>1, <2>2
<1>9. CASE UNCHANGED calls
  BY <1>2, <1>9 DEF calls
<1>10. CASE HandleInMessage \/ ReadId \/ StartMap \/ ReadKey \/ EndMap \/ HandleItem
            \/ HandleHello \/ UNCHANGED vars
  BY <1>9, <1>10 DEF HandleInMessage, ReadId, StartMap, ReadKey, EndMap, HandleItem,
       HandleHello, vars
<1>11. CASE NoValue \/ StoreKnown \/ StoreAdditional \/ StoreDenied
  <2>1. stack' = stack /\ returned' = None
    BY <1>11 DEF NoValue, StoreKnown, StoreAdditional, StoreDenied, ValueRead
  <2> QED
    BY <1>2, <2>1
<1> QED
  BY <1>4, <1>5, <1>6, <1>7, <1>8, <1>10, <1>11 DEF Next, Step, Done

(* The cursor.                                                             *)
LEMMA CursorStep ==
    ASSUME IInv, [Next]_vars
    PROVE  begin' \in Nat /\ Cursor'
<1>1. Types /\ Forest /\ Cursor /\ Control
  BY DEF IInv
<1>2. begin \in Nat /\ bytes \in Seq(0..Byte - 1)
  BY <1>1, RequestAssumption DEF Types, bytes
<1>3. CASE request' = request /\ begin' = begin /\ stack' = stack /\ returned' = returned
  BY <1>1, <1>2, <1>3 DEF Cursor, bytes
<1>4. ASSUME phase # "value", stack' = stack PROVE Cursor'
  BY <1>1, <1>4 DEF Cursor, Control
<1>5. CASE HandleInMessage
  <2>1. begin' \in Nat
    <3> DEFINE array == ReadHeader32(bytes, begin, Array)
               message == ReadHeader32(bytes, array.begin, UnsignedInteger)
               id == ReadHeader32(bytes, message.begin, UnsignedInteger)
    <3>1. array.begin \in Nat
      BY <1>2, ReadHeader32OK
    <3>2. message.begin \in Nat
      BY <1>2, <3>1, ReadHeader32OK
    <3>3. id.begin \in Nat
      BY <1>2, <3>2, ReadHeader32OK
    <3> QED
      BY <1>5, <3>3 DEF HandleInMessage
  <2> QED
    BY <1>4, <1>5, <2>1 DEF HandleInMessage, calls
<1>6. CASE ReadId
  <2>1. begin' \in Nat
    BY <1>2, <1>6, ReadHeader32OK DEF ReadId
  <2> QED
    BY <1>4, <1>6, <2>1 DEF ReadId, calls
<1>7. CASE StartMap
  <2>1. begin' \in Nat
    BY <1>2, <1>7, ReadHeader32OK DEF StartMap
  <2> QED
    BY <1>4, <1>7, <2>1 DEF StartMap, calls
<1>8. CASE ReadKey
  <2> DEFINE h == ReadHeader32(bytes, begin, TextString)
  <2>1. h.begin \in Nat /\ h.value \in Nat
    BY <1>2, ReadHeader32OK
  <2>2. begin' = (IF h.ok THEN h.begin + h.value ELSE h.begin)
    BY <1>8 DEF ReadKey
  <2> HIDE DEF h
  <2>3. begin' \in Nat
    BY <2>1, <2>2
  <2> QED
    BY <1>4, <1>8, <2>3 DEF ReadKey, calls
<1>9. CASE EndMap \/ HandleItem \/ HandleHello \/ UNCHANGED vars
  BY <1>3, <1>9 DEF EndMap, HandleItem, HandleHello, vars, calls
<1>10. CASE ReadInvalid \/ ReadDenied
  <2> DEFINE h == ReadHeader64(bytes, begin)
  <2>1. h.begin \in Nat
    BY <1>1, <1>10, CallingIs DEF ReadInvalid, ReadDenied
  <2>2. begin' = h.begin /\ returned' = Null
    BY <1>10 DEF ReadInvalid, ReadDenied, Return
  <2> QED
    BY <2>1, <2>2 DEF Cursor
<1>11. CASE ReadScalar \/ ReadContainer
  <2> DEFINE h == ReadHeader64(bytes, begin)
  <2>1. h.begin \in Nat /\ h.begin <= Len(bytes)
    BY <1>1, <1>11, CallingIs DEF ReadScalar, ReadContainer
  <2>2. begin' = h.begin /\ request' = request
    BY <1>11 DEF ReadScalar, ReadContainer, Return
  <2> QED
    BY <2>1, <2>2 DEF Cursor, bytes
<1>12. CASE ReadString
  <2> DEFINE h == ReadHeader64(bytes, begin)
  <2>1. h.begin \in Nat /\ h.value \in Nat
    BY <1>1, <1>12, CallingIs DEF ReadString
  <2>2. /\ begin' = h.begin + h.value /\ request' = request
        /\ Available(bytes, h.begin, h.value) \/ returned' = Null
    BY <1>12 DEF ReadString, Return
  <2> HIDE DEF h
  <2>3. begin' \in Nat
    BY <2>1, <2>2
  <2>4. returned' # Null => begin' <= Len(bytes)
    BY <2>2 DEF Available
  <2> QED
    BY <2>2, <2>3, <2>4 DEF Cursor, bytes
<1>13. CASE Link
  <2>1. begin' = begin /\ request' = request /\ stack # <<>> /\ returned # Null
    BY <1>13, NoneIsNoCell DEF Link, Return, Fits
  <2> QED
    BY <1>1, <1>2, <2>1 DEF Cursor, bytes
<1>14. CASE Abandon
  <2>1. begin' = begin /\ returned' = Null
    BY <1>14 DEF Abandon, Return
  <2> QED
    BY <1>2, <2>1 DEF Cursor
<1>15. CASE Close \/ Join \/ JoinDenied
  <2>1. /\ Closing /\ request' = request
        /\ begin' = IF Open.parts = None THEN begin + 1 ELSE begin
    BY <1>15 DEF Close, Join, JoinDenied, Closing, Return
  <2>2. begin' \in Nat
    BY <1>2, <2>1
  <2>3. begin' <= Len(bytes)
    <3>1. CASE Open.parts = None
      <4>1. begin + 1 <= Len(bytes)
        BY <2>1, <3>1 DEF Closing, Complete, Available
      <4> QED
        BY <2>1, <3>1, <4>1
    <3>2. CASE Open.parts # None
      BY <1>1, <2>1, <3>2, NoneIsNoCell DEF Closing, Cursor
    <3> QED
      BY <3>1, <3>2
  <2> QED
    BY <2>1, <2>2, <2>3 DEF Cursor, bytes
<1>16. CASE NoValue \/ StoreKnown \/ StoreAdditional \/ StoreDenied
  <2>1. begin' = begin /\ stack' = <<>>
    BY <1>16 DEF NoValue, StoreKnown, StoreAdditional, StoreDenied, ValueRead
  <2> QED
    BY <1>2, <2>1 DEF Cursor
<1> QED
  BY <1>5, <1>6, <1>7, <1>8, <1>9, <1>10, <1>11, <1>12, <1>13, <1>14, <1>15, <1>16
  DEF Next, Step, Done

(* The types of the loops and of the pairs that were read.                 *)
LoopTypes ==
    /\ request \in Request
    /\ remaining \in Nat /\ item_count \in Nat /\ room \in Nat
    /\ handler \in Kinds
    /\ phase \in Phase
    /\ key \in Seq(0..Byte - 1)
    /\ map \in [Key -> Pointer]
    /\ additional \in Seq(PairRead)
    /\ ret \in BOOLEAN /\ denied \in BOOLEAN

(* A part of a sequence is a sequence of the same elements.                *)
LEMMA SubSeqIn ==
  ASSUME NEW S, NEW s \in Seq(S), NEW low \in Nat, NEW high \in Nat,
         low >= 1, high <= Len(s)
  PROVE  SubSeq(s, low, high) \in Seq(S)
<1>1. CASE low <= high
  BY <1>1
<1>2. CASE low > high
  <2>1. SubSeq(s, low, high) = <<>>
    BY <1>2
  <2> QED
    BY <2>1
<1> QED
  BY <1>1, <1>2

(* A message handler is one of a few kinds.                                *)
LEMMA KindIs ==
    ASSUME NEW id \in Nat
    PROVE  /\ Kind(id) \in Kinds
           /\ Kind(id) = "hello" => request.hello
<1>1. CASE request.hello
  BY <1>1 DEF Kind, Kinds
<1>2. CASE ~request.hello
  <2>1. CASE id < Len(Handler)
    <3>1. id + 1 \in 1..Len(Handler)
      BY <2>1, HandlerAssumption
    <3>2. Handler[id + 1] \in {"none", "processed", "ids", "items"}
      BY <3>1, HandlerAssumption
    <3> QED
      BY <1>2, <2>1, <3>2 DEF Kind, Kinds
  <2>2. CASE ~(id < Len(Handler))
    BY <1>2, <2>2 DEF Kind, Kinds
  <2> QED
    BY <2>1, <2>2
<1> QED
  BY <1>1, <1>2

LEMMA HeadStep ==
    ASSUME IInv, HandleInMessage
    PROVE  LoopTypes' /\ Control'
<1> DEFINE array == ReadHeader32(bytes, begin, Array)
           message == ReadHeader32(bytes, array.begin, UnsignedInteger)
           id == ReadHeader32(bytes, message.begin, UnsignedInteger)
           kind == Kind(message.value)
           n == array.value - 2
           fine == array.ok /\ array.value >= 2 /\ message.ok /\ id.ok /\ kind # "unknown"
<1>1. Types /\ Control
  BY DEF IInv
<1>2. begin \in Nat /\ bytes \in Seq(0..Byte - 1)
  BY <1>1, RequestAssumption DEF Types, bytes
<1>3. array.begin \in Nat /\ array.value \in Nat
  BY <1>2, ReadHeader32OK
<1>4. message.value \in Nat
  BY <1>2, <1>3, ReadHeader32OK
<1>5. kind \in Kinds /\ (kind = "hello" => request.hello)
  BY <1>4, KindIs
<1>6. /\ phase = "head"
      /\ IF fine THEN handler' = kind /\ Dispatched(kind, n)
                 ELSE Ends(FALSE) /\ UNCHANGED <<handler, denied>>
      /\ UNCHANGED <<request, item_count, key, calls, heap, pairs, handled>>
  BY DEF HandleInMessage
<1>7. fine => n \in Nat
  BY <1>3
<1> HIDE DEF fine, n, kind
<1>8. /\ stack' = <<>> /\ returned' = None /\ map' = map /\ additional' = additional
      /\ room' = room /\ item_count' = item_count /\ request' = request /\ key' = key
      /\ NoPairs
  BY <1>1, <1>6 DEF Control, calls, pairs
<1>9. NoPairs'
  BY <1>8 DEF NoPairs
<1>10. /\ room = 0 => additional = <<>>
       /\ Len(additional) <= room
  BY <1>1 DEF Control
<1>11. CASE fine
  <2>1. handler' = kind /\ handler' \in Kinds /\ (handler' = "hello" => request'.hello)
    BY <1>5, <1>6, <1>8, <1>11
  <2>2. Dispatched(kind, n) /\ n \in Nat
    BY <1>6, <1>7, <1>11
  <2>3. \/ phase' = "done" /\ remaining' = remaining /\ ret' \in BOOLEAN
        \/ phase' = "map" /\ remaining' = n /\ n > 0 /\ kind \in {"hello", "items"}
             /\ ret' = ret
        \/ phase' = "id" /\ remaining' = n /\ n > 0 /\ ret' = ret
        \/ phase' = "asserted" /\ remaining' = remaining /\ ret' = ret
    <3>1. (n = 0) \in BOOLEAN
      OBVIOUS
    <3> QED
      BY <2>2, <3>1 DEF Dispatched, RequestsResult, Ends
  <2>4. denied' \in BOOLEAN
    BY <1>1, <2>2 DEF Dispatched, RequestsResult, Ends, Types
  <2>5. LoopTypes'
    <3>1. phase' \in Phase /\ remaining' \in Nat /\ ret' \in BOOLEAN
      BY <1>1, <2>2, <2>3 DEF Types, Phase
    <3> QED
      BY <1>1, <1>8, <2>1, <2>4, <3>1 DEF LoopTypes, Types
  <2>6. Control'
    BY <1>8, <1>9, <1>10, <2>1, <2>2, <2>3 DEF Control
  <2> QED
    BY <2>5, <2>6
<1>12. CASE ~fine
  <2>1. /\ phase' = "done" /\ ret' = FALSE /\ remaining' = remaining /\ handler' = handler
        /\ denied' = denied
    BY <1>6, <1>12 DEF Ends
  <2>2. LoopTypes'
    BY <1>1, <1>8, <2>1 DEF LoopTypes, Types, Phase
  <2>3. Control'
    BY <1>1, <1>8, <1>9, <1>10, <2>1 DEF Control
  <2> QED
    BY <2>2, <2>3
<1> QED
  BY <1>11, <1>12

LEMMA LoopStep ==
    ASSUME IInv, [Next]_vars
    PROVE  LoopTypes' /\ Control'
<1>1. Types /\ Control
  BY DEF IInv
<1>2. begin \in Nat /\ bytes \in Seq(0..Byte - 1)
  BY <1>1, RequestAssumption DEF Types, bytes
<1>3. LoopTypes
  BY <1>1 DEF Types, LoopTypes
<1>4. CASE HandleInMessage
  BY <1>4, HeadStep
<1>5. ASSUME phase = "value", UNCHANGED <<request, loops, pairs>>, denied' \in BOOLEAN
      PROVE  LoopTypes' /\ Control'
  <2>1. LoopTypes'
    BY <1>3, <1>5 DEF LoopTypes, loops, pairs
  <2>2. Control'
    BY <1>1, <1>5 DEF Control, loops, pairs, NoPairs
  <2> QED
    BY <2>1, <2>2
<1>6. CASE \/ ReadInvalid \/ ReadDenied \/ ReadScalar \/ ReadString \/ ReadContainer
           \/ Link \/ Abandon \/ Close \/ Join \/ JoinDenied
  <2>1. phase = "value"
    <3>1. stack # <<>> => phase = "value"
      BY <1>1 DEF Control
    <3> QED
      BY <1>6, <3>1 DEF ReadInvalid, ReadDenied, ReadScalar, ReadString, ReadContainer,
           Calling, Link, Abandon, Close, Join, JoinDenied, Closing
  <2>2. UNCHANGED <<request, loops, pairs>>
    BY <1>6 DEF ReadInvalid, ReadDenied, ReadScalar, ReadString, ReadContainer,
         Link, Abandon, Close, Join, JoinDenied, Return
  <2>3. denied' \in {denied, TRUE}
    BY <1>6 DEF ReadInvalid, ReadDenied, ReadScalar, ReadString, ReadContainer,
         Link, Abandon, Close, Join, JoinDenied
  <2>4. denied' \in BOOLEAN
    BY <1>3, <2>3 DEF LoopTypes
  <2> QED
    BY <1>5, <2>1, <2>2, <2>4
<1>7. CASE ReadId
  <2> DEFINE h == ReadHeader32(bytes, begin, UnsignedInteger)
  <2>1. h.ok \in BOOLEAN
    BY <1>2, ReadHeader32OK
  <2>2. /\ phase = "id" /\ ret' = (ret /\ h.ok) /\ remaining' = remaining - 1
        /\ phase' = IF remaining' = 0 THEN "done" ELSE "id"
        /\ UNCHANGED <<request, handler, item_count, key, calls, heap, pairs, denied>>
    BY <1>7 DEF ReadId
  <2> HIDE DEF h
  <2>3. ret' \in BOOLEAN
    BY <2>1, <2>2
  <2>4. remaining > 0 /\ NoPairs /\ stack = <<>> /\ returned = None
    BY <1>1, <2>2 DEF Control
  <2>5. remaining' \in Nat /\ phase' \in {"done", "id"}
        /\ (phase' = "id" => remaining' > 0)
    BY <1>3, <2>2, <2>4 DEF LoopTypes
  <2>6. LoopTypes'
    BY <1>3, <2>2, <2>3, <2>5 DEF LoopTypes, Phase, pairs
  <2>7. Control'
    <3>1. UNCHANGED <<request, handler, item_count, stack, returned, map, additional, room>>
      BY <2>2 DEF calls, pairs
    <3>2. NoPairs'
      BY <2>4, <3>1 DEF NoPairs
    <3> QED
      BY <1>1, <2>2, <2>4, <2>5, <3>1, <3>2 DEF Control
  <2> QED
    BY <2>6, <2>7
<1>8. CASE StartMap
  <2> DEFINE h == ReadHeader32(bytes, begin, Map)
  <2>1. h.value \in Nat
    BY <1>2, ReadHeader32OK
  <2>2. /\ phase = "map" /\ additional' = <<>> /\ room' = 0
        /\ IF h.ok THEN item_count' = h.value /\ phase' = "key" /\ UNCHANGED ret
                   ELSE GiveUp /\ UNCHANGED item_count
        /\ UNCHANGED <<request, handler, remaining, key, calls, heap, map, handled, denied>>
    BY <1>8 DEF StartMap
  <2> HIDE DEF h
  <2>3. /\ item_count' \in Nat /\ phase' \in {"key", "handle"} /\ ret' \in BOOLEAN
    BY <1>3, <2>1, <2>2 DEF GiveUp, LoopTypes
  <2>4. <<>> \in Seq(PairRead) /\ Len(<<>>) = 0
    OBVIOUS
  <2>5. LoopTypes'
    BY <1>3, <2>2, <2>3, <2>4 DEF LoopTypes, Phase
  <2>6. Control'
    BY <1>1, <2>2, <2>3, <2>4 DEF Control, calls
  <2> QED
    BY <2>5, <2>6
<1>9. CASE ReadKey
  <2> DEFINE h == ReadHeader32(bytes, begin, TextString)
             k == SubSeq(bytes, h.begin + 1, h.begin + h.value)
  <2>1. h.value \in Nat /\ h.begin \in Nat
    BY <1>2, ReadHeader32OK
  <2>2. /\ phase = "key" /\ item_count > 0
        /\ IF h.ok /\ Available(bytes, h.begin, h.value)
           THEN key' = k /\ phase' = "value" /\ UNCHANGED ret
           ELSE GiveUp /\ UNCHANGED key
        /\ UNCHANGED <<request, handler, remaining, item_count, calls, heap, pairs,
                       handled, denied>>
    BY <1>9 DEF ReadKey
  <2>3. Available(bytes, h.begin, h.value) => k \in Seq(0..Byte - 1)
    <3> DEFINE low == h.begin + 1
               high == h.begin + h.value
    <3>1. low \in Nat /\ high \in Nat /\ low >= 1
      BY <2>1
    <3>2. Available(bytes, h.begin, h.value) => high <= Len(bytes)
      BY DEF Available
    <3> HIDE DEF low, high
    <3>3. high <= Len(bytes) => SubSeq(bytes, low, high) \in Seq(0..Byte - 1)
      BY <1>2, <3>1, SubSeqIn
    <3> QED
      BY <3>2, <3>3 DEF low, high
  <2> HIDE DEF h, k
  <2>4. /\ key' \in Seq(0..Byte - 1) /\ phase' \in {"value", "handle"} /\ ret' \in BOOLEAN
    BY <1>3, <2>2, <2>3 DEF GiveUp, LoopTypes
  <2>5. LoopTypes'
    BY <1>3, <2>2, <2>4 DEF LoopTypes, Phase, pairs
  <2>6. Control'
    BY <1>1, <2>2, <2>4 DEF Control, calls, pairs
  <2> QED
    BY <2>5, <2>6
<1>10. CASE EndMap
  <2>1. LoopTypes'
    BY <1>3, <1>10 DEF EndMap, LoopTypes, Phase, pairs
  <2>2. Control'
    BY <1>1, <1>10 DEF EndMap, Control, calls, pairs
  <2> QED
    BY <2>1, <2>2
<1>11. CASE NoValue
  <2>1. LoopTypes'
    BY <1>3, <1>11 DEF NoValue, ValueRead, GiveUp, LoopTypes, Phase, pairs
  <2>2. Control'
    BY <1>1, <1>11 DEF NoValue, ValueRead, GiveUp, Control, pairs
  <2> QED
    BY <2>1, <2>2
<1>12. CASE StoreKnown
  <2>1. /\ phase = "value" /\ stack = <<>> /\ returned \in Cell /\ returned' = None
        /\ map' = [map EXCEPT ![key] = returned]
        /\ item_count' = item_count - 1 /\ phase' = "key"
        /\ UNCHANGED <<request, handler, remaining, key, stack, ret, denied, additional, room>>
    BY <1>12 DEF StoreKnown, ValueRead, NextPair
  <2>2. map' \in [Key -> Pointer]
    BY <1>3, <2>1 DEF LoopTypes, Pointer
  <2>3. item_count > 0 /\ item_count' \in Nat
    BY <1>1, <1>3, <2>1 DEF Control, LoopTypes
  <2>4. LoopTypes'
    BY <1>3, <2>1, <2>2, <2>3 DEF LoopTypes, Phase
  <2>5. Control'
    <3>1. room > 0 => Len(additional') + item_count' <= room'
      <4>1. Len(additional) \in Nat
        BY <1>3 DEF LoopTypes
      <4> QED
        BY <1>1, <1>3, <2>1, <4>1 DEF Control, LoopTypes
    <3> QED
      BY <1>1, <2>1, <3>1 DEF Control
  <2> QED
    BY <2>4, <2>5
<1>13. CASE StoreAdditional
  <2> DEFINE p == [key |-> key, value |-> returned]
  <2>1. /\ phase = "value" /\ stack = <<>> /\ returned \in Cell /\ returned' = None
        /\ additional' = Append(additional, p)
        /\ room' = (IF room = 0 THEN item_count ELSE room)
        /\ item_count' = item_count - 1 /\ phase' = "key"
        /\ UNCHANGED <<request, handler, remaining, key, stack, ret, denied, map>>
    BY <1>13 DEF StoreAdditional, ValueRead, NextPair
  <2>2. p \in PairRead
    BY <1>3, <2>1 DEF LoopTypes, PairRead
  <2> HIDE DEF p
  <2>3. /\ additional' \in Seq(PairRead) /\ Len(additional') = Len(additional) + 1
        /\ Len(additional) \in Nat
    BY <1>3, <2>1, <2>2 DEF LoopTypes
  <2>4. item_count > 0 /\ item_count' \in Nat /\ room' \in Nat
    BY <1>1, <1>3, <2>1 DEF Control, LoopTypes
  <2>5. LoopTypes'
    BY <1>3, <2>1, <2>3, <2>4 DEF LoopTypes, Phase
  <2>6. Control'
    <3>1. room' > 0 /\ Len(additional') + item_count' <= room'
      <4>1. CASE room = 0
        <5>1. Len(additional) = 0
          BY <1>1, <4>1 DEF Control
        <5> QED
          BY <1>3, <2>1, <2>3, <2>4, <4>1, <5>1 DEF LoopTypes
      <4>2. CASE room # 0
        BY <1>1, <1>3, <2>1, <2>3, <4>2 DEF Control, LoopTypes
      <4> QED
        BY <4>1, <4>2
    <3>2. Len(additional') <= room'
      BY <2>3, <2>4, <3>1
    <3> QED
      BY <1>1, <2>1, <3>1, <3>2 DEF Control
  <2> QED
    BY <2>5, <2>6
<1>14. CASE StoreDenied
  <2>1. LoopTypes'
    BY <1>3, <1>14 DEF StoreDenied, ValueRead, GiveUp, LoopTypes, Phase, pairs
  <2>2. Control'
    BY <1>1, <1>14 DEF StoreDenied, ValueRead, GiveUp, Control, pairs
  <2> QED
    BY <2>1, <2>2
<1>15. ASSUME Clear
       PROVE  /\ NoPairs' /\ map' \in [Key -> Pointer] /\ additional' \in Seq(PairRead)
              /\ room' = 0 /\ Len(additional') = 0 /\ additional' = <<>>
  BY <1>15 DEF Clear, NoPairs, Pointer
<1>16. CASE HandleItem
  <2>1. remaining > 0 /\ stack = <<>> /\ returned = None
    BY <1>1, <1>16 DEF HandleItem, Control
  <2>2. /\ remaining' = remaining - 1 /\ handler = "items"
        /\ phase' = IF remaining' = 0 THEN "done" ELSE "map"
        /\ UNCHANGED <<request, handler, item_count, key, ret, stack, returned, denied>>
    BY <1>16 DEF HandleItem, calls
  <2>3. remaining' \in Nat /\ phase' \in {"done", "map"} /\ (phase' = "map" => remaining' > 0)
    BY <1>3, <2>1, <2>2 DEF LoopTypes
  <2>4. LoopTypes'
    BY <1>3, <1>15, <1>16, <2>2, <2>3 DEF LoopTypes, Phase, HandleItem
  <2>5. Control'
    BY <1>1, <1>15, <1>16, <2>1, <2>2, <2>3 DEF Control, HandleItem
  <2> QED
    BY <2>4, <2>5
<1>17. CASE HandleHello
  <2>1. stack = <<>> /\ returned = None
    BY <1>1, <1>17 DEF HandleHello, Control
  <2>2. /\ handler = "hello" /\ phase' = "done"
        /\ UNCHANGED <<request, handler, remaining, item_count, key, ret, stack, returned,
                       denied>>
    BY <1>17 DEF HandleHello, calls
  <2>3. CASE ret
    <3>1. Clear
      BY <1>17, <2>3 DEF HandleHello
    <3>2. LoopTypes'
      BY <1>3, <1>15, <2>2, <3>1 DEF LoopTypes, Phase
    <3>3. Control'
      BY <1>1, <1>15, <2>1, <2>2, <3>1 DEF Control
    <3> QED
      BY <3>2, <3>3
  <2>4. CASE ~ret
    <3>1. UNCHANGED <<map, additional, room>>
      BY <1>17, <2>4 DEF HandleHello, pairs
    <3>2. LoopTypes'
      BY <1>3, <2>2, <3>1 DEF LoopTypes, Phase
    <3>3. Control'
      BY <1>1, <2>1, <2>2, <2>4, <3>1 DEF Control
    <3> QED
      BY <3>2, <3>3
  <2> QED
    BY <2>3, <2>4
<1>18. CASE UNCHANGED vars
  <2>1. LoopTypes'
    BY <1>3, <1>18 DEF vars, loops, pairs, LoopTypes
  <2>2. Control'
    BY <1>1, <1>18 DEF vars, loops, pairs, calls, Control, NoPairs
  <2> QED
    BY <2>1, <2>2
<1> QED
  BY <1>4, <1>6, <1>7, <1>8, <1>9, <1>10, <1>11, <1>12, <1>13, <1>14, <1>16, <1>17, <1>18
  DEF Next, Step, Done

-----------------------------------------------------------------------------
(* Every step keeps the strings.                                           *)

OnStack(c) == \E i \in 1..Len(stack) : stack[i].cell = c

PiecesFit(c) ==
    \A i \in 1..Len(heap[c].children) :
        IsString(heap[c].type) => heap[heap[c].children[i]].type = heap[c].type

NoPieces(c) == IsString(heap[c].type) /\ ~OnStack(c) => heap[c].children = <<>>

LEMMA StringsAre ==
    Strings <=> \A c \in Allocated : PiecesFit(c) /\ NoPieces(c)
<1>1. \A c : OnStack(c) <=> ~\A i \in 1..Len(stack) : stack[i].cell # c
  BY DEF OnStack
<1> HIDE DEF OnStack
<1> QED
  BY <1>1 DEF Strings, PiecesFit, NoPieces

LEMMA StringsAreNext ==
    Strings' <=> \A c \in Allocated' : PiecesFit(c)' /\ NoPieces(c)'
<1>1. \A c : OnStack(c)' <=> ~\A i \in 1..Len(stack') : stack'[i].cell # c
  BY DEF OnStack
<1> HIDE DEF OnStack
<1> QED
  BY <1>1 DEF Strings, PiecesFit, NoPieces

(* What is held by a value is allocated.                                   *)
LEMMA ChildrenAllocated ==
    ASSUME Forest, NEW c \in Allocated, NEW i \in 1..Len(heap[c].children)
    PROVE  heap[c].children[i] \in Allocated
<1>1. Holds("child", c, i, heap[c].children[i])
  BY DEF Holds
<1> QED
  BY <1>1 DEF Forest, HeldAllocated

LEMMA ChildrenAllocatedNext ==
    ASSUME Forest', NEW c \in Allocated', NEW i \in 1..Len(heap'[c].children)
    PROVE  heap'[c].children[i] \in Allocated'
<1>1. \A d \in Allocated' : \A j \in 1..Len(heap'[d].children) :
         \E x : x = heap'[d].children[j] /\ Holds("child", d, j, x)'
  BY DEF Holds
<1>2. \A d \in Allocated' : \A j \in 1..Len(heap'[d].children) : heap'[d].children[j] \in Allocated'
  BY <1>1 DEF Forest, HeldAllocated
<1> QED
  BY <1>2

(* One value at most is new or changed, and it has no children; no string  *)
(* that is left ceases to be open.                                         *)
LEMMA StringsKept ==
    ASSUME Forest, Strings, Forest', NEW m,
           \A d \in Allocated' \ {m} : d \in Allocated /\ heap'[d] = heap[d],
           m \in Allocated' => /\ heap'[m].children = <<>>
                               /\ m \in Allocated => heap'[m].type = heap[m].type,
           \A c \in Allocated' \ {m} : IsString(heap[c].type) /\ OnStack(c) => OnStack(c)'
    PROVE  Strings'
<1>1. \A c \in Allocated : PiecesFit(c) /\ NoPieces(c)
  BY StringsAre
<1>2. ASSUME NEW c \in Allocated', c # m PROVE PiecesFit(c)' /\ NoPieces(c)'
  <2>1. c \in Allocated /\ heap'[c] = heap[c] /\ PiecesFit(c) /\ NoPieces(c)
    BY <1>1, <1>2
  <2>2. ASSUME NEW i \in 1..Len(heap'[c].children), IsString(heap'[c].type)
        PROVE  heap'[heap'[c].children[i]].type = heap'[c].type
    <3> DEFINE x == heap'[c].children[i]
    <3>1. x = heap[c].children[i]
      BY <2>1
    <3>2. x \in Allocated'
      BY <2>2, ChildrenAllocatedNext
    <3>3. x \in Allocated
      BY <2>1, <2>2, ChildrenAllocated
    <3>4. heap[x].type = heap[c].type
      BY <2>1, <2>2 DEF PiecesFit
    <3> HIDE DEF x
    <3>5. heap'[x].type = heap[x].type
      BY <3>2, <3>3
    <3> QED
      BY <2>1, <3>4, <3>5 DEF x
  <2>3. PiecesFit(c)'
    BY <2>2 DEF PiecesFit
  <2>4. NoPieces(c)'
    BY <1>2, <2>1 DEF NoPieces
  <2> QED
    BY <2>3, <2>4
<1>3. ASSUME m \in Allocated' PROVE \A c : c = m => PiecesFit(c)' /\ NoPieces(c)'
  <2>1. Len(heap'[m].children) = 0 /\ heap'[m].children = <<>>
    BY <1>3
  <2> QED
    BY <2>1 DEF PiecesFit, NoPieces
<1>4. \A c \in Allocated' : PiecesFit(c)' /\ NoPieces(c)'
  BY <1>2, <1>3
<1> QED
  BY <1>4, StringsAreNext

(* A part is linked only to a string that is open, when it fits.           *)
LEMMA StringsLinked ==
    ASSUME Types, Forest, Strings, Link
    PROVE  Strings'
<1> DEFINE o == Open.cell
           n == Len(Children)
           m == returned
<1>1. /\ o \in Allocated /\ n \in Nat
      /\ Allocated' = Allocated
      /\ \A d \in Allocated \ {o} : heap'[d] = heap[d]
      /\ heap'[o].type = heap[o].type
      /\ Len(heap'[o].children) = n + 1
      /\ heap'[o].children[n + 1] = m
      /\ \A i \in 1..n : heap'[o].children[i] = heap[o].children[i]
  BY LinkIs
<1>2. n = Len(heap[o].children)
  BY DEF Children
<1>3. stack # <<>> /\ stack' = stack /\ m \in Cell
      /\ (IsString(heap[o].type) => heap[m].type = heap[o].type)
  BY DEF Link, Fits
<1>4. OnStack(o)
  BY <1>3, StackFront DEF OnStack
<1>5. \A c : OnStack(c)' <=> OnStack(c)
  BY <1>3 DEF OnStack
<1>6. \A c \in Allocated : PiecesFit(c) /\ NoPieces(c)
  BY StringsAre
<1>7. m \in Allocated
  BY <1>3 DEF Forest, HeldAllocated, Holds
<1> HIDE DEF o, n, m
<1>8. \A d \in Allocated : heap'[d].type = heap[d].type
  BY <1>1
<1>9. ASSUME NEW c \in Allocated', c # o PROVE PiecesFit(c)' /\ NoPieces(c)'
  <2>1. c \in Allocated /\ heap'[c] = heap[c] /\ PiecesFit(c) /\ NoPieces(c)
    BY <1>1, <1>6, <1>9
  <2>2. \A i \in 1..Len(heap[c].children) : heap[c].children[i] \in Allocated
    BY <2>1, ChildrenAllocated
  <2> QED
    BY <1>5, <1>8, <2>1, <2>2 DEF PiecesFit, NoPieces
<1>10. ASSUME NEW c, c = o PROVE PiecesFit(c)' /\ NoPieces(c)'
  <2>1. PiecesFit(c) /\ OnStack(c)
    BY <1>1, <1>4, <1>6, <1>10
  <2>2. ASSUME NEW i \in 1..Len(heap'[c].children), IsString(heap'[c].type)
        PROVE  heap'[heap'[c].children[i]].type = heap'[c].type
    <3>1. IsString(heap[c].type) /\ heap'[c].type = heap[c].type
      BY <1>1, <1>10, <2>2
    <3>2. CASE i = n + 1
      BY <1>1, <1>3, <1>7, <1>8, <1>10, <3>1, <3>2
    <3>3. CASE i # n + 1
      <4>1. i \in 1..n
        BY <1>1, <1>10, <2>2, <3>3
      <4>2. heap'[c].children[i] = heap[c].children[i] /\ heap[c].children[i] \in Allocated
        BY <1>1, <1>2, <1>10, <4>1, ChildrenAllocated
      <4>3. heap[heap[c].children[i]].type = heap[c].type
        BY <1>2, <1>10, <2>1, <3>1, <4>1 DEF PiecesFit
      <4> QED
        BY <1>8, <3>1, <4>2, <4>3
    <3> QED
      BY <3>2, <3>3
  <2>3. PiecesFit(c)'
    BY <2>2 DEF PiecesFit
  <2>4. NoPieces(c)'
    BY <1>5, <2>1 DEF NoPieces
  <2> QED
    BY <2>3, <2>4
<1>11. \A c \in Allocated' : PiecesFit(c)' /\ NoPieces(c)'
  BY <1>9, <1>10
<1> QED
  BY <1>11, StringsAreNext

(* An open value that ceases to be open is freed, or is no string.         *)
LEMMA StringsClosed ==
    ASSUME Types, Forest, Strings, Forest', stack # <<>>, stack' = Front(stack),
           \A d \in Allocated' : d \in Allocated /\ heap'[d] = heap[d],
           Open.cell \notin Allocated' \/ ~IsString(heap[Open.cell].type)
    PROVE  Strings'
<1> DEFINE o == Open.cell
           n == Len(stack)
<1>1. n \in Nat /\ n > 0 /\ o = stack[n].cell /\ Len(stack') = n - 1
      /\ \A i \in 1..n - 1 : stack'[i] = stack[i]
  BY StackFront
<1>2. o \notin Allocated' \/ ~IsString(heap[o].type)
  OBVIOUS
<1> HIDE DEF o
<1>3. ASSUME NEW c, OnStack(c), c # o PROVE OnStack(c)'
  <2>1. PICK i \in 1..n : stack[i].cell = c
    BY <1>3 DEF OnStack
  <2>2. i \in 1..n - 1
    BY <1>1, <1>3, <2>1
  <2> QED
    BY <1>1, <2>1, <2>2 DEF OnStack
<1>4. Null \notin Allocated'
  BY NoneIsNoCell DEF Types, HeapOK
<1>5. \A c \in Allocated' : IsString(heap[c].type) /\ OnStack(c) => OnStack(c)'
  BY <1>2, <1>3
<1> QED
  BY <1>4, <1>5, StringsKept

LEMMA StringsStep ==
    ASSUME IInv, [Next]_vars
    PROVE  Strings'
<1>1. Types /\ Forest /\ Strings /\ Control /\ HeapOK
  BY DEF IInv, Types
<1>2. Forest' /\ HeapOK'
  BY ForestStep, HeapStep
<1>3. Null \notin Allocated'
  BY <1>2, NoneIsNoCell DEF HeapOK
<1>4. stack' = stack => \A c : OnStack(c)' <=> OnStack(c)
  BY DEF OnStack
<1>5. ASSUME stack' = stack, \A d \in Allocated' : d \in Allocated /\ heap'[d] = heap[d]
      PROVE  Strings'
  BY <1>1, <1>2, <1>3, <1>4, <1>5, StringsKept
<1>6. CASE UNCHANGED <<stack, heap>>
  BY <1>5, <1>6 DEF Allocated
<1>7. ASSUME stack' = stack, NEW T, heap' = Without(T) PROVE Strings'
  BY <1>5, <1>7, WithoutIs
<1>8. ASSUME NEW v, v.children = <<>>, heap' = Put(NewCell, v), Allocated # Cell,
             \A c : OnStack(c) => OnStack(c)'
      PROVE  Strings'
  <2> DEFINE m == NewCell
  <2>1. m \notin Allocated
    BY <1>1, <1>8, NewCellIsFree
  <2>2. /\ Allocated' = Allocated \cup {m} /\ heap'[m] = v
        /\ \A d \in Allocated \ {m} : heap'[d] = heap[d]
    BY <1>8, PutIs
  <2> HIDE DEF m
  <2> QED
    BY <1>1, <1>2, <1>8, <2>1, <2>2, StringsKept
<1>9. CASE ReadScalar
  <2> DEFINE v == Scalar(ReadHeader64(bytes, begin))
  <2>1. v.children = <<>>
    BY <1>9, ScalarIs DEF ReadScalar
  <2>2. Allocated # Cell /\ heap' = Put(NewCell, v) /\ stack' = stack
    BY <1>9 DEF ReadScalar
  <2> HIDE DEF v
  <2> QED
    BY <1>4, <1>8, <2>1, <2>2
<1>10. CASE ReadString
  <2> DEFINE h == ReadHeader64(bytes, begin)
             v == Text(ContainerType(h), SubSeq(bytes, h.begin + 1, h.begin + h.value))
  <2>1. v.children = <<>>
    BY TextIs
  <2>2. Allocated # Cell /\ (heap' = Put(NewCell, v) \/ heap' = heap) /\ stack' = stack
    BY <1>10 DEF ReadString
  <2> HIDE DEF v
  <2> QED
    BY <1>4, <1>6, <1>8, <2>1, <2>2
<1>11. CASE ReadContainer
  <2> DEFINE h == ReadHeader64(bytes, begin)
             v == Number(ContainerType(h), IF h.type = Tag THEN h.value ELSE 0)
             new == [cell |-> NewCell, parts |-> Parts(h)]
  <2>1. v.children = <<>>
    BY NumberIs
  <2>2. Allocated # Cell /\ heap' = Put(NewCell, v) /\ stack' = Append(stack, new)
    BY <1>11 DEF ReadContainer
  <2> HIDE DEF v, new
  <2>3. /\ Len(stack) \in Nat /\ Len(stack') = Len(stack) + 1
        /\ \A i \in 1..Len(stack) : stack'[i] = stack[i]
    BY <1>1, <2>2 DEF Types
  <2>4. \A c : OnStack(c) => OnStack(c)'
    BY <2>3 DEF OnStack
  <2> QED
    BY <1>8, <2>1, <2>2, <2>4
<1>12. CASE Link
  BY <1>1, <1>12, StringsLinked
<1>13. CASE Abandon
  <2> DEFINE T == Tree(Open.cell) \cup IF returned = Null THEN {} ELSE Tree(returned)
  <2>1. stack # <<>> /\ stack' = Front(stack) /\ heap' = Without(T)
    BY <1>13 DEF Abandon
  <2>2. Open.cell \in T
    BY <1>1, <2>1, OpenIsAllocated, TreeIs DEF Forest
  <2> HIDE DEF T
  <2>3. /\ Open.cell \notin Allocated'
        /\ \A d \in Allocated' : d \in Allocated /\ heap'[d] = heap[d]
    BY <2>1, <2>2, WithoutIs
  <2> QED
    BY <1>1, <1>2, <2>1, <2>3, StringsClosed
<1>14. CASE Close \/ JoinDenied
  <2>1. stack # <<>> /\ stack' = Front(stack)
    BY <1>14 DEF Close, JoinDenied, Closing
  <2>2. \/ heap' = Freed(Open.cell)
        \/ heap' = heap /\ ~IsString(heap[Open.cell].type)
    BY <1>14 DEF Close, JoinDenied
  <2>3. CASE heap' = Freed(Open.cell)
    <3> DEFINE T == Tree(Open.cell)
    <3>1. heap' = Without(T) /\ Open.cell \in T
      BY <1>1, <2>1, <2>3, OpenIsAllocated, TreeIs DEF Forest, Freed
    <3> HIDE DEF T
    <3>2. /\ Open.cell \notin Allocated'
          /\ \A d \in Allocated' : d \in Allocated /\ heap'[d] = heap[d]
      BY <3>1, WithoutIs
    <3> QED
      BY <1>1, <1>2, <2>1, <3>2, StringsClosed
  <2>4. CASE heap' = heap /\ ~IsString(heap[Open.cell].type)
    <3>1. \A d \in Allocated' : d \in Allocated /\ heap'[d] = heap[d]
      BY <2>4 DEF Allocated
    <3> QED
      BY <1>1, <1>2, <2>1, <2>4, <3>1, StringsClosed
  <2> QED
    BY <2>2, <2>3, <2>4
<1>15. CASE Join
  <2> DEFINE o == Open.cell
             n == Len(stack)
  <2>1. /\ \A d \in Allocated' \ {o} : d \in Allocated /\ heap'[d] = heap[d]
        /\ heap'[o].children = <<>> /\ heap'[o].type = heap[o].type
    BY <1>1, <1>15, JoinIs
  <2>2. n \in Nat /\ n > 0 /\ o = stack[n].cell /\ Len(stack') = n - 1
        /\ \A i \in 1..n - 1 : stack'[i] = stack[i]
    BY <1>1, <1>15, StackFront DEF Join, Closing
  <2> HIDE DEF o
  <2>3. ASSUME NEW c, OnStack(c), c # o PROVE OnStack(c)'
    <3>1. PICK i \in 1..n : stack[i].cell = c
      BY <2>3 DEF OnStack
    <3>2. i \in 1..n - 1
      BY <2>2, <2>3, <3>1
    <3> QED
      BY <2>2, <3>1, <3>2 DEF OnStack
  <2> QED
    BY <1>1, <1>2, <2>1, <2>3, StringsKept
<1>16. CASE StoreKnown \/ StoreDenied
  <2>1. stack' = stack /\ (heap' = heap \/ \E T : heap' = Without(T))
    BY <1>16 DEF StoreKnown, StoreDenied, ValueRead, Freed
  <2> QED
    BY <1>6, <1>7, <2>1
<1>17. CASE HandleItem \/ HandleHello
  <2>1. stack' = stack /\ (heap' = heap \/ \E T : heap' = Without(T))
    BY <1>17 DEF HandleItem, HandleHello, Clear, calls
  <2> QED
    BY <1>6, <1>7, <2>1
<1>18. CASE ReadInvalid \/ ReadDenied \/ HandleInMessage \/ ReadId \/ ReadKey \/ EndMap
            \/ StartMap \/ NoValue \/ StoreAdditional \/ UNCHANGED vars
  BY <1>6, <1>18 DEF ReadInvalid, ReadDenied, HandleInMessage, ReadId, ReadKey, EndMap,
       StartMap, NoValue, StoreAdditional, ValueRead, calls, vars
<1> QED
  BY <1>9, <1>10, <1>11, <1>12, <1>13, <1>14, <1>15, <1>16, <1>17, <1>18 DEF Next, Step, Done

-----------------------------------------------------------------------------
(* The invariant holds.                                                    *)

LEMMA TypesStep ==
    ASSUME IInv, [Next]_vars
    PROVE  Types'
<1>1. LoopTypes'
  BY LoopStep
<1>2. stack' \in Seq(OpenValue) /\ returned' \in Pointer \cup {None}
  BY CallsStep
<1>3. begin' \in Nat /\ HeapOK'
  BY CursorStep, HeapStep
<1> QED
  BY <1>1, <1>2, <1>3 DEF Types, LoopTypes

LEMMA InitHolds == Init => IInv
<1> SUFFICES ASSUME Init PROVE IInv
  OBVIOUS
<1>1. Allocated = {}
  BY DEF Init, Allocated
<1>2. <<>> \in Seq(OpenValue) /\ <<>> \in Seq(PairRead) /\ <<>> \in Seq(0..Byte - 1)
      /\ Len(<<>>) = 0
  OBVIOUS
<1>3. Types
  BY <1>1, <1>2 DEF Init, Types, Kinds, Phase, Pointer, HeapOK
<1>4. \A kind, a, b, c : ~Holds(kind, a, b, c)
  BY <1>1, <1>2, NoneIsNoCell DEF Init, Holds
<1>5. Forest
  BY <1>1, <1>4 DEF Forest, HeldAllocated, HeldOnce, Rooted
<1>6. Strings
  BY <1>1 DEF Strings
<1>7. Control
  BY <1>2 DEF Init, Control, NoPairs
<1>8. Cursor
  BY DEF Init, Cursor
<1> QED
  BY <1>3, <1>5, <1>6, <1>7, <1>8 DEF IInv

LEMMA StepHolds == IInv /\ [Next]_vars => IInv'
<1> SUFFICES ASSUME IInv, [Next]_vars PROVE IInv'
  OBVIOUS
<1>1. Types'
  BY TypesStep
<1>2. Forest'
  BY ForestStep
<1>3. Strings'
  BY StringsStep
<1>4. Control'
  BY LoopStep
<1>5. Cursor'
  BY CursorStep
<1> QED
  BY <1>1, <1>2, <1>3, <1>4, <1>5 DEF IInv

(* Every value is held by exactly one, and none by its own parts, at every *)
(* step of the reader.                                                     *)
THEOREM InvCorrect == Spec => []IInv
<1>1. Init => IInv
  BY InitHolds
<1>2. IInv /\ [Next]_vars => IInv'
  BY StepHolds
<1> QED
  BY <1>1, <1>2, PTL DEF Spec

(* The reader keeps to its types, looks for a break only where there may   *)
(* be one, and writes only into the room for additional pairs.             *)
THEOREM ReadsInsideCorrect == Spec => []ReadsInside
<1>1. ASSUME IInv PROVE ReadsInside
  <2>1. Types /\ Forest /\ Control /\ Cursor
    BY <1>1 DEF IInv
  <2>2. DOMAIN stack = 1..Len(stack) /\ DOMAIN additional = 1..Len(additional)
    BY <2>1 DEF Types
  <2>3. ASSUME NEW i \in DOMAIN stack
        PROVE  stack[i].cell \in Allocated /\ stack[i].parts \in Nat \cup {None}
    <3>1. Holds("stack", i, 0, stack[i].cell)
      BY <2>2, <2>3 DEF Holds
    <3>2. stack[i] \in OpenValue
      BY <2>1, <2>2, <2>3 DEF Types
    <3> QED
      BY <2>1, <3>1, <3>2 DEF Forest, HeldAllocated, OpenValue
  <2>4. \A i \in DOMAIN additional : additional[i].value \in Cell
    <3>1. \A i \in DOMAIN additional : additional[i] \in PairRead
      BY <2>1, <2>2 DEF Types
    <3> QED
      BY <3>1 DEF PairRead
  <2>5. TypeOK
    BY <2>1, <2>3, <2>4 DEF Types, TypeOK, HeapOK, Kinds, Phase
  <2>6. LooksInside
    BY <2>1, NoneIsNoCell DEF LooksInside, Cursor
  <2>7. RoomForAdditional
    BY <2>1 DEF RoomForAdditional, Control
  <2> QED
    BY <2>5, <2>6, <2>7 DEF ReadsInside
<1> QED
  BY <1>1, InvCorrect, PTL

(* When the message is over nothing of it is left, unless it was a hello   *)
(* that was not understood.                                                *)
THEOREM NothingKeptCorrect == Spec => []NothingKept
<1>1. ASSUME IInv, Ended, Allocated # {}
      PROVE  request.hello /\ ~ret
  <2>1. Types /\ Forest /\ Control
    BY <1>1 DEF IInv
  <2>2. PICK kind, a, b, c : /\ c \in Allocated /\ Holds(kind, a, b, c)
                             /\ Outside(kind, a, Allocated)
    BY <1>1, <2>1 DEF Forest, Rooted
  <2>3. kind # "child"
    BY <2>2 DEF Outside, Holds
  <2>4. stack = <<>> /\ returned = None
    BY <1>1, <2>1 DEF Ended, Control
  <2>5. Len(stack) = 0
    BY <2>4
  <2>6. kind \in {"map", "additional"}
    BY <2>2, <2>3, <2>4, <2>5, NoneIsNoCell DEF Holds
  <2>7. ~NoPairs
    <3>1. Len(<<>>) = 0
      OBVIOUS
    <3> QED
      BY <2>2, <2>6, <3>1 DEF Holds, NoPairs
  <2> QED
    BY <1>1, <2>1, <2>7 DEF Ended, Control
<1>2. IInv => NothingKept
  BY <1>1 DEF NothingKept
<1> QED
  BY <1>2, InvCorrect, PTL

-----------------------------------------------------------------------------
(* Each value is freed once.                                               *)

(* A list of different things, and as many of them.                        *)
LEMMA CountImage ==
    ASSUME NEW S, IsFiniteSet(S), NEW f,
           \A x, y \in S : f[x] = f[y] => x = y
    PROVE  LET T == {f[x] : x \in S}
           IN  IsFiniteSet(T) /\ Cardinality(T) = Cardinality(S)
<1> DEFINE T == {f[x] : x \in S}
           g == [x \in S |-> f[x]]
<1>1. g \in Bijection(S, T)
  BY DEF Bijection, Injection, Surjection, IsInjective
<1>2. ExistsBijection(S, T)
  BY <1>1 DEF ExistsBijection
<1> HIDE DEF T
<1> QED
  BY <1>2, FS_Bijection DEF T

Listed(f, n) == {f[i] : i \in 1..n}

LEMMA CountList ==
    ASSUME NEW n \in Nat, NEW f, \A i, j \in 1..n : f[i] = f[j] => i = j
    PROVE  IsFiniteSet(Listed(f, n)) /\ Cardinality(Listed(f, n)) = n
<1> DEFINE S == 1..n
<1>1. IsFiniteSet(S) /\ Cardinality(S) = IF 1 > n THEN 0 ELSE n - 1 + 1
  BY FS_Interval
<1>2. Cardinality(S) = n
  BY <1>1
<1> HIDE DEF S
<1>3. LET T == {f[i] : i \in S} IN IsFiniteSet(T) /\ Cardinality(T) = Cardinality(S)
  BY <1>1, CountImage DEF S
<1> QED
  BY <1>2, <1>3 DEF S, Listed

LEMMA CountDisjoint ==
    ASSUME NEW S, NEW T, IsFiniteSet(S), IsFiniteSet(T), \A x \in S : x \notin T
    PROVE  /\ IsFiniteSet(S \cup T)
           /\ Cardinality(S \cup T) = Cardinality(S) + Cardinality(T)
<1>1. S \cap T = {}
  OBVIOUS
<1>2. Cardinality(S \cap T) = 0
  BY <1>1, FS_EmptySet
<1>3. Cardinality(S) \in Nat /\ Cardinality(T) \in Nat
  BY FS_CardinalityType
<1>4. /\ IsFiniteSet(S \cup T)
      /\ Cardinality(S \cup T) = Cardinality(S) + Cardinality(T) - Cardinality(S \cap T)
  BY FS_Union
<1> QED
  BY <1>2, <1>3, <1>4

(* The roots are what is held by the map, the calls and the caller.        *)
LEMMA RootsAre ==
    ASSUME Types
    PROVE  \A c : c \in Roots <=> \E kind, a, b : kind # "child" /\ Holds(kind, a, b, c)
<1>1. \A c : c \in Range(map) \ {Null} <=> \E k : Holds("map", k, 0, c)
  <2>1. \A c : c \in Range(map) <=> \E k \in Key : c = map[k]
    BY DEF Types, Range
  <2> QED
    BY <2>1 DEF Holds
<1>2. \A c : c \in {additional[i].value : i \in DOMAIN additional}
               <=> \E i : Holds("additional", i, 0, c)
  <2>1. DOMAIN additional = 1..Len(additional)
    BY DEF Types
  <2> QED
    BY <2>1 DEF Holds
<1>3. \A c : c \in {stack[i].cell : i \in DOMAIN stack} <=> \E i : Holds("stack", i, 0, c)
  <2>1. DOMAIN stack = 1..Len(stack)
    BY DEF Types
  <2> QED
    BY <2>1 DEF Holds
<1>4. \A c : c \in {returned} \ {Null, None} <=> Holds("returned", 0, 0, c)
  BY NoneIsNoCell DEF Holds, Types, Pointer
<1>5. \A c : c \in Roots <=> \/ \E k : Holds("map", k, 0, c)
                             \/ \E i : Holds("additional", i, 0, c)
                             \/ \E i : Holds("stack", i, 0, c)
                             \/ Holds("returned", 0, 0, c)
  BY <1>1, <1>2, <1>3, <1>4 DEF Roots, Held
<1>6. \A kind, a, b, c : kind # "child" /\ Holds(kind, a, b, c) =>
          kind \in {"map", "additional", "stack", "returned"} /\ b = 0
          /\ (kind = "returned" => a = 0)
  BY DEF Holds
<1>7. ASSUME NEW kind, NEW a, NEW b, NEW c, kind # "child", Holds(kind, a, b, c)
      PROVE  c \in Roots
  BY <1>5, <1>6, <1>7
<1>8. ASSUME NEW c, c \in Roots
      PROVE  \E kind, a, b : kind # "child" /\ Holds(kind, a, b, c)
  BY <1>5, <1>8
<1> QED
  BY <1>7, <1>8

(* There are as many roots as places that hold one.                        *)
LEMMA CountRoots ==
    ASSUME Types, Forest
    PROVE  Cardinality(Roots) = Cardinality({k \in Key : map[k] # Null})
             + Len(additional) + Len(stack) + (IF returned \in Cell THEN 1 ELSE 0)
<1> DEFINE used == {k \in Key : map[k] # Null}
           added == [i \in 1..Len(additional) |-> additional[i].value]
           opened == [i \in 1..Len(stack) |-> stack[i].cell]
           A == {map[k] : k \in used}
           B == {added[i] : i \in 1..Len(additional)}
           C == {opened[i] : i \in 1..Len(stack)}
           D == {returned} \ {Null, None}
           l == Len(additional)
           n == Len(stack)
<1>1. /\ l \in Nat /\ n \in Nat
      /\ DOMAIN additional = 1..l /\ DOMAIN stack = 1..n
  BY DEF Types
<1>2. A = Range(map) \ {Null}
  BY DEF Types, Range
<1>3. B = {additional[i].value : i \in DOMAIN additional}
  BY <1>1
<1>4. C = {stack[i].cell : i \in DOMAIN stack}
  BY <1>1
<1>5. Roots = ((A \cup B) \cup C) \cup D
  BY <1>2, <1>3, <1>4 DEF Roots, Held
<1>6. \A c \in A : \E k : Holds("map", k, 0, c)
  BY DEF Holds
<1>7. \A c \in B : \E i : Holds("additional", i, 0, c)
  BY DEF Holds
<1>8. \A c \in C : \E i : Holds("stack", i, 0, c)
  BY DEF Holds
<1>9. \A c \in D : Holds("returned", 0, 0, c)
  BY NoneIsNoCell DEF Types, Pointer, Holds
<1>10. IsFiniteSet(A) /\ Cardinality(A) = Cardinality(used)
  <2>1. IsFiniteSet(used)
    BY KeyAssumption, FS_Subset
  <2>2. \A j, k \in used : map[j] = map[k] => j = k
    <3>1. \A k \in used : Holds("map", k, 0, map[k])
      BY DEF Holds
    <3> QED
      BY <3>1 DEF Forest, HeldOnce
  <2> HIDE DEF used
  <2> QED
    BY <2>1, <2>2, CountImage
<1>12. IsFiniteSet(B) /\ Cardinality(B) = l
  <2>1. \A i, j \in 1..l : added[i] = added[j] => i = j
    <3>1. \A i \in 1..l : Holds("additional", i, 0, added[i])
      BY DEF Holds
    <3> QED
      BY <3>1 DEF Forest, HeldOnce
  <2>2. B = Listed(added, l) /\ l \in Nat
    BY <1>1 DEF Listed
  <2> HIDE DEF A, B, C, D, used, added, opened, l, n
  <2> QED
    BY <2>1, <2>2, CountList
<1>13. IsFiniteSet(C) /\ Cardinality(C) = n
  <2>1. \A i, j \in 1..n : opened[i] = opened[j] => i = j
    <3>1. \A i \in 1..n : Holds("stack", i, 0, opened[i])
      BY DEF Holds
    <3> QED
      BY <3>1 DEF Forest, HeldOnce
  <2>2. C = Listed(opened, n) /\ n \in Nat
    BY <1>1 DEF Listed
  <2> HIDE DEF A, B, C, D, used, added, opened, l, n
  <2> QED
    BY <2>1, <2>2, CountList
<1>14. IsFiniteSet(D) /\ Cardinality(D) = IF returned \in Cell THEN 1 ELSE 0
  <2>1. CASE returned \in Cell
    <3>1. D = {returned}
      BY <2>1, NoneIsNoCell
    <3> HIDE DEF D
    <3> QED
      BY <2>1, <3>1, FS_Singleton
  <2>2. CASE returned \notin Cell
    <3>1. D = {}
      BY <2>2 DEF Types, Pointer
    <3> HIDE DEF D
    <3> QED
      BY <2>2, <3>1, FS_EmptySet
  <2> QED
    BY <2>1, <2>2
<1> HIDE DEF A, B, C, D, used, added, opened, l, n
<1>15. /\ \A c \in A : c \notin B
       /\ \A c \in A \cup B : c \notin C
       /\ \A c \in (A \cup B) \cup C : c \notin D
  BY <1>6, <1>7, <1>8, <1>9 DEF Forest, HeldOnce
<1>16. /\ IsFiniteSet(A \cup B)
       /\ Cardinality(A \cup B) = Cardinality(A) + Cardinality(B)
  BY <1>10, <1>12, <1>15, CountDisjoint
<1>17. /\ IsFiniteSet((A \cup B) \cup C)
       /\ Cardinality((A \cup B) \cup C) = Cardinality(A \cup B) + Cardinality(C)
  BY <1>13, <1>15, <1>16, CountDisjoint
<1>18. Cardinality(Roots) = Cardinality((A \cup B) \cup C) + Cardinality(D)
  BY <1>5, <1>14, <1>15, <1>17, CountDisjoint
<1> QED
  BY <1>10, <1>12, <1>13, <1>14, <1>16, <1>17, <1>18 DEF used, l, n

(* Every allocated value hangs from exactly one that somebody will free,   *)
(* and nothing hangs from anything that was freed.                         *)
THEOREM OwnedCorrect == Spec => []Owned
<1>1. ASSUME IInv PROVE Owned
  <2>1. Types /\ Forest
    BY <1>1 DEF IInv
  <2> DEFINE links == UNION {{<<c, i>> : i \in DOMAIN heap[c].children} : c \in Allocated}
             child(x) == heap[x[1]].children[x[2]]
  <2>2. \A c \in Allocated : DOMAIN heap[c].children = 1..Len(heap[c].children)
    BY <2>1 DEF Types, HeapOK, IsNode
  <2>3. ASSUME NEW x \in links
        PROVE  /\ x = <<x[1], x[2]>>
               /\ Holds("child", x[1], x[2], child(x))
    <3>1. PICK c, i : c \in Allocated /\ i \in DOMAIN heap[c].children /\ x = <<c, i>>
      BY <2>3
    <3>2. x[1] = c /\ x[2] = i
      BY <3>1
    <3> QED
      BY <2>2, <3>1, <3>2 DEF Holds
  <2>4. ASSUME NEW a, NEW b, NEW c, Holds("child", a, b, c)
        PROVE  \E x \in links : child(x) = c
    <3>1. a \in Allocated /\ b \in DOMAIN heap[a].children /\ c = heap[a].children[b]
      BY <2>2, <2>4 DEF Holds
    <3>2. <<a, b>> \in links /\ child(<<a, b>>) = c
      BY <3>1
    <3> QED
      BY <3>2
  <2> HIDE DEF links, child
  <2>5. \A c : c \in Roots <=> \E kind, a, b : kind # "child" /\ Holds(kind, a, b, c)
    BY <2>1, RootsAre
  <2>6. Roots \cup {child(x) : x \in links} = Allocated
    <3>1. Roots \subseteq Allocated /\ {child(x) : x \in links} \subseteq Allocated
      BY <2>1, <2>3, <2>5 DEF Forest, HeldAllocated
    <3>2. ASSUME NEW c \in Allocated PROVE c \in Roots \cup {child(x) : x \in links}
      <4>1. PICK kind, a, b : Holds(kind, a, b, c)
        <5>1. {c} \subseteq Allocated /\ {c} # {}
          OBVIOUS
        <5> QED
          BY <2>1, <5>1 DEF Forest, Rooted
      <4>2. CASE kind = "child"
        BY <2>4, <4>1, <4>2
      <4>3. CASE kind # "child"
        BY <2>5, <4>1, <4>3
      <4> QED
        BY <4>2, <4>3
    <3> QED
      BY <3>1, <3>2
  <2>7. \A x \in links : child(x) \notin Roots
    BY <2>1, <2>3, <2>5 DEF Forest, HeldOnce
  <2>8. \A x, y \in links : child(x) = child(y) => x = y
    <3> SUFFICES ASSUME NEW x \in links, NEW y \in links, child(x) = child(y) PROVE x = y
      OBVIOUS
    <3>1. Holds("child", x[1], x[2], child(x)) /\ Holds("child", y[1], y[2], child(x))
      BY <2>3
    <3>2. x[1] = y[1] /\ x[2] = y[2]
      BY <2>1, <3>1 DEF Forest, HeldOnce
    <3>3. x = <<x[1], x[2]>> /\ y = <<y[1], y[2]>>
      BY <2>3
    <3> QED
      BY <3>2, <3>3
  <2>9. Cardinality(Roots) = Cardinality({k \in Key : map[k] # Null})
          + Len(additional) + Len(stack) + (IF returned \in Cell THEN 1 ELSE 0)
    BY <2>1, CountRoots
  <2> QED
    BY <2>6, <2>7, <2>8, <2>9 DEF Owned, links, child
<1> QED
  BY <1>1, InvCorrect, PTL

-----------------------------------------------------------------------------
(* Heads are read as they were written.                                    *)

LEMMA QuotientIs ==
    ASSUME NEW n \in Nat, NEW d \in Positive, NEW q \in Nat, NEW r \in 0..d - 1,
           n = q * d + r
    PROVE  n \div d = q
<1> DEFINE x == n \div d
           m == n % d
<1>1. x \in Nat /\ m \in 0..d - 1 /\ n = x * d + m
  BY DEF Positive
<1> HIDE DEF x, m
<1>2. CASE x < q
  <2>1. q = x + 1 + (q - x - 1) /\ q - x - 1 \in Nat
    BY <1>1, <1>2
  <2>2. q * d = x * d + d + (q - x - 1) * d
    BY <1>1, <2>1 DEF Positive
  <2>3. (q - x - 1) * d \in Nat
    BY <2>1 DEF Positive
  <2>4. x * d \in Nat /\ q * d \in Nat
    BY <1>1 DEF Positive
  <2> QED
    BY <1>1, <2>2, <2>3, <2>4 DEF Positive
<1>3. CASE q < x
  <2>1. x = q + 1 + (x - q - 1) /\ x - q - 1 \in Nat
    BY <1>1, <1>3
  <2>2. x * d = q * d + d + (x - q - 1) * d
    BY <1>1, <2>1 DEF Positive
  <2>3. (x - q - 1) * d \in Nat
    BY <2>1 DEF Positive
  <2>4. x * d \in Nat /\ q * d \in Nat
    BY <1>1 DEF Positive
  <2> QED
    BY <1>1, <2>2, <2>3, <2>4 DEF Positive
<1> QED
  BY <1>1, <1>2, <1>3 DEF x

LEMMA Division ==
    ASSUME NEW n \in Nat, NEW d \in Positive
    PROVE  n = (n \div d) * d + (n % d)
<1> DEFINE x == n \div d
           m == n % d
<1>1. x \in Nat /\ m \in 0..d - 1 /\ n = x * d + m
  BY DEF Positive
<1> QED
  BY <1>1

(* Dividing by a product is dividing twice.                                *)
LEMMA QuotientTwice ==
    ASSUME NEW n \in Nat, NEW p \in Positive, NEW b \in Positive
    PROVE  n \div (p * b) = (n \div p) \div b
<1> DEFINE q == n \div p
           r == n % p
           q2 == q \div b
           r2 == q % b
<1>1. q \in Nat /\ r \in 0..p - 1 /\ n = q * p + r
  BY DEF Positive
<1> HIDE DEF q, r
<1>2. q2 \in Nat /\ r2 \in 0..b - 1 /\ q = q2 * b + r2
  BY <1>1 DEF Positive
<1> HIDE DEF q2, r2
<1>3. n = q2 * (p * b) + (r2 * p + r)
  <2>1. q * p = (q2 * b + r2) * p
    BY <1>2
  <2>2. (q2 * b + r2) * p = q2 * (p * b) + r2 * p
    BY <1>2 DEF Positive
  <2>3. q2 * (p * b) \in Nat /\ r2 * p \in Nat
    BY <1>2 DEF Positive
  <2> QED
    BY <1>1, <2>1, <2>2, <2>3
<1>4. r2 * p + r \in 0..p * b - 1
  <2>1. b - 1 - r2 \in Nat /\ b = r2 + 1 + (b - 1 - r2)
    BY <1>2 DEF Positive
  <2>2. p * b = r2 * p + p + (b - 1 - r2) * p
    BY <1>2, <2>1 DEF Positive
  <2>3. (b - 1 - r2) * p \in Nat /\ r2 * p \in Nat
    BY <1>2, <2>1 DEF Positive
  <2>4. p * b \in Nat
    BY DEF Positive
  <2> QED
    BY <1>1, <2>2, <2>3, <2>4 DEF Positive
<1>5. p * b \in Positive
  BY DEF Positive
<1> QED
  BY <1>2, <1>3, <1>4, <1>5, QuotientIs DEF q2, q

(* The bytes of a number that fits in them are that number.                *)
LEMMA BytesAreRead ==
    ASSUME NEW w \in Nat, NEW n \in Nat, n < Power(w)
    PROVE  /\ ToBytes(n, w) \in Seq(0..Byte - 1) /\ Len(ToBytes(n, w)) = w
           /\ FromBytes(ToBytes(n, w)) = n
<1> DEFINE s == ToBytes(n, w)
           T == {i \in 0..w : Numbers(s)[i] = n \div Power(w - i)}
<1>1. ASSUME NEW i \in 0..w PROVE n \div Power(w - i) \in Nat
  <2>1. Power(w - i) \in Positive
    BY PowerDef
  <2> QED
    BY <2>1 DEF Positive
<1>2. \A i \in 1..w : (n \div Power(w - i)) % Byte \in 0..Byte - 1
  BY <1>1, ByteIsPositive DEF Positive
<1>3. /\ s \in [1..w -> 0..Byte - 1]
      /\ \A i \in 1..w : s[i] = (n \div Power(w - i)) % Byte
  BY <1>2 DEF ToBytes
<1> HIDE DEF s
<1>4. s \in Seq(0..Byte - 1) /\ Len(s) = w
  <2> DEFINE S == 0..Byte - 1
  <2>1. s \in [1..w -> S]
    BY <1>3
  <2> HIDE DEF S
  <2>2. s \in Seq(S) /\ Len(s) = w
    BY <2>1
  <2> QED
    BY <2>2 DEF S
<1>5. s \in Seq(Nat)
  <2>1. s \in [1..w -> Nat]
    <3>1. \A x \in 0..Byte - 1 : x \in Nat
      BY ByteIsPositive DEF Positive
    <3> QED
      BY <1>3, <3>1
  <2> QED
    BY <2>1
<1>6. /\ \A i \in 0..w : Numbers(s)[i] = IF i = 0 THEN 0 ELSE Numbers(s)[i - 1] * Byte + s[i]
      /\ FromBytes(s) = Numbers(s)[w]
  BY <1>4, <1>5, NumbersDef
<1>7. 0 \in T
  <2>1. n \div Power(w) = 0
    BY PowerDef, QuotientIs DEF Positive
  <2> QED
    BY <1>6, <2>1
<1>8. ASSUME NEW i \in 1..w, i - 1 \in T PROVE i \in T
  <2> DEFINE p == Power(w - i)
             x == n \div p
  <2>1. p \in Positive /\ Power(w - i + 1) = p * Byte
    BY PowerDef
  <2>2. w - (i - 1) = w - i + 1
    OBVIOUS
  <2>3. x \in Nat
    BY <1>1
  <2>4. n \div (p * Byte) = x \div Byte
    BY <2>1, ByteIsPositive, QuotientTwice
  <2>5. Numbers(s)[i - 1] = x \div Byte
    BY <1>8, <2>1, <2>2, <2>4
  <2>6. s[i] = x % Byte
    BY <1>3
  <2> HIDE DEF x, p
  <2>7. x = (x \div Byte) * Byte + (x % Byte)
    BY <2>3, ByteIsPositive, Division
  <2>8. Numbers(s)[i] = Numbers(s)[i - 1] * Byte + s[i]
    BY <1>6
  <2> DEFINE f == Numbers(s)
             l == x \div Byte
             r == x % Byte
  <2>9. x = l * Byte + r
    BY <2>7
  <2>10. f[i] = f[i - 1] * Byte + s[i] /\ f[i - 1] = l /\ s[i] = r
    BY <2>5, <2>6, <2>8
  <2> HIDE DEF f, l, r
  <2>11. f[i] = x
    BY <2>9, <2>10
  <2> QED
    BY <2>11 DEF x, p, f
<1>9. w \in T
  <2> HIDE DEF T
  <2> QED
    BY <1>7, <1>8, UpTo
<1>10. FromBytes(s) = n
  <2>1. n \div 1 = n
    OBVIOUS
  <2>2. w - w = 0
    OBVIOUS
  <2> QED
    BY <1>6, <1>9, <2>1, <2>2, PowerDef
<1> QED
  BY <1>4, <1>10 DEF s

(* More bytes take more numbers.                                           *)
LEMMA PowersGrow ==
    ASSUME NEW m \in Nat, NEW n \in Nat, m <= n
    PROVE  Power(m) <= Power(n)
<1> DEFINE T == {i \in 0..n : i >= m => Power(m) <= Power(i)}
<1>1. \A i \in Nat : Power(i) \in Positive
  BY PowerDef
<1>2. 0 \in T
  BY <1>1 DEF Positive
<1>3. ASSUME NEW i \in 1..n, i - 1 \in T PROVE i \in T
  <2>1. Power(i - 1 + 1) = Power(i - 1) * Byte
    BY PowerDef
  <2>2. i - 1 + 1 = i
    OBVIOUS
  <2> DEFINE p == Power(i - 1)
  <2>3. p \in Positive /\ Power(i) = p * Byte
    BY <1>1, <2>1, <2>2
  <2> HIDE DEF p
  <2>4. p <= p * Byte
    <3>1. p * Byte = p + p * (Byte - 1) /\ p * (Byte - 1) \in Nat
      BY <2>3, ByteIsPositive DEF Positive
    <3> QED
      BY <2>3, <3>1 DEF Positive
  <2>5. CASE i > m
    BY <1>1, <1>3, <2>3, <2>4, <2>5 DEF p, Positive
  <2>6. CASE i = m
    BY <1>1, <2>6 DEF Positive
  <2>7. CASE i < m
    BY <2>7
  <2> QED
    BY <2>5, <2>6, <2>7
<1>4. n \in T
  <2> HIDE DEF T
  <2> QED
    BY <1>2, <1>3, UpTo
<1> QED
  BY <1>4

(* The forms of a head take more and more numbers.                         *)
LEMMA LimitsGrow ==
    /\ ADDITONAL_BYTES_1 \in Nat /\ ADDITONAL_BYTES_1 < Limit(1)
    /\ \A i \in 1..4 : Limit(i) \in Nat
    /\ Limit(1) <= Limit(2) /\ Limit(2) <= Limit(3)
<1>1. Power(1) = Byte
  <2>1. Power(0 + 1) = Power(0) * Byte /\ Power(0) = 1
    BY PowerDef
  <2> QED
    BY <2>1, ByteIsPositive DEF Positive
<1>2. \A i \in 1..4 : Width[i] \in Nat /\ Width[i] >= 1
  BY HeaderAssumption
<1>3. Width[1] <= Width[2] /\ Width[2] <= Width[3]
  BY HeaderAssumption
<1>4. Byte <= Limit(1)
  BY <1>1, <1>2, PowersGrow DEF Limit
<1>5. Limit(1) <= Limit(2) /\ Limit(2) <= Limit(3)
  BY <1>2, <1>3, PowersGrow DEF Limit
<1>6. ADDITONAL_BYTES_1 \in Nat /\ ADDITONAL_BYTES_1 < Byte
  BY HeaderAssumption DEF Byte, Infos
<1>7. \A i \in 1..4 : Limit(i) \in Nat
  BY LimitIsPositive DEF Positive
<1> QED
  BY <1>4, <1>5, <1>6, <1>7, ByteIsPositive DEF Positive

LEMMA LimitsDiffer == Limit(2) < Limit(3)
<1> DEFINE m == Width[2]
           p == Power(m)
<1>1. m \in Nat /\ Width[3] \in Nat /\ m + 1 <= Width[3]
  BY HeaderAssumption
<1>2. p \in Positive /\ Power(m + 1) = p * Byte
  BY <1>1, PowerDef
<1>3. Power(m + 1) <= Limit(3)
  BY <1>1, PowersGrow DEF Limit
<1> HIDE DEF m, p
<1>4. p < p * Byte
  <2>1. p * Byte = p + p * (Byte - 1) /\ p * (Byte - 1) \in Positive
    BY <1>2, ByteIsPositive DEF Positive
  <2> QED
    BY <1>2, <2>1 DEF Positive
<1>5. Limit(3) \in Nat
  BY LimitsGrow
<1>6. p * Byte \in Nat
  BY <1>2, ByteIsPositive DEF Positive
<1> QED
  BY <1>2, <1>3, <1>4, <1>5, <1>6 DEF Limit, m, p, Positive

(* The form f, 0 for none, is that of a number.                            *)
InForm(n, f) == IF f = 0 THEN n < ADDITONAL_BYTES_1 ELSE n < Limit(f)

FormBytes(f) == IF f = 0 THEN 0 ELSE Width[f]

(* A head in any form that fits its number is read, whatever follows.      *)
LEMMA HeadIsRead ==
    ASSUME NEW n \in Nat, NEW f \in 0..3, InForm(n, f), NEW rest \in Seq(0..Byte - 1)
    PROVE  LET written == WriteForm(UnsignedInteger, n, f)
               h == ReadHeader32(written \o rest, 0, UnsignedInteger)
           IN  /\ Len(written) = 1 + FormBytes(f)
               /\ h.ok /\ h.value = n /\ h.begin = 1 + FormBytes(f)
<1> DEFINE written == WriteForm(UnsignedInteger, n, f)
           s == written \o rest
           b == IF f = 0 THEN n ELSE ADDITONAL_BYTES_1 + f - 1
           w == FormBytes(f)
           tail == IF f = 0 THEN <<>> ELSE ToBytes(n, w)
<1>1. /\ ADDITONAL_BYTES_1 \in Nat /\ Infos \in Nat
      /\ ADDITONAL_BYTES_1 + 8 = Infos /\ Infos < Byte
  BY HeaderAssumption DEF Infos, Byte
<1>2. b \in Nat /\ b < Infos /\ b \in 0..Byte - 1
  <2>1. Byte \in Nat
    BY ByteIsPositive DEF Positive
  <2>2. b \in Nat /\ b < Infos
    BY <1>1 DEF InForm
  <2> QED
    BY <1>1, <2>1, <2>2
<1>3. w \in Nat
  BY HeaderAssumption DEF FormBytes
<1>4. tail \in Seq(0..Byte - 1) /\ Len(tail) = w /\ (f # 0 => FromBytes(tail) = n)
  <2>1. CASE f = 0
    BY <2>1 DEF FormBytes
  <2>2. CASE f # 0
    <3>1. n < Power(w)
      BY <2>2 DEF InForm, Limit, FormBytes
    <3> HIDE DEF w
    <3> QED
      BY <1>3, <2>2, <3>1, BytesAreRead
  <2> QED
    BY <2>1, <2>2
<1>5. written = <<b>> \o tail
  <2>1. ConstructHeader(UnsignedInteger, b) = b
    BY <1>1, <1>2 DEF ConstructHeader, UnsignedInteger
  <2>2. CASE f = 0
    BY <2>1, <2>2 DEF WriteForm
  <2>3. CASE f # 0
    BY <2>1, <2>3 DEF WriteForm, FormBytes
  <2> QED
    BY <2>2, <2>3
<1> HIDE DEF b, w, tail, written
<1>6. /\ Len(written) = 1 + w
      /\ Len(s) = 1 + w + Len(rest) /\ Len(rest) \in Nat
      /\ s[1] = b
      /\ SubSeq(s, 2, 1 + w) = tail
  <2> DEFINE S == 0..Byte - 1
  <2>1. b \in S /\ tail \in Seq(S) /\ rest \in Seq(S)
    BY <1>2, <1>4
  <2> HIDE DEF S
  <2>2. written \in Seq(S) /\ Len(written) = 1 + w /\ written[1] = b
        /\ \A i \in 1..w : written[i + 1] = tail[i]
    BY <1>3, <1>4, <1>5, <2>1
  <2>3. s \in Seq(S) /\ Len(s) = 1 + w + Len(rest) /\ Len(rest) \in Nat
        /\ \A i \in 1..1 + w : s[i] = written[i]
    <3>1. s \in Seq(S) /\ Len(s) = Len(written) + Len(rest) /\ Len(rest) \in Nat
      BY <2>1, <2>2
    <3>2. \A i \in 1..Len(written) : s[i] = written[i]
      BY <2>1, <2>2
    <3> QED
      BY <1>3, <2>2, <3>1, <3>2
  <2>4. s[1] = b
    BY <1>3, <2>2, <2>3
  <2>5. SubSeq(s, 2, 1 + w) = tail
    <3> DEFINE t == SubSeq(s, 2, 1 + w)
    <3>1. 1 + w \in Nat /\ 1 + w <= Len(s)
      BY <1>3, <2>3
    <3>2. t = [i \in 1..w |-> s[i + 1]]
      BY <1>3, <2>3, <3>1
    <3>3. \A i \in 1..w : s[i + 1] = tail[i]
      BY <1>3, <2>2, <2>3
    <3>4. tail = [i \in 1..w |-> tail[i]]
      BY <1>3, <1>4, <2>1
    <3> QED
      BY <3>2, <3>3, <3>4
  <2> QED
    BY <2>2, <2>3, <2>4, <2>5
<1> DEFINE h == ReadForms(s, 0, 1..3)
<1>7. h = ReadHead(TRUE, b, n, 1 + w)
  <2>1. Available(s, 0, 1) /\ Available(s, 1, w)
    BY <1>3, <1>6 DEF Available
  <2>2. b % Infos = b
    BY <1>1, <1>2
  <2> HIDE DEF s
  <2> DEFINE form == b - ADDITONAL_BYTES_1 + 1
             next == 1 + Width[form]
  <2>3. h = CASE b < ADDITONAL_BYTES_1 -> ReadHead(TRUE, b, b, 1)
              [] form \in 1..3 /\ Available(s, 1, Width[form]) ->
                    ReadHead(TRUE, b, FromBytes(SubSeq(s, 2, next)), next)
              [] form \in 1..3 /\ ~Available(s, 1, Width[form]) ->
                    ReadHead(FALSE, b, 0, next)
              [] OTHER -> ReadHead(FALSE, b, 0, 1)
    <3>1. 0 + 1 = 1 /\ 0 + 2 = 2
      OBVIOUS
    <3> QED
      BY <1>6, <2>1, <2>2, <3>1 DEF ReadForms
  <2>4. b < ADDITONAL_BYTES_1 <=> form < 1
    BY <1>1, <1>2
  <2> HIDE DEF h, form
  <2>5. CASE f = 0
    <3>1. b = n /\ w = 0 /\ b < ADDITONAL_BYTES_1
      BY <2>5 DEF b, w, FormBytes, InForm
    <3>2. form \notin 1..3
      BY <2>4, <3>1
    <3>3. h = ReadHead(TRUE, b, b, 1)
      BY <2>3, <3>1, <3>2
    <3>4. 1 + w = 1
      BY <3>1
    <3> QED
      BY <3>1, <3>3, <3>4 DEF h
  <2>6. CASE f # 0
    <3>1. b = ADDITONAL_BYTES_1 + f - 1 /\ w = Width[f]
      BY <2>6 DEF b, w, FormBytes
    <3>2. form = f /\ f \in 1..3 /\ ~(b < ADDITONAL_BYTES_1)
      BY <1>1, <2>6, <3>1 DEF form
    <3>3. FromBytes(SubSeq(s, 2, 1 + w)) = n
      BY <1>4, <1>6, <2>6
    <3>4. h = ReadHead(TRUE, b, FromBytes(SubSeq(s, 2, 1 + w)), 1 + w)
      BY <2>1, <2>3, <3>1, <3>2
    <3> QED
      BY <3>3, <3>4 DEF h
  <2> QED
    BY <2>5, <2>6
<1> HIDE DEF h
<1>8. ReadHeader32(s, 0, UnsignedInteger)
        = [h EXCEPT !.ok = @ /\ h.type = UnsignedInteger]
  BY DEF ReadHeader32, h
<1> HIDE DEF s
<1>9. h.type = UnsignedInteger
  <2>1. b \div Infos = 0
    BY <1>1, <1>2
  <2> QED
    BY <1>7, <2>1 DEF ReadHead, UnsignedInteger
<1> QED
  BY <1>6, <1>7, <1>8, <1>9 DEF ReadHead, s, w, written

(* The form that is taken for a number of 32 bits.                         *)
FormOf(n) ==
    IF n < ADDITONAL_BYTES_1 THEN 0
    ELSE IF n < Limit(1) THEN 1 ELSE IF n < Limit(2) THEN 2 ELSE 3

LEMMA FormOfIs ==
    ASSUME NEW n \in Nat, n < Limit(3)
    PROVE  /\ FormOf(n) \in 0..3 /\ InForm(n, FormOf(n))
           /\ ByteSize(n) = 1 + FormBytes(FormOf(n))
           /\ WriteUint32(UnsignedInteger, n) = WriteForm(UnsignedInteger, n, FormOf(n))
           /\ WriteTypeWithValue(UnsignedInteger, n)
                = WriteForm(UnsignedInteger, n, FormOf(n))
<1> DEFINE A == ADDITONAL_BYTES_1
           l1 == Limit(1)
           l2 == Limit(2)
           l3 == Limit(3)
           f == FormOf(n)
           chosen == CASE n < A -> 0
                       [] n >= A /\ n < l1 -> 1
                       [] n >= l1 /\ n < l2 -> 2
                       [] n >= l2 -> 3
           size == CASE n < A -> 1
                     [] n >= A /\ n < l1 -> 1 + Width[1]
                     [] n >= l1 /\ n < l2 -> 1 + Width[2]
                     [] n >= l2 -> 1 + Width[3]
<1>1. /\ A \in Nat /\ l1 \in Nat /\ l2 \in Nat /\ l3 \in Nat
      /\ A < l1 /\ l1 <= l2 /\ l2 <= l3 /\ n < l3
  BY LimitsGrow
<1>2. f = IF n < A THEN 0 ELSE IF n < l1 THEN 1 ELSE IF n < l2 THEN 2 ELSE 3
  BY DEF FormOf
<1>3. ASSUME NEW g \in 0..3, g = 0 => n < A, g = 1 => n < l1, g = 2 => n < l2, g = 3 => n < l3
      PROVE  InForm(n, g)
  BY <1>3 DEF InForm
<1>4. ByteSize(n) = size
  BY DEF ByteSize
<1>5. WriteUint32(UnsignedInteger, n) = WriteForm(UnsignedInteger, n, chosen)
  BY DEF WriteUint32
<1> HIDE DEF A, l1, l2, l3, f, chosen, size
<1>6. f \in 0..3 /\ InForm(n, f)
  <2>1. /\ f \in 0..3
        /\ f = 0 => n < A
        /\ f = 1 => n < l1
        /\ f = 2 => n < l2
        /\ f = 3 => n < l3
    BY <1>1, <1>2
  <2> QED
    BY <1>3, <2>1
<1>7. chosen = f
  BY <1>1, <1>2 DEF chosen
<1>8. size = 1 + FormBytes(f)
  BY <1>1, <1>2 DEF size, FormBytes
<1>9. /\ Width[1] \in Nat /\ Width[2] \in Nat /\ Width[3] \in Nat
      /\ 0 < Width[1] /\ Width[1] < Width[2] /\ Width[2] < Width[3]
  BY HeaderAssumption
<1>10. \A i, j \in 0..3 : 1 + FormBytes(i) = 1 + FormBytes(j) => i = j
  BY <1>9 DEF FormBytes
<1>11. (CHOOSE i \in 0..3 : ByteSize(n) = 1 + (IF i = 0 THEN 0 ELSE Width[i])) = f
  <2>1. \A i \in 0..3 : ByteSize(n) = 1 + (IF i = 0 THEN 0 ELSE Width[i]) <=> i = f
    BY <1>4, <1>6, <1>8, <1>10 DEF FormBytes
  <2> QED
    BY <1>6, <2>1
<1>12. (IF f = 0 THEN n ELSE n % Limit(f)) = n
  <2>1. f # 0 => Limit(f) \in Nat /\ n < Limit(f)
    BY <1>6, LimitsGrow DEF InForm
  <2> DEFINE l == Limit(f)
  <2> HIDE DEF l
  <2>2. f # 0 => n % l = n
    BY <2>1 DEF l
  <2> QED
    BY <2>2 DEF l
<1>13. WriteTypeWithValue(UnsignedInteger, n) = WriteForm(UnsignedInteger, n, f)
  BY <1>11, <1>12 DEF WriteTypeWithValue
<1> QED
  BY <1>4, <1>5, <1>6, <1>7, <1>8, <1>13 DEF f

(* A head that the library writes for any number of 32 bits, with or       *)
(* without a buffer, is as long as wpcp_cbor_byte_size says, and the       *)
(* strict reader takes it and gives the number, whatever follows.          *)
THEOREM HeadsReadBack ==
    ASSUME NEW n \in Nat, n < Limit(3), NEW rest \in Seq(0..Byte - 1)
    PROVE  LET written == WriteTypeWithValue(UnsignedInteger, n)
               h == ReadHeader32(written \o rest, 0, UnsignedInteger)
           IN  /\ written = WriteUint32(UnsignedInteger, n)
               /\ Len(written) = ByteSize(n)
               /\ h.ok /\ h.value = n /\ h.begin = ByteSize(n)
BY FormOfIs, HeadIsRead

(* The heads agree for the numbers that the runs look at.                  *)
THEOREM HeadsAgreeCorrect == Spec => []HeadsAgree
<1>1. ASSUME IInv PROVE HeadsAgree
  <2>1. bytes \in Seq(0..Byte - 1)
    BY <1>1, RequestAssumption DEF IInv, Types, bytes
  <2> DEFINE l1 == Limit(1)
             l2 == Limit(2)
             l3 == Limit(3)
             A == ADDITONAL_BYTES_1
             numbers == {A - 1, A, Limit(3) - 1} \cup Range(bytes)
                          \cup (UNION {{Limit(i) - 1, Limit(i)} : i \in {1, 2}})
  <2>2. \A n \in Range(bytes) : n \in Nat /\ n < Byte
    <3>1. \A i \in DOMAIN bytes : bytes[i] \in 0..Byte - 1
      <4> DEFINE S == 0..Byte - 1
      <4> HIDE DEF S
      <4>1. bytes \in Seq(S)
        BY <2>1 DEF S
      <4>2. \A i \in DOMAIN bytes : bytes[i] \in S
        BY <4>1
      <4> QED
        BY <4>2 DEF S
    <3>2. Byte \in Nat
      BY ByteIsPositive DEF Positive
    <3> QED
      BY <3>1, <3>2 DEF Range
  <2>3. /\ l1 \in Nat /\ l2 \in Nat /\ l3 \in Nat /\ A \in Nat /\ A > 4
        /\ A < l1 /\ l1 <= l2 /\ l2 < l3
    BY LimitsGrow, LimitsDiffer, HeaderAssumption
  <2>4. Byte \in Nat /\ Byte <= l1
    <3>1. Power(0 + 1) = Power(0) * Byte /\ Power(0) = 1
      BY PowerDef
    <3>2. Width[1] \in Nat /\ 1 <= Width[1]
      BY HeaderAssumption
    <3> QED
      BY <3>1, <3>2, PowersGrow, ByteIsPositive DEF Limit, Positive
  <2>5. \A n \in numbers : n \in {l1 - 1, l1, l2 - 1, l2, A - 1, A, l3 - 1} \cup Range(bytes)
    <3> DEFINE both == UNION {{Limit(i) - 1, Limit(i)} : i \in {1, 2}}
    <3>1. ASSUME NEW n \in both PROVE n \in {l1 - 1, l1, l2 - 1, l2}
      <4>1. PICK i \in {1, 2} : n \in {Limit(i) - 1, Limit(i)}
        BY <3>1
      <4> QED
        BY <4>1
    <3>2. numbers = {A - 1, A, l3 - 1} \cup Range(bytes) \cup both
      OBVIOUS
    <3> HIDE DEF both, numbers, A, l1, l2, l3
    <3> QED
      BY <3>1, <3>2
  <2> HIDE DEF l1, l2, l3, A, numbers
  <2>6. ASSUME NEW n \in numbers PROVE n \in Nat /\ n < l3
    <3>1. CASE n \in Range(bytes)
      BY <2>2, <2>3, <2>4, <3>1
    <3>2. CASE n \in {l1 - 1, l1, l2 - 1, l2, A - 1, A, l3 - 1}
      BY <2>3, <3>2
    <3> QED
      BY <2>5, <2>6, <3>1, <3>2
  <2>7. ASSUME NEW n \in numbers
        PROVE  LET written == WriteTypeWithValue(UnsignedInteger, n)
                   h == ReadHeader32(written \o bytes, 0, UnsignedInteger)
               IN  /\ written = WriteUint32(UnsignedInteger, n)
                   /\ Len(written) = ByteSize(n)
                   /\ h.ok /\ h.value = n /\ h.begin = ByteSize(n)
    <3>1. n \in Nat /\ n < Limit(3)
      BY <2>6 DEF l3
    <3> QED
      BY <2>1, <3>1, HeadsReadBack
  <2> QED
    BY <2>7 DEF HeadsAgree, numbers, A
<1> QED
  BY <1>1, InvCorrect, PTL
=============================================================================
