--------------------------- MODULE AnswersProofs ---------------------------
(***************************************************************************)
(* For chunks, messages and answers of any size: the memory of the answers *)
(* is accounted for and no write goes beyond its chunk (IInv); a buffer is *)
(* what its counters say (Counters, Announced, Fits); the counters of a    *)
(* result free it with its last element (InOrder, InTurn, Counted); and a  *)
(* client reads from a message what the application answered (Reads).      *)
(***************************************************************************)
EXTENDS Answers, FiniteSetTheorems, SequenceTheorems, WellFoundedInduction, TLAPS

-----------------------------------------------------------------------------
(* Numbers and recursive functions.                                        *)

(* A set of numbers has a least one.                                       *)
LEMMA Least ==
    ASSUME NEW S \in SUBSET Nat, S # {}
    PROVE  \E x \in S : \A y \in S : x <= y
<1> DEFINE R == {ss \in Nat \X Nat : ss[1] < ss[2]}
<1>1. IsWellFoundedOn(R, Nat)
  BY NatLessThanWellFounded, Zenon DEF OpToRel
<1>2. PICK x \in S : \A y \in S : ~ (<<y, x>> \in R)
  <2> HIDE DEF R
  <2> QED
    BY <1>1, WFMin, Zenon
<1>3. ASSUME NEW y \in S PROVE x <= y
  <2>1. ~ (<<y, x>> \in R)
    BY <1>2
  <2> QED
    BY <2>1
<1> QED
  BY <1>3

(* Induction up to a number, for the members of a set.                     *)
LEMMA UpTo ==
    ASSUME NEW n \in Nat, NEW T, 0 \in T,
           \A i \in 1..n : i - 1 \in T => i \in T
    PROVE  \A i \in 0..n : i \in T
<1> DEFINE S == {i \in 0..n : i \notin T}
<1>1. S \subseteq Nat
  OBVIOUS
<1>2. ASSUME S # {} PROVE FALSE
  <2>1. PICK x \in S : \A y \in S : x <= y
    <3> HIDE DEF S
    <3> QED
      BY <1>1, <1>2, Least
  <2>2. x \in 1..n /\ x \notin T /\ x - 1 \notin S
    BY <2>1
  <2>3. x - 1 \in T
    BY <2>2
  <2> QED
    BY <2>2, <2>3
<1> QED
  BY <1>2

(* A function that starts with a and goes on in steps.                     *)
Runs(g, n, a, step) == g[0] = a /\ \A i \in 1..n : g[i] = step[i][g[i - 1]]

(* A function can be defined by recursion over a range of numbers.         *)
LEMMA Recursion ==
    ASSUME NEW n \in Nat, NEW S, NEW a \in S, NEW step \in [1..n -> [S -> S]]
    PROVE  \E g \in [0..n -> S] : Runs(g, n, a, step)
<1> DEFINE T == {m \in 0..n : \E g \in [0..m -> S] : Runs(g, m, a, step)}
<1>1. 0 \in T
  <2> DEFINE g == [i \in 0..0 |-> a]
  <2>1. g \in [0..0 -> S] /\ Runs(g, 0, a, step)
    BY DEF Runs
  <2> HIDE DEF g
  <2> QED
    BY <2>1
<1>2. ASSUME NEW m \in 1..n, m - 1 \in T PROVE m \in T
  <2>1. PICK g \in [0..m - 1 -> S] : Runs(g, m - 1, a, step)
    BY <1>2
  <2> DEFINE x == step[m][g[m - 1]]
             h == [i \in 0..m |-> IF i = m THEN x ELSE g[i]]
  <2>2. g[m - 1] \in S
    OBVIOUS
  <2>3. x \in S
    BY <2>2
  <2>4. h \in [0..m -> S]
    <3> HIDE DEF x
    <3> QED
      BY <2>3
  <2>5. h[0] = a
    BY <2>1 DEF Runs
  <2>6. ASSUME NEW i \in 1..m PROVE h[i] = step[i][h[i - 1]]
    <3>1. CASE i = m
      <4>1. h[m] = x /\ h[m - 1] = g[m - 1] /\ m # 0
        OBVIOUS
      <4> QED
        BY <3>1, <4>1
    <3>2. CASE i # m
      <4>1. i \in 1..m - 1 /\ h[i] = g[i] /\ h[i - 1] = g[i - 1]
        BY <3>2
      <4> QED
        BY <2>1, <4>1 DEF Runs
    <3> QED
      BY <3>1, <3>2
  <2>7. Runs(h, m, a, step)
    BY <2>5, <2>6 DEF Runs
  <2> HIDE DEF h
  <2> QED
    BY <2>4, <2>7
<1>3. \A m \in 0..n : m \in T
  <2> HIDE DEF T
  <2> QED
    BY <1>1, <1>2, UpTo
<1>4. n \in T
  <2> HIDE DEF T
  <2> QED
    BY <1>3
<1> QED
  BY <1>4

-----------------------------------------------------------------------------
(* Buffers and their memory.                                               *)

(* What a call writes.                                                     *)
TokenKind == {"diagnostic", "value", "array", "element"}

Tokens == [kind : TokenKind, item : Nat, number : Nat]

(* What a buffer is made of.                                               *)
Chunk == [allocated_size : Nat, used_size : Nat, data : Seq(Tokens)]

(* A buffer has at least its first chunk, and none is filled beyond its    *)
(* end.                                                                    *)
IsBuffer(b) ==
    /\ b \in [chunks : Seq(Chunk), used_size : Nat, broken : BOOLEAN]
    /\ Len(b.chunks) > 0
    /\ \A i \in 1..Len(b.chunks) : b.chunks[i].used_size <= b.chunks[i].allocated_size

Inside == IsBuffer(output_buffer)

(* What the application says about an item.                                *)
Record == [kind : {"none", "one", "array"}, count : Nat, given : Nat]

Recorded ==
    /\ request_payload_count \in Nat
    /\ answer \in [Item -> Record]

(* The inductive invariant.                                                *)
IInv == Recorded /\ Inside /\ heap \in Int /\ lost \in Int /\ Accounted

(* What is written is a token.                                            *)
LEMMA TokenInTokens ==
    ASSUME NEW kind \in TokenKind, NEW k \in Nat, NEW n \in Nat
    PROVE  Token(kind, k, n) \in Tokens
BY DEF Token, Tokens

(* An empty buffer is one, and owns nothing on the heap.                   *)
LEMMA EmptyIsBuffer == IsBuffer(EmptyBuffer) /\ Chained(EmptyBuffer) = 0
<1> DEFINE first == [allocated_size |-> FirstSize, used_size |-> 0, data |-> <<>>]
<1>1. first \in Chunk /\ first.used_size <= first.allocated_size
  BY WriteBufferAssumption DEF Chunk
<1> HIDE DEF first
<1>2. <<first>> \in Seq(Chunk) /\ Len(<<first>>) = 1 /\ <<first>>[1] = first
  BY <1>1
<1>3. EmptyBuffer = [chunks |-> <<first>>, used_size |-> 0, broken |-> FALSE]
  BY DEF EmptyBuffer, first
<1> QED
  BY <1>1, <1>2, <1>3 DEF IsBuffer, Chained

(* A sequence whose last element is replaced.                              *)
LEMMA LastReplaced ==
    ASSUME NEW S, NEW c \in Seq(S), Len(c) > 0, NEW e \in S
    PROVE  /\ Front(c) \o <<e>> \in Seq(S)
           /\ Len(Front(c) \o <<e>>) = Len(c)
           /\ \A i \in 1..Len(c) : (Front(c) \o <<e>>)[i] = IF i < Len(c) THEN c[i] ELSE e
<1> DEFINE f == Front(c)
           n == Len(c) - 1
<1>0. n \in Nat /\ n <= Len(c) /\ f = SubSeq(c, 1, n)
  BY DEF Front
<1>1. /\ f \in Seq(S) /\ Len(f) = n
      /\ \A i \in 1..n : f[i] = c[i]
  <2> HIDE DEF n, f
  <2> QED
    BY <1>0
<1> HIDE DEF f
<1>2. <<e>> \in Seq(S) /\ Len(<<e>>) = 1 /\ <<e>>[1] = e
  OBVIOUS
<1>3. /\ f \o <<e>> \in Seq(S)
      /\ Len(f \o <<e>>) = Len(c)
      /\ \A i \in 1..Len(c) : (f \o <<e>>)[i] = IF i < Len(c) THEN c[i] ELSE e
  BY <1>1, <1>2
<1> QED
  BY <1>3 DEF f

(* Writing keeps a buffer one.                                             *)
LEMMA WrittenIsBuffer ==
    ASSUME NEW b, IsBuffer(b), NEW w \in Tokens, NEW size \in Nat, NEW memory \in BOOLEAN
    PROVE  IsBuffer(Written(b, w, size, memory))
<1> DEFINE c == b.chunks
           n == Len(c)
           last == Last(c)
<1>1. /\ c \in Seq(Chunk) /\ n \in Nat /\ n > 0 /\ b.used_size \in Nat
      /\ b.broken \in BOOLEAN
      /\ \A i \in 1..n : c[i].used_size <= c[i].allocated_size
  BY DEF IsBuffer
<1>2. last = c[n] /\ last \in Chunk
  BY <1>1 DEF Last
<1> HIDE DEF c, n, last
<1>3. b.used_size + size \in Nat
  BY <1>1
<1>4. CASE b.broken
  BY <1>4 DEF Written
<1>5. CASE ~b.broken /\ HasSpace(last, size)
  <2> DEFINE filled == Filled(last, w, size)
             all == Front(c) \o <<filled>>
  <2>1. filled \in Chunk /\ filled.used_size <= filled.allocated_size
      <3>1. PICK a \in Nat, u \in Nat, d \in Seq(Tokens) :
            last = [allocated_size |-> a, used_size |-> u, data |-> d]
      BY <1>2 DEF Chunk
    <3>2. filled = [allocated_size |-> a, used_size |-> u + size, data |-> Append(d, w)]
      BY <3>1 DEF Filled
    <3>3. Append(d, w) \in Seq(Tokens) /\ u + size <= a
      BY <3>1, <1>5 DEF HasSpace
    <3> HIDE DEF filled
    <3> QED
      BY <3>2, <3>3 DEF Chunk
  <2> HIDE DEF filled
  <2>2. /\ all \in Seq(Chunk) /\ Len(all) = n
        /\ \A i \in 1..n : all[i] = IF i < n THEN c[i] ELSE filled
    BY <2>1, <1>1, LastReplaced DEF n
  <2>3. \A i \in 1..n : all[i].used_size <= all[i].allocated_size
    BY <2>1, <2>2, <1>1
  <2> HIDE DEF all
  <2>4. Written(b, w, size, memory) =
          [chunks |-> all, used_size |-> b.used_size + size, broken |-> FALSE]
    BY <1>5 DEF Written, all, filled, last, c
  <2> QED
    BY <2>2, <2>3, <2>4, <1>1, <1>3 DEF IsBuffer
<1>6. CASE ~b.broken /\ ~HasSpace(last, size) /\ memory
  <2> DEFINE new == NewChunk(w, size)
             all == Append(c, new)
  <2>1. new \in Chunk /\ new.used_size <= new.allocated_size
    BY WriteBufferAssumption DEF NewChunk, Chunk
  <2> HIDE DEF new
  <2>2. /\ all \in Seq(Chunk) /\ Len(all) = n + 1
        /\ \A i \in 1..n + 1 : all[i] = IF i <= n THEN c[i] ELSE new
    BY <2>1, <1>1 DEF n
  <2>3. \A i \in 1..n + 1 : all[i].used_size <= all[i].allocated_size
    BY <2>1, <2>2, <1>1
  <2> HIDE DEF all
  <2>4. Written(b, w, size, memory) =
          [chunks |-> all, used_size |-> b.used_size + size, broken |-> FALSE]
    BY <1>6 DEF Written, all, new, last, c
  <2> QED
    BY <2>2, <2>3, <2>4, <1>1, <1>3 DEF IsBuffer
<1>7. CASE ~b.broken /\ ~HasSpace(last, size) /\ ~memory
  <2>1. Written(b, w, size, memory) =
          [chunks |-> c, used_size |-> b.used_size + size, broken |-> TRUE]
    BY <1>7 DEF Written, last, c
  <2> QED
    BY <2>1, <1>1, <1>3 DEF IsBuffer, n
<1> QED
  BY <1>1, <1>4, <1>5, <1>6, <1>7

(* What the application answers keeps its form.                            *)
LEMMA RecordedStep == IInv /\ [Next]_vars => Recorded'
<1> SUFFICES ASSUME IInv, [Next]_vars PROVE Recorded'
  OBVIOUS
<1>0. Recorded
  BY DEF IInv
<1> DEFINE Recorded1(k, r) == /\ r \in Record
                              /\ answer' = [answer EXCEPT ![k] = r]
                              /\ request_payload_count' = request_payload_count
<1>1. ASSUME NEW k \in Item, NEW r, Recorded1(k, r) PROVE Recorded'
  BY <1>0, <1>1 DEF Recorded, Item
<1>2. CASE Request
  <2>1. PICK n \in 0..MaxPayload :
          request_payload_count' = n /\ answer' = [k \in 1..n |-> NoAnswer]
    BY <1>2 DEF Request
  <2>2. NoAnswer \in Record
    BY DEF NoAnswer, Record
  <2>3. n \in Nat
    BY AnswersAssumption
  <2> QED
    BY <2>1, <2>2, <2>3 DEF Recorded, Item
<1>3. CASE SessionEnd
  BY <1>0, <1>3 DEF SessionEnd, counters, Recorded, Item
<1>4. ASSUME NEW k \in Item, Answer(k) PROVE Recorded'
  <2>1. answer[k] \in Record
    BY <1>0 DEF Recorded
  <2>2. [answer[k] EXCEPT !.kind = "one"] \in Record
    BY <2>1 DEF Record
  <2>3. /\ answer' = [answer EXCEPT ![k] = [answer[k] EXCEPT !.kind = "one"]]
        /\ request_payload_count' = request_payload_count
    BY <1>4 DEF Answer
  <2> QED
    BY <2>2, <2>3, <1>1
<1>5. ASSUME NEW k \in Item, AnswerArray(k) PROVE Recorded'
  <2>1. PICK count \in 0..MaxElements :
          /\ answer' = [answer EXCEPT ![k] = [kind |-> "array", count |-> count,
                                              given |-> 0]]
          /\ request_payload_count' = request_payload_count
    BY <1>5 DEF AnswerArray
  <2>2. [kind |-> "array", count |-> count, given |-> 0] \in Record
    BY AnswersAssumption DEF Record
  <2> QED
    BY <2>1, <2>2, <1>1
<1>6. ASSUME NEW k \in Item, AnswerElement(k) PROVE Recorded'
  <2>1. answer[k] \in Record
    BY <1>0 DEF Recorded
  <2>2. [answer[k] EXCEPT !.given = @ + 1] \in Record
    BY <2>1 DEF Record
  <2>3. /\ answer' = [answer EXCEPT ![k] = [answer[k] EXCEPT !.given = @ + 1]]
        /\ request_payload_count' = request_payload_count
    BY <1>6 DEF AnswerElement
  <2> QED
    BY <2>2, <2>3, <1>1
<1>7. CASE UNCHANGED vars
  BY <1>0, <1>7 DEF vars, counters, Recorded, Item
<1> QED
  BY <1>2, <1>3, <1>4, <1>5, <1>6, <1>7 DEF Next, AnswerItem

(* What an answer leaves in the memory.                                    *)
Kept == Inside /\ heap \in Int /\ lost \in Int /\ Accounted

(* A result that goes on keeps its chunks, one that is sent or dropped     *)
(* gives them back or loses them.                                          *)
LEMMA ReleaseKeeps ==
    ASSUME Kept, open, NEW b, IsBuffer(b), ReleaseResult(b)
    PROVE  Kept'
<1> USE DEF Kept, Inside, Accounted
<1>1. Chained(b) \in Int /\ Chained(output_buffer) \in Int
  BY DEF IsBuffer, Chained
<1>2. CASE Remains(b)
  BY <1>1, <1>2 DEF Remains
<1>3. CASE Sends(b)
  BY <1>1, <1>3, EmptyIsBuffer DEF Sends, Cleared
<1>4. CASE Drops(b)
  BY <1>1, <1>4, EmptyIsBuffer DEF Drops
<1> QED
  BY <1>2, <1>3, <1>4 DEF ReleaseResult

(* A buffer that grew.                                                     *)
LEMMA GrowthKeeps ==
    ASSUME Kept, open, NEW b, IsBuffer(b), output_buffer' = b,
           heap' = heap + Chained(b) - Chained(output_buffer), UNCHANGED <<open, lost>>
    PROVE  Kept'
<1>1. Chained(b) \in Int /\ Chained(output_buffer) \in Int
  BY DEF IsBuffer, Chained, Kept, Inside
<1> QED
  BY <1>1 DEF Kept, Inside, Accounted

(* A diagnostic and what follows it leave a buffer.                        *)
LEMMA DiagnosticIsBuffer ==
    ASSUME Inside, NEW k \in Nat, NEW w \in Tokens, NEW size \in Nat,
           NEW b \in WithDiagnostic(k, w, size)
    PROVE  IsBuffer(b)
<1>1. PICK d \in Size, m1 \in BOOLEAN, m2 \in BOOLEAN :
        b = Written(Written(output_buffer, Token("diagnostic", k, 0), d, m1), w, size, m2)
  BY DEF WithDiagnostic
<1>2. d \in Nat /\ Token("diagnostic", k, 0) \in Tokens
  BY TokenInTokens, AnswersAssumption DEF TokenKind
<1> DEFINE first == Written(output_buffer, Token("diagnostic", k, 0), d, m1)
<1>3. IsBuffer(first)
  BY <1>2, WrittenIsBuffer DEF Inside
<1> HIDE DEF first
<1>4. IsBuffer(Written(first, w, size, m2))
  BY <1>3, WrittenIsBuffer
<1> QED
  BY <1>1, <1>4 DEF first

(* Every step keeps the memory in order.                                   *)
LEMMA KeptStep == IInv /\ [Next]_vars => Kept'
<1> SUFFICES ASSUME IInv, [Next]_vars PROVE Kept'
  OBVIOUS
<1>0. Kept /\ \A k \in Item : k \in Nat
  BY DEF IInv, Kept, Recorded, Item
<1>1. CASE Request
  BY <1>0, <1>1, EmptyIsBuffer DEF Request, Kept, Inside, Accounted
<1>2. CASE SessionEnd
  BY <1>0, <1>2 DEF SessionEnd, Kept, Inside, Accounted
<1>3. ASSUME NEW k \in Item, Answer(k) PROVE Kept'
  <2>1. PICK size \in Size :
          \E b \in WithDiagnostic(k, Token("value", k, 0), size) : ReleaseResult(b)
    BY <1>3 DEF Answer
  <2>2. PICK b \in WithDiagnostic(k, Token("value", k, 0), size) : ReleaseResult(b)
    BY <2>1
  <2>3. size \in Nat /\ Token("value", k, 0) \in Tokens
    BY <1>0, TokenInTokens, AnswersAssumption DEF TokenKind
  <2>4. IsBuffer(b)
    BY <1>0, <2>3, DiagnosticIsBuffer DEF Kept
  <2> QED
    BY <1>0, <1>3, <2>2, <2>4, ReleaseKeeps DEF Answer
<1>4. ASSUME NEW k \in Item, AnswerArray(k) PROVE Kept'
  <2>1. PICK count \in 0..MaxElements :
          \E b \in WithDiagnostic(k, Token("array", k, count), 1) : RequestSubresult(b, count)
    BY <1>4 DEF AnswerArray
  <2>2. PICK b \in WithDiagnostic(k, Token("array", k, count), 1) : RequestSubresult(b, count)
    BY <2>1
  <2>3. Token("array", k, count) \in Tokens
    BY <1>0, TokenInTokens, AnswersAssumption DEF TokenKind
  <2>4. IsBuffer(b)
    BY <1>0, <2>3, DiagnosticIsBuffer DEF Kept
  <2>5. CASE ReleaseResult(b)
    BY <1>0, <1>4, <2>4, <2>5, ReleaseKeeps DEF AnswerArray
  <2>6. CASE /\ output_buffer' = b
             /\ heap' = heap + Chained(b) - Chained(output_buffer)
             /\ UNCHANGED <<open, lost>>
    BY <1>0, <1>4, <2>4, <2>6, GrowthKeeps DEF AnswerArray
  <2> QED
    BY <2>2, <2>5, <2>6 DEF RequestSubresult
<1>5. ASSUME NEW k \in Item, AnswerElement(k) PROVE Kept'
  <2> DEFINE w == Token("element", k, answer[k].given + 1)
  <2>1. PICK size \in Size, memory \in BOOLEAN :
          LET b == Written(output_buffer, w, size, memory)
          IN  \/ ReleaseResult(b)
              \/ /\ output_buffer' = b
                 /\ heap' = heap + Chained(b) - Chained(output_buffer)
                 /\ UNCHANGED <<open, lost>>
    BY <1>5 DEF AnswerElement
  <2>2. size \in Nat /\ w \in Tokens
    <3>1. answer[k] \in Record
      BY DEF IInv, Recorded
    <3>2. answer[k].given + 1 \in Nat
      BY <3>1 DEF Record
    <3> QED
      BY <1>0, <3>2, TokenInTokens, AnswersAssumption DEF TokenKind
  <2> HIDE DEF w
  <2>3. IsBuffer(Written(output_buffer, w, size, memory))
    BY <1>0, <2>2, WrittenIsBuffer DEF Kept, Inside
  <2>4. open
    BY <1>5 DEF AnswerElement
  <2> QED
    BY <1>0, <2>1, <2>3, <2>4, ReleaseKeeps, GrowthKeeps
<1>6. CASE UNCHANGED vars
  BY <1>0, <1>6 DEF vars, Kept, Inside, Accounted
<1> QED
  BY <1>1, <1>2, <1>3, <1>4, <1>5, <1>6 DEF Next, AnswerItem

(* The inductive invariant holds.                                          *)
THEOREM InvCorrect == Spec => []IInv
<1>1. Init => IInv
  BY EmptyIsBuffer DEF Init, IInv, Recorded, Item, Inside, Accounted
<1>2. IInv /\ [Next]_vars => IInv'
  BY RecordedStep, KeptStep DEF IInv, Kept
<1> QED
  BY <1>1, <1>2, PTL DEF Spec

(* Every chunk belongs to the open result, or was lost with one that could *)
(* not be sent: none is freed twice, and no other is forgotten.            *)
THEOREM AccountedCorrect == Spec => []Accounted
<1>1. IInv => Accounted
  BY DEF IInv
<1> QED
  BY <1>1, InvCorrect, PTL

(* No write ever goes beyond the chunk it goes to.                         *)
THEOREM InsideCorrect == Spec => []Inside
<1>1. IInv => Inside
  BY DEF IInv
<1> QED
  BY <1>1, InvCorrect, PTL

-----------------------------------------------------------------------------
(* What is in a buffer.                                                    *)

(* The function in Content.                                                *)
Contents(c) ==
    CHOOSE f : f = [i \in 0..Len(c) |-> IF i = 0 THEN <<>> ELSE f[i - 1] \o c[i].data]

LEMMA ContentsDef ==
    ASSUME NEW c \in Seq(Chunk)
    PROVE  /\ Contents(c) \in [0..Len(c) -> Seq(Tokens)]
           /\ \A i \in 0..Len(c) :
                Contents(c)[i] = IF i = 0 THEN <<>> ELSE Contents(c)[i - 1] \o c[i].data
<1> DEFINE f == Contents(c)
           n == Len(c)
           S == Seq(Tokens)
           Rec(g) == g = [i \in 0..n |-> IF i = 0 THEN <<>> ELSE g[i - 1] \o c[i].data]
           step == [i \in 1..n |-> [x \in S |-> x \o c[i].data]]
<1>1. \A i \in 1..n : c[i].data \in S
  <2>1. \A i \in 1..n : c[i] \in Chunk
    OBVIOUS
  <2> QED
    BY <2>1 DEF Chunk
<1>2. \A i \in 1..n : \A x \in S : x \o c[i].data \in S
  BY <1>1
<1>3. <<>> \in S /\ n \in Nat
  OBVIOUS
<1> HIDE DEF S, n
<1>4. step \in [1..n -> [S -> S]]
  BY <1>2
<1>5. PICK g \in [0..n -> S] : Runs(g, n, <<>>, step)
  <2> HIDE DEF step
  <2> QED
    BY <1>3, <1>4, Recursion
<1>6. Rec(g)
  <2>1. ASSUME NEW i \in 1..n PROVE step[i][g[i - 1]] = g[i - 1] \o c[i].data
    <3>1. i - 1 \in 0..n
      BY <1>3
    <3>2. g[i - 1] \in S
      BY <3>1
    <3> QED
      BY <3>2
  <2> HIDE DEF step
  <2>2. ASSUME NEW i \in 0..n PROVE g[i] = IF i = 0 THEN <<>> ELSE g[i - 1] \o c[i].data
    <3>1. CASE i = 0
      BY <1>5, <3>1 DEF Runs
    <3>2. CASE i # 0
      <4>1. i \in 1..n
        BY <1>3, <3>2
      <4> QED
        BY <1>5, <2>1, <3>2, <4>1 DEF Runs
    <3> QED
      BY <3>1, <3>2
  <2>3. g = [i \in 0..n |-> g[i]]
    OBVIOUS
  <2> QED
    BY <2>2, <2>3
<1>7. Rec(f)
  BY <1>6 DEF Contents, n
<1>8. \A i \in 0..n : f[i] \in S
  <2> DEFINE T == {i \in 0..n : f[i] \in S}
  <2> HIDE DEF f
  <2>1. 0 \in T
    BY <1>3, <1>7
  <2>2. ASSUME NEW i \in 1..n, i - 1 \in T PROVE i \in T
    <3>1. i \in 0..n /\ i # 0 /\ f[i - 1] \in S
      BY <1>3, <2>2
    <3> QED
      BY <1>2, <1>7, <3>1
  <2>3. \A i \in 0..n : i \in T
    <3> HIDE DEF T
    <3> QED
      BY <1>3, <2>1, <2>2, UpTo
  <2> QED
    BY <2>3
<1> HIDE DEF f
<1>9. f \in [0..n -> S] /\ \A i \in 0..n : f[i] = IF i = 0 THEN <<>> ELSE f[i - 1] \o c[i].data
  BY <1>7, <1>8
<1> QED
  BY <1>9 DEF f, n, S

(* The function in BytesCopied.                                            *)
Sums(c) ==
    CHOOSE f : f = [i \in 0..Len(c) |-> IF i = 0 THEN 0 ELSE f[i - 1] + c[i].used_size]

LEMMA SumsDef ==
    ASSUME NEW c \in Seq(Chunk)
    PROVE  /\ Sums(c) \in [0..Len(c) -> Nat]
           /\ \A i \in 0..Len(c) :
                Sums(c)[i] = IF i = 0 THEN 0 ELSE Sums(c)[i - 1] + c[i].used_size
<1> DEFINE f == Sums(c)
           n == Len(c)
           Rec(g) == g = [i \in 0..n |-> IF i = 0 THEN 0 ELSE g[i - 1] + c[i].used_size]
           step == [i \in 1..n |-> [x \in Nat |-> x + c[i].used_size]]
<1>1. \A i \in 1..n : c[i].used_size \in Nat
  <2>1. \A i \in 1..n : c[i] \in Chunk
    OBVIOUS
  <2> QED
    BY <2>1 DEF Chunk
<1>2. \A i \in 1..n : \A x \in Nat : x + c[i].used_size \in Nat
  BY <1>1
<1>3. n \in Nat
  OBVIOUS
<1> HIDE DEF n
<1>4. step \in [1..n -> [Nat -> Nat]]
  BY <1>2
<1>5. PICK g \in [0..n -> Nat] : Runs(g, n, 0, step)
  <2> HIDE DEF step
  <2> QED
    BY <1>3, <1>4, Recursion
<1>6. Rec(g)
  <2>1. ASSUME NEW i \in 1..n PROVE step[i][g[i - 1]] = g[i - 1] + c[i].used_size
    <3>1. i - 1 \in 0..n
      BY <1>3
    <3>2. g[i - 1] \in Nat
      BY <3>1
    <3> QED
      BY <3>2
  <2> HIDE DEF step
  <2>2. ASSUME NEW i \in 0..n PROVE g[i] = IF i = 0 THEN 0 ELSE g[i - 1] + c[i].used_size
    <3>1. CASE i = 0
      BY <1>5, <3>1 DEF Runs
    <3>2. CASE i # 0
      <4>1. i \in 1..n
        BY <1>3, <3>2
      <4> QED
        BY <1>5, <2>1, <3>2, <4>1 DEF Runs
    <3> QED
      BY <3>1, <3>2
  <2>3. g = [i \in 0..n |-> g[i]]
    OBVIOUS
  <2> QED
    BY <2>2, <2>3
<1>7. Rec(f)
  BY <1>6 DEF Sums, n
<1>8. \A i \in 0..n : f[i] \in Nat
  <2> DEFINE T == {i \in 0..n : f[i] \in Nat}
  <2> HIDE DEF f
  <2>1. 0 \in T
    BY <1>3, <1>7
  <2>2. ASSUME NEW i \in 1..n, i - 1 \in T PROVE i \in T
    <3>1. i \in 0..n /\ i # 0 /\ f[i - 1] \in Nat
      BY <1>3, <2>2
    <3> QED
      BY <1>2, <1>7, <3>1
  <2>3. \A i \in 0..n : i \in T
    <3> HIDE DEF T
    <3> QED
      BY <1>3, <2>1, <2>2, UpTo
  <2> QED
    BY <2>3
<1> HIDE DEF f
<1>9. f \in [0..n -> Nat] /\ \A i \in 0..n : f[i] = IF i = 0 THEN 0 ELSE f[i - 1] + c[i].used_size
  BY <1>7, <1>8
<1> QED
  BY <1>9 DEF f, n

(* Chunks that agree up to m hold the same up to m.                        *)
LEMMA SameChunks ==
    ASSUME NEW c \in Seq(Chunk), NEW d \in Seq(Chunk), NEW m \in Nat,
           m <= Len(c), m <= Len(d), \A i \in 1..m : c[i] = d[i]
    PROVE  Contents(c)[m] = Contents(d)[m] /\ Sums(c)[m] = Sums(d)[m]
<1> DEFINE T == {i \in 0..m : Contents(c)[i] = Contents(d)[i] /\ Sums(c)[i] = Sums(d)[i]}
<1>1. 0 \in T
  BY ContentsDef, SumsDef
<1>2. ASSUME NEW i \in 1..m, i - 1 \in T PROVE i \in T
  <2>1. i \in 0..Len(c) /\ i \in 0..Len(d) /\ i # 0 /\ c[i] = d[i]
    OBVIOUS
  <2>2. Contents(c)[i - 1] = Contents(d)[i - 1] /\ Sums(c)[i - 1] = Sums(d)[i - 1]
    BY <1>2
  <2>3. /\ Contents(c)[i] = Contents(c)[i - 1] \o c[i].data
        /\ Contents(d)[i] = Contents(d)[i - 1] \o d[i].data
    BY <2>1, ContentsDef
  <2>4. /\ Sums(c)[i] = Sums(c)[i - 1] + c[i].used_size
        /\ Sums(d)[i] = Sums(d)[i - 1] + d[i].used_size
    BY <2>1, SumsDef
  <2> HIDE DEF T
  <2>5. Contents(c)[i] = Contents(d)[i] /\ Sums(c)[i] = Sums(d)[i]
    BY <2>1, <2>2, <2>3, <2>4
  <2> QED
    BY <2>5 DEF T
<1>3. \A i \in 0..m : i \in T
  <2> HIDE DEF T
  <2> QED
    BY <1>1, <1>2, UpTo
<1> QED
  BY <1>3

LEMMA WholeContent ==
    ASSUME NEW b, IsBuffer(b), ~b.broken
    PROVE  /\ Content(b) = Contents(b.chunks)[Len(b.chunks)]
           /\ BytesCopied(b) = Sums(b.chunks)[Len(b.chunks)]
BY DEF Content, BytesCopied, Contents, Sums

(* Buffer b holds what the buffer old holds and w behind it, unless it is  *)
(* broken.                                                                 *)
Adds(b, old, w) ==
    ~b.broken =>
        /\ ~old.broken
        /\ Content(old) \in Seq(Tokens)
        /\ Content(b) = Append(Content(old), w)

(* What would be copied into a message is what was written.                *)
Sized(b) == ~b.broken => BytesCopied(b) = b.used_size

(* The last chunk gets a write, or a new chunk behind it does.             *)
LEMMA LastFilled ==
    ASSUME NEW c \in Seq(Chunk), NEW d \in Seq(Chunk), NEW n \in Nat \ {0},
           NEW w \in Tokens, NEW size \in Nat,
           Len(c) = n, Len(d) = n, \A i \in 1..n - 1 : d[i] = c[i],
           d[n].data = Append(c[n].data, w), d[n].used_size = c[n].used_size + size
    PROVE  /\ Contents(d)[n] = Append(Contents(c)[n], w)
           /\ Sums(d)[n] = Sums(c)[n] + size
<1>1. n \in 0..Len(c) /\ n \in 0..Len(d) /\ n # 0 /\ n - 1 \in Nat /\ n - 1 \in 0..Len(c)
  OBVIOUS
<1>2. Contents(d)[n - 1] = Contents(c)[n - 1] /\ Sums(d)[n - 1] = Sums(c)[n - 1]
  BY <1>1, SameChunks
<1>3. /\ Contents(c)[n] = Contents(c)[n - 1] \o c[n].data
      /\ Contents(d)[n] = Contents(d)[n - 1] \o d[n].data
      /\ Sums(c)[n] = Sums(c)[n - 1] + c[n].used_size
      /\ Sums(d)[n] = Sums(d)[n - 1] + d[n].used_size
  BY <1>1, ContentsDef, SumsDef
<1>4. /\ c[n].data \in Seq(Tokens) /\ c[n].used_size \in Nat
      /\ Contents(c)[n - 1] \in Seq(Tokens) /\ Sums(c)[n - 1] \in Nat
  <2>1. c[n] \in Chunk
    BY <1>1
  <2> QED
    BY <1>1, <2>1, ContentsDef, SumsDef DEF Chunk
<1> DEFINE x == Contents(c)[n - 1]
           y == c[n].data
<1>5. x \o Append(y, w) = Append(x \o y, w)
  <2>1. x \in Seq(Tokens) /\ y \in Seq(Tokens)
    BY <1>4
  <2> HIDE DEF x, y
  <2> QED
    BY <2>1
<1>6. Contents(d)[n] = Append(Contents(c)[n], w)
  BY <1>2, <1>3, <1>5
<1>7. Sums(d)[n] = Sums(c)[n] + size
  BY <1>2, <1>3, <1>4
<1> QED
  BY <1>6, <1>7

LEMMA ChunkAdded ==
    ASSUME NEW c \in Seq(Chunk), NEW d \in Seq(Chunk), NEW n \in Nat,
           NEW w \in Tokens, NEW size \in Nat,
           Len(c) = n, Len(d) = n + 1, \A i \in 1..n : d[i] = c[i],
           d[n + 1].data = <<w>>, d[n + 1].used_size = size
    PROVE  /\ Contents(d)[n + 1] = Append(Contents(c)[n], w)
           /\ Sums(d)[n + 1] = Sums(c)[n] + size
<1>1. /\ n \in 0..Len(c) /\ n \in 0..Len(d) /\ n + 1 \in 0..Len(d) /\ n + 1 # 0
      /\ (n + 1) - 1 = n
  OBVIOUS
<1>2. Contents(d)[n] = Contents(c)[n] /\ Sums(d)[n] = Sums(c)[n]
  BY <1>1, SameChunks
<1>3. /\ Contents(d)[n + 1] = Contents(d)[n] \o <<w>>
      /\ Sums(d)[n + 1] = Sums(d)[n] + size
  BY <1>1, ContentsDef, SumsDef
<1>4. Contents(c)[n] \in Seq(Tokens)
  BY <1>1, ContentsDef
<1>5. \A x \in Seq(Tokens) : x \o <<w>> = Append(x, w)
  OBVIOUS
<1> QED
  BY <1>2, <1>3, <1>4, <1>5

(* A write adds what is written, or breaks the buffer.                     *)
LEMMA WrittenAdds ==
    ASSUME NEW b, IsBuffer(b), NEW w \in Tokens, NEW size \in Nat, NEW memory \in BOOLEAN
    PROVE  /\ Adds(Written(b, w, size, memory), b, w)
           /\ Sized(b) => Sized(Written(b, w, size, memory))
<1> DEFINE v == Written(b, w, size, memory)
           c == b.chunks
           d == v.chunks
           n == Len(c)
           last == Last(c)
<1>1. /\ c \in Seq(Chunk) /\ n \in Nat \ {0} /\ last = c[n] /\ b.used_size \in Nat
      /\ b.broken \in BOOLEAN
  BY DEF IsBuffer, Last
<1>2. IsBuffer(v)
  BY WrittenIsBuffer
<1>3. d \in Seq(Chunk)
  BY <1>2 DEF IsBuffer
<1>4. ASSUME b.broken PROVE v.broken
  BY <1>4 DEF Written
<1>5. ASSUME ~b.broken, ~HasSpace(last, size), ~memory PROVE v.broken
  BY <1>5 DEF Written
<1>6. ASSUME ~b.broken, Contents(d)[Len(d)] = Append(Contents(c)[n], w),
             Sums(d)[Len(d)] = Sums(c)[n] + size, v.used_size = b.used_size + size
      PROVE  Adds(v, b, w) /\ (Sized(b) => Sized(v))
  <2> HIDE DEF v
  <2>1. ASSUME ~v.broken
        PROVE  /\ Content(v) = Append(Content(b), w) /\ Content(b) \in Seq(Tokens)
               /\ BytesCopied(v) = BytesCopied(b) + size
    <3>1. /\ Content(b) = Contents(c)[n] /\ Content(v) = Contents(d)[Len(d)]
          /\ BytesCopied(b) = Sums(c)[n] /\ BytesCopied(v) = Sums(d)[Len(d)]
      BY <1>2, <1>6, <2>1, WholeContent
    <3>2. Contents(c)[n] \in Seq(Tokens)
      BY <1>1, ContentsDef
    <3> QED
      BY <1>6, <3>1, <3>2
  <2> QED
    BY <1>6, <2>1 DEF Adds, Sized
<1>7. ASSUME ~b.broken, HasSpace(last, size)
      PROVE  Adds(v, b, w) /\ (Sized(b) => Sized(v))
  <2> DEFINE filled == Filled(last, w, size)
  <2>1. v = [chunks |-> Front(c) \o <<filled>>, used_size |-> b.used_size + size,
             broken |-> FALSE]
    BY <1>7 DEF Written
  <2>2. filled.data = Append(last.data, w) /\ filled.used_size = last.used_size + size
    BY DEF Filled
  <2>3. filled \in Chunk
    <3>1. last \in Chunk
      BY <1>1
    <3>2. PICK a \in Nat, u \in Nat, e \in Seq(Tokens) :
            last = [allocated_size |-> a, used_size |-> u, data |-> e]
      BY <3>1 DEF Chunk
    <3>3. filled = [allocated_size |-> a, used_size |-> u + size, data |-> Append(e, w)]
      BY <3>2 DEF Filled
    <3>4. Append(e, w) \in Seq(Tokens) /\ u + size \in Nat
      OBVIOUS
    <3> HIDE DEF filled
    <3> QED
      BY <3>3, <3>4 DEF Chunk
  <2> HIDE DEF filled, last
  <2>4. /\ Len(d) = n
        /\ \A i \in 1..n : d[i] = IF i < n THEN c[i] ELSE filled
    <3> HIDE DEF v
    <3>1. d = Front(c) \o <<filled>>
      BY <2>1
    <3> HIDE DEF c, d
    <3> QED
      BY <1>1, <2>3, <3>1, LastReplaced DEF n
  <2> HIDE DEF v, c, d
  <2>5. Len(c) = n /\ d[n] = filled /\ \A i \in 1..n - 1 : d[i] = c[i]
    BY <1>1, <2>4 DEF n
  <2> HIDE DEF n
  <2>6. /\ Contents(d)[n] = Append(Contents(c)[n], w)
        /\ Sums(d)[n] = Sums(c)[n] + size
    BY <1>1, <1>3, <2>2, <2>4, <2>5, LastFilled
  <2>7. v.used_size = b.used_size + size
    BY <2>1
  <2> QED
    BY <1>6, <1>7, <2>4, <2>6, <2>7
<1>8. ASSUME ~b.broken, ~HasSpace(last, size), memory
      PROVE  Adds(v, b, w) /\ (Sized(b) => Sized(v))
  <2> DEFINE new == NewChunk(w, size)
  <2>1. v = [chunks |-> Append(c, new), used_size |-> b.used_size + size, broken |-> FALSE]
    BY <1>8 DEF Written
  <2>2. new.data = <<w>> /\ new.used_size = size
    BY DEF NewChunk
  <2> HIDE DEF new, last
  <2>3. /\ Len(d) = n + 1 /\ d[n + 1] = new
        /\ \A i \in 1..n : d[i] = c[i]
    <3> HIDE DEF v
    <3>1. d = Append(c, new)
      BY <2>1
    <3> HIDE DEF c, d
    <3> QED
      BY <1>1, <3>1 DEF n
  <2>4. v.used_size = b.used_size + size
    <3> HIDE DEF v
    <3> QED
      BY <2>1
  <2> HIDE DEF v, c, d
  <2>5. /\ Contents(d)[n + 1] = Append(Contents(c)[n], w)
        /\ Sums(d)[n + 1] = Sums(c)[n] + size
    <3>1. Len(c) = n
      BY DEF n
    <3> HIDE DEF n
    <3> QED
      BY <1>1, <1>3, <2>2, <2>3, <3>1, ChunkAdded
  <2> QED
    BY <1>6, <1>8, <2>3, <2>4, <2>5
<1>9. Adds(v, b, w) /\ (Sized(b) => Sized(v))
  <2> HIDE DEF v
  <2>1. CASE v.broken
    BY <2>1 DEF Adds, Sized
  <2>2. CASE ~v.broken
    BY <1>4, <1>5, <1>7, <1>8, <2>2
  <2> QED
    BY <2>1, <2>2
<1> QED
  BY <1>9

-----------------------------------------------------------------------------
(* What an answer writes.                                                  *)

(* Buffer b can follow the one of the result.                              *)
Follows(b) == IsBuffer(b) /\ (Sized(output_buffer) => Sized(b))

(* The result goes on with buffer b.                                       *)
GoesOn(b) == output_buffer' = b /\ UNCHANGED <<remaining, open, lost, sent>>

LEMMA DiagnosticAdds ==
    ASSUME Inside, NEW k \in Nat, NEW w \in Tokens, NEW size \in Nat,
           NEW b \in WithDiagnostic(k, w, size)
    PROVE  /\ Follows(b)
           /\ \E mid : /\ Adds(mid, output_buffer, Token("diagnostic", k, 0))
                       /\ Adds(b, mid, w)
<1>1. PICK d \in Size, m1 \in BOOLEAN, m2 \in BOOLEAN :
        b = Written(Written(output_buffer, Token("diagnostic", k, 0), d, m1), w, size, m2)
  BY DEF WithDiagnostic
<1>2. d \in Nat /\ Token("diagnostic", k, 0) \in Tokens
  BY TokenInTokens, AnswersAssumption DEF TokenKind
<1> DEFINE mid == Written(output_buffer, Token("diagnostic", k, 0), d, m1)
<1>3. /\ IsBuffer(mid)
      /\ Adds(mid, output_buffer, Token("diagnostic", k, 0))
      /\ Sized(output_buffer) => Sized(mid)
  BY <1>2, WrittenIsBuffer, WrittenAdds DEF Inside
<1>4. b = Written(mid, w, size, m2)
  BY <1>1
<1> HIDE DEF mid
<1>5. IsBuffer(b) /\ Adds(b, mid, w) /\ (Sized(mid) => Sized(b))
  BY <1>3, <1>4, WrittenIsBuffer, WrittenAdds
<1> QED
  BY <1>3, <1>5 DEF Follows

LEMMA AnswerWrites ==
    ASSUME IInv, NEW k \in Item, Answer(k)
    PROVE  \E b : /\ Follows(b) /\ ReleaseResult(b)
                  /\ \E mid : /\ Adds(mid, output_buffer, Token("diagnostic", k, 0))
                              /\ Adds(b, mid, Token("value", k, 0))
<1>1. PICK size \in Size :
        \E b \in WithDiagnostic(k, Token("value", k, 0), size) : ReleaseResult(b)
  BY DEF Answer
<1>2. PICK b \in WithDiagnostic(k, Token("value", k, 0), size) : ReleaseResult(b)
  BY <1>1
<1>3. k \in Nat /\ Inside
  BY DEF IInv, Recorded, Item
<1>4. size \in Nat /\ Token("value", k, 0) \in Tokens
  BY <1>3, TokenInTokens, AnswersAssumption DEF TokenKind
<1> QED
  BY <1>2, <1>3, <1>4, DiagnosticAdds

(* The head of an array with its diagnostic.                               *)
WritesArray(k, count, b) ==
    /\ answer' = [answer EXCEPT ![k] = [kind |-> "array", count |-> count, given |-> 0]]
    /\ Follows(b)
    /\ \/ count > 0 /\ remaining_subresults' = count /\ GoesOn(b)
       \/ count = 0 /\ UNCHANGED remaining_subresults /\ ReleaseResult(b)
    /\ \E mid : /\ Adds(mid, output_buffer, Token("diagnostic", k, 0))
                /\ Adds(b, mid, Token("array", k, count))

LEMMA ArrayWrites ==
    ASSUME IInv, NEW k \in Item, AnswerArray(k)
    PROVE  \E count \in 0..MaxElements : \E b : WritesArray(k, count, b)
<1>1. PICK count \in 0..MaxElements :
        /\ answer' = [answer EXCEPT ![k] = [kind |-> "array", count |-> count, given |-> 0]]
        /\ \E b \in WithDiagnostic(k, Token("array", k, count), 1) : RequestSubresult(b, count)
  BY DEF AnswerArray
<1>2. PICK b \in WithDiagnostic(k, Token("array", k, count), 1) : RequestSubresult(b, count)
  BY <1>1
<1>3. k \in Nat /\ Inside
  BY DEF IInv, Recorded, Item
<1>4. Token("array", k, count) \in Tokens
  BY <1>3, TokenInTokens, AnswersAssumption DEF TokenKind
<1>5. /\ Follows(b)
      /\ \E mid : /\ Adds(mid, output_buffer, Token("diagnostic", k, 0))
                  /\ Adds(b, mid, Token("array", k, count))
  BY <1>3, <1>4, DiagnosticAdds
<1>6. \/ count > 0 /\ remaining_subresults' = count /\ GoesOn(b)
      \/ count = 0 /\ UNCHANGED remaining_subresults /\ ReleaseResult(b)
  BY <1>2 DEF RequestSubresult, GoesOn
<1>7. WritesArray(k, count, b)
  BY <1>1, <1>5, <1>6 DEF WritesArray
<1> QED
  BY <1>7

LEMMA ElementWrites ==
    ASSUME IInv, NEW k \in Item, AnswerElement(k)
    PROVE  \E b : /\ Follows(b)
                  /\ \/ LastElement /\ ReleaseResult(b)
                     \/ ~LastElement /\ GoesOn(b)
                  /\ Adds(b, output_buffer, Token("element", k, answer[k].given + 1))
<1> DEFINE w == Token("element", k, answer[k].given + 1)
<1>1. PICK size \in Size, memory \in BOOLEAN :
        LET b == Written(output_buffer, w, size, memory)
        IN  \/ LastElement /\ ReleaseResult(b)
            \/ ~LastElement /\ GoesOn(b)
  BY DEF AnswerElement, GoesOn
<1>2. size \in Nat /\ w \in Tokens
  <2>1. answer[k] \in Record /\ k \in Nat
    BY DEF IInv, Recorded, Item
  <2>2. answer[k].given + 1 \in Nat
    BY <2>1 DEF Record
  <2> QED
    BY <2>1, <2>2, TokenInTokens, AnswersAssumption DEF TokenKind
<1> HIDE DEF w
<1> DEFINE b == Written(output_buffer, w, size, memory)
<1>3. Follows(b) /\ Adds(b, output_buffer, w)
  BY <1>2, WrittenIsBuffer, WrittenAdds DEF IInv, Inside, Follows
<1>4. \/ LastElement /\ ReleaseResult(b)
      \/ ~LastElement /\ GoesOn(b)
  BY <1>1
<1> HIDE DEF b
<1> QED
  BY <1>3, <1>4 DEF w

-----------------------------------------------------------------------------
(* What is copied into a message.                                          *)

Fits ==
    /\ Sized(output_buffer)
    /\ sent.copied = IF sent.broken THEN 0 ELSE sent.length

LEMMA EmptyIsSized ==
    Sized(EmptyBuffer) /\ Content(EmptyBuffer) = <<>> /\ ~EmptyBuffer.broken
<1> DEFINE c == EmptyBuffer.chunks
<1>1. IsBuffer(EmptyBuffer) /\ Len(c) = 1 /\ c[1].used_size = 0 /\ c[1].data = <<>>
  BY EmptyIsBuffer DEF EmptyBuffer
<1>2. c \in Seq(Chunk) /\ ~EmptyBuffer.broken /\ EmptyBuffer.used_size = 0
  BY <1>1 DEF IsBuffer, EmptyBuffer
<1>3. Contents(c)[1] = <<>> \o <<>> /\ Sums(c)[1] = 0
  <2> HIDE DEF c
  <2>1. 0 \in 0..Len(c) /\ 1 \in 0..Len(c)
    BY <1>1
  <2>2. Contents(c)[0] = <<>> /\ Sums(c)[0] = 0
    BY <1>2, <2>1, ContentsDef, SumsDef
  <2>3. Contents(c)[1] = Contents(c)[0] \o c[1].data
    <3>1. \A i \in 0..Len(c) : i # 0 => Contents(c)[i] = Contents(c)[i - 1] \o c[i].data
      BY <1>2, ContentsDef
    <3>2. 1 # 0 /\ 1 - 1 = 0
      OBVIOUS
    <3> QED
      BY <2>1, <3>1, <3>2
  <2>4. Sums(c)[1] = Sums(c)[0] + c[1].used_size
    BY <1>2, <2>1, SumsDef
  <2> QED
    BY <1>1, <2>2, <2>3, <2>4
<1>4. <<>> \o <<>> = <<>>
  OBVIOUS
<1>5. Content(EmptyBuffer) = Contents(c)[1] /\ BytesCopied(EmptyBuffer) = Sums(c)[1]
  BY <1>1, <1>2, WholeContent
<1> QED
  BY <1>2, <1>3, <1>4, <1>5 DEF Sized

LEMMA ReleaseFits ==
    ASSUME Fits, NEW b, Follows(b), ReleaseResult(b)
    PROVE  Fits'
<1>1. CASE Remains(b)
  BY <1>1 DEF Remains, Fits, Follows, Sized
<1>2. CASE Sends(b)
  <2>1. output_buffer' = EmptyBuffer
    BY <1>2 DEF Sends
  <2>2. sent'.copied = BytesCopied(b) /\ sent'.broken = b.broken /\ sent'.length = b.used_size
    BY <1>2 DEF Sends
  <2>3. b.broken => BytesCopied(b) = 0
    BY DEF BytesCopied
  <2>4. Sized(b)
    BY DEF Fits, Follows
  <2> QED
    BY <2>1, <2>2, <2>3, <2>4, EmptyIsSized DEF Fits, Sized
<1>3. CASE Drops(b)
  BY <1>3, EmptyIsSized DEF Drops, Fits, Sized
<1> QED
  BY <1>1, <1>2, <1>3 DEF ReleaseResult

LEMMA GoingOnFits ==
    ASSUME Fits, NEW b, Follows(b), GoesOn(b)
    PROVE  Fits'
BY DEF GoesOn, Fits, Follows, Sized

LEMMA FitsStep == IInv /\ Fits /\ [Next]_vars => Fits'
<1> SUFFICES ASSUME IInv, Fits, [Next]_vars PROVE Fits'
  OBVIOUS
<1>1. CASE Request
  BY <1>1, EmptyIsSized DEF Request, Fits, Sized, NoMessage
<1>2. CASE SessionEnd
  BY <1>2 DEF SessionEnd, Fits, Sized
<1>3. ASSUME NEW k \in Item, Answer(k) PROVE Fits'
  BY <1>3, AnswerWrites, ReleaseFits
<1>4. ASSUME NEW k \in Item, AnswerArray(k) PROVE Fits'
  <2>1. PICK b : Follows(b) /\ (GoesOn(b) \/ ReleaseResult(b))
    BY <1>4, ArrayWrites DEF WritesArray
  <2> QED
    BY <2>1, ReleaseFits, GoingOnFits
<1>5. ASSUME NEW k \in Item, AnswerElement(k) PROVE Fits'
  <2>1. PICK b : Follows(b) /\ (GoesOn(b) \/ ReleaseResult(b))
    BY <1>5, ElementWrites
  <2> QED
    BY <2>1, ReleaseFits, GoingOnFits
<1>6. CASE UNCHANGED vars
  BY <1>6 DEF vars, Fits, Sized
<1> QED
  BY <1>1, <1>2, <1>3, <1>4, <1>5, <1>6 DEF Next, AnswerItem

-----------------------------------------------------------------------------
(* Types.                                                                  *)

(* The flags and counters of a result.                                     *)
Counters ==
    /\ sequential \in BOOLEAN /\ session \in BOOLEAN /\ open \in BOOLEAN
    /\ request_payload_count \in 0..MaxPayload
    /\ remaining \in 0..MaxPayload
    /\ remaining_subresults \in 0..MaxUint
    /\ lost \in Nat
    /\ messages \in 0..MaxMessages

(* No more is given than was announced.                                    *)
Announced ==
    \A k \in Item : /\ answer[k].kind = "array" \/ answer[k].count = 0
                    /\ answer[k].count \in 0..MaxElements
                    /\ answer[k].given \in 0..answer[k].count

LEMMA TypesAre == IInv /\ Counters /\ Announced => TypeOK
<1> SUFFICES ASSUME IInv, Counters, Announced PROVE TypeOK
  OBVIOUS
<1>1. heap \in Nat
  <2>1. Chained(output_buffer) \in Nat
    BY DEF IInv, Inside, IsBuffer, Chained
  <2> QED
    BY <2>1 DEF IInv, Accounted, Counters
<1>2. DOMAIN answer = Item /\ \A k \in Item : answer[k].kind \in {"none", "one", "array"}
  BY DEF IInv, Recorded, Record
<1>3. {sequential, session, open} \subseteq BOOLEAN
  BY DEF Counters
<1> QED
  BY <1>1, <1>2, <1>3 DEF TypeOK, Counters, Announced

(* What a result that lost an answer counts.                               *)
LEMMA ReleaseCounts ==
    ASSUME Counters, open, NEW b, IsBuffer(b), ReleaseResult(b)
    PROVE  /\ open' \in BOOLEAN /\ lost' \in Nat
           /\ remaining \in 1..MaxPayload /\ remaining' = remaining - 1
           /\ remaining' \in 0..MaxPayload
           /\ (open' /\ remaining' >= 1) \/ (~open' /\ remaining' = 0)
<1>1. Chained(b) \in Nat
  BY DEF IsBuffer, Chained
<1>2. remaining' = remaining - 1 /\ remaining \in 0..MaxPayload /\ MaxPayload \in Nat
      /\ lost \in Nat
  BY AnswersAssumption DEF ReleaseResult, Counters
<1>3. CASE Remains(b)
  <2>1. open' /\ remaining > 1 /\ lost' = lost
    BY <1>3 DEF Remains
  <2> QED
    BY <1>2, <2>1
<1>4. CASE Sends(b)
  <2>1. open' = FALSE /\ remaining = 1 /\ lost' = lost
    BY <1>4 DEF Sends
  <2>2. open' \in BOOLEAN /\ ~open'
    BY <2>1
  <2>3. /\ lost' \in Nat /\ remaining \in 1..MaxPayload
        /\ remaining' = 0 /\ remaining' \in 0..MaxPayload
    BY <1>2, <2>1
  <2> QED
    BY <1>2, <2>2, <2>3
<1>5. CASE Drops(b)
  <2>1. open' = FALSE /\ remaining = 1 /\ lost' = lost + Chained(b)
    BY <1>5 DEF Drops
  <2>2. open' \in BOOLEAN /\ ~open'
    BY <2>1
  <2>3. /\ lost' \in Nat /\ remaining \in 1..MaxPayload
        /\ remaining' = 0 /\ remaining' \in 0..MaxPayload
    BY <1>1, <1>2, <2>1
  <2> QED
    BY <1>2, <2>2, <2>3
<1> QED
  BY <1>3, <1>4, <1>5 DEF ReleaseResult

LEMMA CountersStep == IInv /\ Counters /\ [Next]_vars => Counters'
<1> SUFFICES ASSUME IInv, Counters, [Next]_vars PROVE Counters'
  OBVIOUS
<1>0. open' \in BOOLEAN /\ lost' \in Nat /\ remaining' \in 0..MaxPayload
  <2>1. CASE Request \/ SessionEnd \/ UNCHANGED vars
    BY <2>1, AnswersAssumption DEF Request, SessionEnd, vars, counters, Counters
  <2>2. ASSUME open, NEW b, Follows(b), GoesOn(b) \/ ReleaseResult(b)
        PROVE  open' \in BOOLEAN /\ lost' \in Nat /\ remaining' \in 0..MaxPayload
    BY <2>2, ReleaseCounts DEF GoesOn, Counters, Follows
  <2>3. ASSUME NEW k \in Item, Answer(k) \/ AnswerArray(k) \/ AnswerElement(k)
        PROVE  open /\ \E b : Follows(b) /\ (GoesOn(b) \/ ReleaseResult(b))
    <3>1. open
      BY <2>3 DEF Answer, AnswerArray, AnswerElement
    <3>2. CASE Answer(k)
      BY <3>1, <3>2, AnswerWrites
    <3>3. CASE AnswerArray(k)
      BY <3>1, <3>3, ArrayWrites DEF WritesArray
    <3>4. CASE AnswerElement(k)
      BY <3>1, <3>4, ElementWrites
    <3> QED
      BY <2>3, <3>2, <3>3, <3>4
  <2> QED
    BY <2>1, <2>2, <2>3 DEF Next, AnswerItem
<1>1. CASE Request
  BY <1>0, <1>1, AnswersAssumption DEF Request, Counters
<1>2. CASE SessionEnd
  BY <1>0, <1>2 DEF SessionEnd, counters, Counters
<1>3. ASSUME NEW k \in Item, Answer(k) PROVE Counters'
  BY <1>0, <1>3 DEF Answer, Counters
<1>4. ASSUME NEW k \in Item, AnswerArray(k) PROVE Counters'
  <2>1. remaining_subresults' \in 0..MaxUint
    <3>1. PICK count \in 0..MaxElements : \E b : WritesArray(k, count, b)
      BY <1>4, ArrayWrites
    <3>2. remaining_subresults' = count \/ remaining_subresults' = remaining_subresults
      BY <3>1 DEF WritesArray
    <3> QED
      BY <3>2, AnswersAssumption DEF Counters
  <2> QED
    BY <1>0, <1>4, <2>1 DEF AnswerArray, Counters
<1>5. ASSUME NEW k \in Item, AnswerElement(k) PROVE Counters'
  <2>1. remaining_subresults' \in 0..MaxUint
    BY <1>5, AnswersAssumption DEF AnswerElement, Less, Counters
  <2> QED
    BY <1>0, <1>5, <2>1 DEF AnswerElement, Counters
<1>6. CASE UNCHANGED vars
  BY <1>6 DEF vars, counters, Counters
<1> QED
  BY <1>1, <1>2, <1>3, <1>4, <1>5, <1>6 DEF Next, AnswerItem

LEMMA AnnouncedStep == IInv /\ Announced /\ [Next]_vars => Announced'
<1> SUFFICES ASSUME IInv, Announced, [Next]_vars PROVE Announced'
  OBVIOUS
<1>0. answer \in [Item -> Record]
  BY DEF IInv, Recorded
<1> DEFINE Ok(r) == /\ r.kind = "array" \/ r.count = 0
                   /\ r.count \in 0..MaxElements
                   /\ r.given \in 0..r.count
<1>1. ASSUME NEW k \in Item, NEW r, Ok(r), answer' = [answer EXCEPT ![k] = r],
             UNCHANGED request_payload_count
      PROVE  Announced'
  BY <1>0, <1>1 DEF Announced, Item
<1>2. CASE Request
  BY <1>2, AnswersAssumption DEF Request, Announced, NoAnswer, Item
<1>3. CASE SessionEnd \/ UNCHANGED vars
  BY <1>3 DEF SessionEnd, vars, counters, Announced, Item
<1>4. ASSUME NEW k \in Item, Answer(k) PROVE Announced'
  <2>1. answer[k] \in Record /\ answer[k].kind = "none" /\ Ok(answer[k])
    BY <1>0, <1>4 DEF Answer, Announced
  <2>2. Ok([answer[k] EXCEPT !.kind = "one"])
    BY <2>1 DEF Record
  <2> QED
    BY <1>1, <1>4, <2>2 DEF Answer
<1>5. ASSUME NEW k \in Item, AnswerArray(k) PROVE Announced'
  <2>1. PICK count \in 0..MaxElements :
          answer' = [answer EXCEPT ![k] = [kind |-> "array", count |-> count, given |-> 0]]
    BY <1>5, ArrayWrites DEF WritesArray
  <2>2. Ok([kind |-> "array", count |-> count, given |-> 0])
    BY AnswersAssumption
  <2> QED
    BY <1>1, <1>5, <2>1, <2>2 DEF AnswerArray
<1>6. ASSUME NEW k \in Item, AnswerElement(k) PROVE Announced'
  <2>1. answer[k] \in Record /\ answer[k].given < answer[k].count /\ Ok(answer[k])
    BY <1>0, <1>6 DEF AnswerElement, Announced
  <2>2. Ok([answer[k] EXCEPT !.given = @ + 1])
    BY <2>1 DEF Record
  <2> QED
    BY <1>1, <1>6, <2>2 DEF AnswerElement
<1> QED
  BY <1>2, <1>3, <1>4, <1>5, <1>6 DEF Next, AnswerItem

(* The buffer is what its counters say: no write goes beyond its chunk,    *)
(* and a message holds exactly the bytes that were written.                *)
THEOREM BufferSoundCorrect == Spec => []BufferSound
<1>1. ASSUME Init PROVE Counters /\ Announced /\ Fits
  <2>1. Counters
    <3>1. session \in BOOLEAN /\ open \in BOOLEAN /\ sequential \in BOOLEAN
      BY <1>1 DEF Init
    <3>2. /\ request_payload_count = 0 /\ remaining = 0 /\ remaining_subresults = 0
          /\ lost = 0 /\ messages = 0
      BY <1>1 DEF Init
    <3> QED
      BY <3>1, <3>2, AnswersAssumption DEF Counters
  <2>2. Announced
    BY <1>1 DEF Init, Announced, Item
  <2>3. Fits
    BY <1>1, EmptyIsSized DEF Init, Fits, NoMessage
  <2> QED
    BY <2>1, <2>2, <2>3
<1>2. IInv /\ Counters /\ Announced /\ Fits /\ [Next]_vars => (Counters /\ Announced /\ Fits)'
  BY CountersStep, AnnouncedStep, FitsStep
<1>3. IInv /\ Counters /\ Announced /\ Fits => BufferSound
  <2> SUFFICES ASSUME IInv, Counters, Announced, Fits PROVE ChunksFit
    BY TypesAre DEF BufferSound
  <2> DEFINE c == output_buffer.chunks
  <2>1. \A i \in 1..Len(c) : c[i].used_size <= c[i].allocated_size
    BY DEF IInv, Inside, IsBuffer
  <2>2. DOMAIN c = 1..Len(c)
    BY DEF IInv, Inside, IsBuffer
  <2>3. \A e \in Range(c) : e.used_size <= e.allocated_size
    <3> HIDE DEF c
    <3> QED
      BY <2>1, <2>2 DEF Range
  <2> QED
    BY <2>3 DEF ChunksFit, Fits, Sized
<1> QED
  BY <1>1, <1>2, <1>3, InvCorrect, PTL DEF Spec

-----------------------------------------------------------------------------
(* What is still to be answered.                                           *)

(* Items that are not answered, that are not answered at all, and elements *)
(* that were announced and not given.                                      *)
Incomplete == {k \in Item : ~Complete(k)}

Untouched == {k \in Item : answer[k].kind = "none"}

Left ==
    {p \in Item \X (1..MaxElements) :
        answer[p[1]].given < p[2] /\ p[2] <= answer[p[1]].count}

(* Every item that was begun is complete, but perhaps item k, an array     *)
(* whose missing elements are what remaining_subresults counts.            *)
CompleteBut(k) ==
    /\ \A j \in Item : answer[j].kind # "none" /\ j # k => Complete(j)
    /\ k \in Item /\ answer[k].kind # "none" /\ ~Complete(k) =>
         remaining_subresults = answer[k].count - answer[k].given

(* remaining counts the items that are not answered.                       *)
Exact ==
    /\ remaining = Cardinality(Incomplete)
    /\ \E k \in Nat : CompleteBut(k)

(* How many elements it takes until the counter of elements is 0 again:    *)
(* from 0 it goes on at its end.                                           *)
Until == IF remaining_subresults = 0 THEN MaxUint + 1 ELSE remaining_subresults

(* How often it still has to be 0 before the result is freed, if the items *)
(* that were not begun are counted apart.                                  *)
Zeros == remaining - Cardinality(Untouched)

(* There are never more elements to give than it takes to get there, since *)
(* no array has more elements than the counter has values.                 *)
Enough ==
    /\ Zeros \in Nat
    /\ Zeros = 0 => Left = {}
    /\ Zeros > 0 => Cardinality(Left) <= Until + (Zeros - 1) * (MaxUint + 1)

(* All these sets are finite.                                              *)
LEMMA SetsAreFinite ==
    ASSUME Counters
    PROVE  /\ IsFiniteSet(Item) /\ Cardinality(Item) = request_payload_count
           /\ IsFiniteSet(Incomplete) /\ IsFiniteSet(Untouched)
           /\ Cardinality(Incomplete) \in Nat /\ Cardinality(Untouched) \in Nat
           /\ IsFiniteSet(Left) /\ Cardinality(Left) \in Nat
<1>1. request_payload_count \in Nat /\ request_payload_count <= MaxPayload
      /\ MaxPayload \in Nat /\ MaxElements \in Nat
  BY AnswersAssumption DEF Counters
<1>2. IsFiniteSet(Item) /\ Cardinality(Item) = request_payload_count
  BY <1>1, FS_Interval DEF Item
<1>3. IsFiniteSet(Incomplete) /\ IsFiniteSet(Untouched)
  BY <1>2, FS_Subset DEF Incomplete, Untouched
<1>4. IsFiniteSet(1..MaxElements)
  BY <1>1, FS_Interval
<1>5. IsFiniteSet(Item \X (1..MaxElements))
  BY <1>2, <1>4, FS_Product
<1>6. Left \in SUBSET (Item \X (1..MaxElements))
  BY DEF Left
<1>7. IsFiniteSet(Left)
  BY <1>5, <1>6, FS_Subset
<1> QED
  BY <1>2, <1>3, <1>7, FS_CardinalityType

(* What changes when item k is begun, completed or goes on.                *)
LEMMA ItemChanged ==
    ASSUME IInv, NEW k \in Item, NEW r \in Record, r.kind # "none",
           answer' = [answer EXCEPT ![k] = r], UNCHANGED request_payload_count
    PROVE  /\ Item' = Item
           /\ \A j \in Item : answer'[j] = IF j = k THEN r ELSE answer[j]
           /\ \A j \in Item : Complete(j)' <=> IF j = k THEN r.given = r.count ELSE Complete(j)
           /\ Untouched' = Untouched \ {k}
           /\ Incomplete' = IF r.given = r.count THEN Incomplete \ {k}
                                                 ELSE Incomplete \cup {k}
<1>1. Item' = Item
  BY DEF Item
<1>2. \A j \in Item : answer'[j] = IF j = k THEN r ELSE answer[j]
  BY DEF IInv, Recorded
<1>3. \A j \in Item : Complete(j)' <=> IF j = k THEN r.given = r.count ELSE Complete(j)
  BY <1>2 DEF Complete
<1>4. Untouched' = Untouched \ {k}
  BY <1>1, <1>2 DEF Untouched
<1>5. Incomplete' = IF r.given = r.count THEN Incomplete \ {k} ELSE Incomplete \cup {k}
  BY <1>1, <1>3 DEF Incomplete
<1> QED
  BY <1>1, <1>2, <1>3, <1>4, <1>5

(* The counters when an item is completed.                                 *)
Closes(k, r) ==
    /\ r.given = r.count
    /\ open /\ remaining' = remaining - 1
    /\ (open' /\ remaining' >= 1) \/ (~open' /\ remaining' = 0)

(* An item is completed, and nothing is said of the others.                *)
LEMMA ExactCloses ==
    ASSUME IInv, Counters, Exact,
           NEW k \in Item, ~Complete(k), NEW r \in Record, r.kind # "none",
           answer' = [answer EXCEPT ![k] = r], UNCHANGED request_payload_count,
           Closes(k, r),
           \/ answer[k].kind = "none" /\ UNCHANGED remaining_subresults
           \/ CompleteBut(k)
    PROVE  Exact' /\ (~open' => \A j \in Item' : Complete(j)')
<1>1. /\ Item' = Item
      /\ \A j \in Item : answer'[j] = IF j = k THEN r ELSE answer[j]
      /\ \A j \in Item : Complete(j)' <=> IF j = k THEN TRUE ELSE Complete(j)
      /\ Incomplete' = Incomplete \ {k}
  BY ItemChanged DEF Closes
<1>2. k \in Incomplete
  BY DEF Incomplete
<1>3. Cardinality(Incomplete') = Cardinality(Incomplete) - 1 /\ IsFiniteSet(Incomplete')
  BY <1>1, <1>2, SetsAreFinite, FS_RemoveElement
<1>4. remaining' = Cardinality(Incomplete')
  BY <1>3 DEF Exact, Closes
<1>5. \E i \in Nat : CompleteBut(i)'
  <2>1. CASE answer[k].kind = "none" /\ UNCHANGED remaining_subresults
    <3>1. PICK i \in Nat : CompleteBut(i)
      BY DEF Exact
    <3> QED
      BY <1>1, <2>1, <3>1 DEF CompleteBut
  <2>2. CASE CompleteBut(k)
    <3>1. k \in Nat
      BY DEF IInv, Recorded, Item
    <3> QED
      BY <1>1, <2>2, <3>1 DEF CompleteBut
  <2> QED
    BY <2>1, <2>2
<1>6. ASSUME ~open' PROVE \A j \in Item' : Complete(j)'
  <2>1. Cardinality(Incomplete') = 0
    BY <1>4, <1>6 DEF Closes
  <2>2. Incomplete' = {}
    BY <1>3, <2>1, FS_EmptySet
  <2> QED
    BY <2>2 DEF Incomplete
<1> QED
  BY <1>4, <1>5, <1>6 DEF Exact

(* An array is begun.                                                      *)
LEMMA ExactBegins ==
    ASSUME IInv, Exact,
           NEW k \in Item, answer[k].kind = "none", NEW r \in Record, r.kind # "none",
           r.given # r.count, remaining_subresults' = r.count - r.given,
           answer' = [answer EXCEPT ![k] = r], UNCHANGED <<request_payload_count, remaining>>,
           \A j \in Item : answer[j].kind # "none" => Complete(j)
    PROVE  Exact'
<1>1. /\ Item' = Item
      /\ \A j \in Item : answer'[j] = IF j = k THEN r ELSE answer[j]
      /\ \A j \in Item : Complete(j)' <=> IF j = k THEN FALSE ELSE Complete(j)
      /\ Incomplete' = Incomplete \cup {k}
  <2>1. /\ Item' = Item
        /\ \A j \in Item : answer'[j] = IF j = k THEN r ELSE answer[j]
    BY ItemChanged
  <2>2. \A j \in Item : Complete(j)' <=> IF j = k THEN r.given = r.count ELSE Complete(j)
    BY ItemChanged
  <2>3. Incomplete' = IF r.given = r.count THEN Incomplete \ {k} ELSE Incomplete \cup {k}
    BY ItemChanged
  <2> QED
    BY <2>1, <2>2, <2>3
<1>2. k \in Incomplete
  BY DEF Incomplete, Complete
<1>3. k \in Nat
  BY DEF IInv, Recorded, Item
<1>4. Incomplete' = Incomplete
  BY <1>1, <1>2
<1>5. CompleteBut(k)'
  BY <1>1 DEF CompleteBut
<1> QED
  BY <1>3, <1>4, <1>5 DEF Exact

(* An array goes on.                                                       *)
LEMMA ExactGoesOn ==
    ASSUME IInv, Counters, Exact,
           NEW k \in Item, answer[k].kind # "none", ~Complete(k),
           NEW r \in Record, r.kind # "none",
           r.given # r.count, remaining_subresults' = r.count - r.given,
           answer' = [answer EXCEPT ![k] = r], UNCHANGED <<request_payload_count, remaining>>
    PROVE  Exact'
<1>1. /\ Item' = Item
      /\ \A j \in Item : answer'[j] = IF j = k THEN r ELSE answer[j]
      /\ \A j \in Item : Complete(j)' <=> IF j = k THEN FALSE ELSE Complete(j)
      /\ Incomplete' = Incomplete \cup {k}
  BY ItemChanged
<1>2. Incomplete' = Incomplete
  BY <1>1 DEF Incomplete
<1>3. k \in Nat
  BY DEF IInv, Recorded, Item
<1>4. PICK i \in Nat : CompleteBut(i)
  BY DEF Exact
<1>5. CompleteBut(k)'
  BY <1>1, <1>4 DEF CompleteBut
<1> QED
  BY <1>2, <1>3, <1>5 DEF Exact

(* An item is answered at once.                                            *)
LEMMA EnoughCloses ==
    ASSUME IInv, Counters, Announced, Enough,
           NEW k \in Item, answer[k].kind = "none", NEW r \in Record, r.kind # "none",
           answer' = [answer EXCEPT ![k] = r], UNCHANGED request_payload_count,
           r.given = r.count, remaining' = remaining - 1, UNCHANGED remaining_subresults
    PROVE  Enough'
<1>1. /\ Item' = Item
      /\ \A j \in Item : answer'[j] = IF j = k THEN r ELSE answer[j]
  BY DEF Item, IInv, Recorded
<1>2. Untouched' = Untouched \ {k} /\ k \in Untouched
  BY <1>1 DEF Untouched
<1>3. Cardinality(Untouched') = Cardinality(Untouched) - 1
  BY <1>2, SetsAreFinite, FS_RemoveElement
<1>4. Zeros' = Zeros
  BY <1>3, SetsAreFinite DEF Zeros, Counters
<1>5. Left' = Left
  <2>1. /\ answer[k].count = 0 /\ answer[k].given = 0
        /\ r.given = r.count /\ r.count \in Nat
    BY DEF Announced, Record
  <2>2. ASSUME NEW j \in Item, NEW n \in 1..MaxElements
        PROVE  (answer'[j].given < n /\ n <= answer'[j].count)
                 <=> (answer[j].given < n /\ n <= answer[j].count)
    BY <1>1, <2>1
  <2> QED
    BY <1>1, <2>2 DEF Left
<1> QED
  BY <1>4, <1>5 DEF Enough, Until

(* The elements of an array that is begun, from which more elements are    *)
(* given.                                                                  *)
LEMMA LeftBegins ==
    ASSUME IInv, Counters, Announced,
           NEW k \in Item, answer[k].kind = "none", NEW r \in Record,
           r.given = 0, r.count <= MaxElements,
           answer' = [answer EXCEPT ![k] = r], UNCHANGED request_payload_count
    PROVE  Cardinality(Left') = Cardinality(Left) + r.count
<1> DEFINE new == {k} \X (1..r.count)
<1>1. /\ Item' = Item
      /\ \A j \in Item : answer'[j] = IF j = k THEN r ELSE answer[j]
  BY DEF Item, IInv, Recorded
<1>2. r.count \in Nat /\ MaxElements \in Nat
  BY AnswersAssumption DEF Record
<1>3. answer[k].count = 0 /\ answer[k].given = 0
  BY DEF Announced
<1>4. Left' = Left \cup new
  <2>1. ASSUME NEW j \in Item, NEW n \in 1..MaxElements
        PROVE  <<j, n>> \in Left' <=> <<j, n>> \in Left \cup new
    BY <1>1, <1>2, <1>3 DEF Left
  <2>2. ASSUME NEW q \in Item \X (1..MaxElements) PROVE q \in Left' <=> q \in Left \cup new
    <3>1. PICK j \in Item, n \in 1..MaxElements : q = <<j, n>>
      OBVIOUS
    <3> QED
      BY <2>1, <3>1
  <2>3. \A q \in Left' : q \in Item \X (1..MaxElements)
    BY <1>1 DEF Left
  <2>4. \A q \in Left : q \in Item \X (1..MaxElements)
    BY DEF Left
  <2>5. \A q \in new : q \in Item \X (1..MaxElements)
    BY <1>2
  <2> HIDE DEF new
  <2> QED
    BY <2>2, <2>3, <2>4, <2>5
<1>5. Left \cap new = {}
  <2>1. ASSUME NEW q \in Left PROVE q \notin new
    BY <1>2, <1>3 DEF Left
  <2> QED
    BY <2>1
<1>6. IsFiniteSet(new) /\ Cardinality(new) = r.count
  <2>3. IsFiniteSet({k}) /\ Cardinality({k}) = 1
    BY FS_Singleton
  <2>1. IsFiniteSet(1..r.count) /\ Cardinality(1..r.count) = r.count
    <3> DEFINE c == r.count
    <3>1. c \in Nat
      BY <1>2
    <3> HIDE DEF c
    <3>2. IsFiniteSet(1..c) /\ Cardinality(1..c) = c
      BY <3>1, FS_Interval
    <3> QED
      BY <3>2 DEF c
  <2>2. IsFiniteSet(new) /\ Cardinality(new) = Cardinality({k}) * Cardinality(1..r.count)
    BY <2>3, <2>1, FS_Product
  <2> QED
    BY <1>2, <2>1, <2>2, <2>3
<1> HIDE DEF new
<1>7. Cardinality(Left \cup new) = Cardinality(Left) + Cardinality(new) - Cardinality(Left \cap new)
  BY <1>6, SetsAreFinite, FS_Union
<1> QED
  <2>1. Cardinality(Left \cap new) = 0
    BY <1>5, FS_EmptySet
  <2>2. Cardinality(Left') = Cardinality(Left \cup new)
    BY <1>4
  <2> QED
    BY <1>2, <1>6, <1>7, <2>1, <2>2, SetsAreFinite

LEMMA LeftGives ==
    ASSUME IInv, Counters, Announced,
           NEW k \in Item, answer[k].given < answer[k].count,
           answer' = [answer EXCEPT ![k].given = @ + 1], UNCHANGED request_payload_count
    PROVE  /\ Untouched' = Untouched
           /\ Cardinality(Left') = Cardinality(Left) - 1
           /\ Left # {}
<1> DEFINE r == [answer[k] EXCEPT !.given = @ + 1]
           p == <<k, answer[k].given + 1>>
<1>0. /\ answer[k] \in Record /\ r \in Record /\ answer[k].kind # "none" /\ r.kind # "none"
      /\ r.given = answer[k].given + 1 /\ r.count = answer[k].count
      /\ answer[k].given + 1 \in 1..MaxElements
      /\ answer' = [answer EXCEPT ![k] = r]
  <2>1. answer[k] \in Record
    BY DEF IInv, Recorded
  <2>2. answer[k].kind # "none" /\ answer[k].given + 1 \in 1..MaxElements
    BY <2>1, AnswersAssumption DEF Announced, Record
  <2> QED
    BY <2>1, <2>2 DEF Record
<1>1. /\ Item' = Item
      /\ \A j \in Item : answer'[j] = IF j = k THEN r ELSE answer[j]
  <2> HIDE DEF r
  <2> QED
    BY <1>0 DEF Item, IInv, Recorded
<1>2. Untouched' = Untouched
  BY <1>0, <1>1 DEF Untouched
<1>3. p \in Left
  BY <1>0 DEF Left, Record
<1>4. Left' = Left \ {p}
  <2>1. \A j \in Item, n \in 1..MaxElements :
          (answer'[j].given < n /\ n <= answer'[j].count)
            <=> (answer[j].given < n /\ n <= answer[j].count /\ <<j, n>> # p)
    BY <1>0, <1>1 DEF Record
  <2> HIDE DEF p
  <2>2. ASSUME NEW q \in Item \X (1..MaxElements)
        PROVE  q \in Left' <=> q \in Left \ {p}
    <3>1. PICK j \in Item, n \in 1..MaxElements : q = <<j, n>>
      OBVIOUS
    <3>2. q \in Left' <=> (answer'[j].given < n /\ n <= answer'[j].count)
      BY <1>1, <3>1 DEF Left
    <3>3. q \in Left <=> (answer[j].given < n /\ n <= answer[j].count)
      BY <3>1 DEF Left
    <3> QED
      BY <2>1, <3>1, <3>2, <3>3
  <2>3. \A q \in Left' : q \in Item \X (1..MaxElements)
    BY <1>1 DEF Left
  <2>4. \A q \in Left : q \in Item \X (1..MaxElements)
    BY DEF Left
  <2> QED
    BY <2>2, <2>3, <2>4
<1>5. Cardinality(Left') = Cardinality(Left) - 1
  <2> HIDE DEF p
  <2> QED
    BY <1>3, <1>4, SetsAreFinite, FS_RemoveElement
<1> QED
  BY <1>2, <1>3, <1>5

(* An array is begun: the counter of elements begins again.                *)
LEMMA EnoughBegins ==
    ASSUME IInv, Counters, Announced, Enough,
           NEW k \in Item, answer[k].kind = "none", NEW r \in Record, r.kind # "none",
           r.given = 0, r.count > 0, r.count <= MaxElements,
           answer' = [answer EXCEPT ![k] = r],
           remaining_subresults' = r.count, UNCHANGED <<request_payload_count, remaining>>
    PROVE  Enough'
<1>1. Untouched' = Untouched \ {k} /\ k \in Untouched
  BY DEF Untouched, Item, IInv, Recorded
<1>2. Cardinality(Untouched') = Cardinality(Untouched) - 1
  BY <1>1, SetsAreFinite, FS_RemoveElement
<1>3. Zeros' = Zeros + 1 /\ Zeros \in Nat
  BY <1>2, SetsAreFinite DEF Zeros, Counters, Enough
<1>4. Cardinality(Left') = Cardinality(Left) + r.count
  BY LeftBegins
<1>5. Until' = r.count /\ r.count \in Nat
  BY DEF Until, Record
<1>6. Until \in Nat /\ Until <= MaxUint + 1 /\ MaxUint \in Nat
  BY AnswersAssumption DEF Until, Counters
<1>7. Cardinality(Left) <= Zeros * (MaxUint + 1)
  <2>1. CASE Zeros = 0
    <3>1. Cardinality(Left) = 0
      BY <2>1, FS_EmptySet DEF Enough
    <3> QED
      BY <1>6, <2>1, <3>1
  <2>2. CASE Zeros > 0
    <3>1. Cardinality(Left) <= Until + (Zeros - 1) * (MaxUint + 1)
      BY <2>2 DEF Enough
    <3>2. (Zeros - 1) * (MaxUint + 1) = Zeros * (MaxUint + 1) - (MaxUint + 1)
          /\ Zeros * (MaxUint + 1) \in Nat
      BY <1>3, <1>6
    <3> HIDE DEF Until, Zeros
    <3> QED
      BY <1>3, <1>6, <3>1, <3>2, SetsAreFinite
  <2> QED
    BY <1>3, <2>1, <2>2
<1>8. (Zeros' - 1) * (MaxUint + 1) = Zeros * (MaxUint + 1) /\ Zeros * (MaxUint + 1) \in Nat
  BY <1>3, <1>6
<1>9. Cardinality(Left') <= Until' + (Zeros' - 1) * (MaxUint + 1)
  BY <1>4, <1>5, <1>7, <1>8, SetsAreFinite
<1> QED
  BY <1>3, <1>9 DEF Enough

(* An element is given, and perhaps taken for the last one.                *)
LEMMA EnoughGives ==
    ASSUME IInv, Counters, Announced, Enough,
           NEW k \in Item, answer[k].given < answer[k].count,
           answer' = [answer EXCEPT ![k].given = @ + 1], UNCHANGED request_payload_count,
           remaining_subresults' = Less(remaining_subresults),
           \/ remaining_subresults' = 0 /\ remaining' = remaining - 1
           \/ remaining_subresults' # 0 /\ UNCHANGED remaining
    PROVE  Enough'
<1> DEFINE M == MaxUint + 1
           left == Cardinality(Left)
           z == Zeros
           u == Until
<1>1. /\ Untouched' = Untouched /\ Left # {}
      /\ Cardinality(Left') = left - 1
      /\ left \in Nat /\ IsFiniteSet(Left)
  BY LeftGives, SetsAreFinite
<1>2. left # 0
  BY <1>1, FS_EmptySet
<1>3. z \in Nat /\ z > 0 /\ left <= u + (z - 1) * M
  BY <1>1 DEF Enough
<1>4. /\ u \in 1..M /\ M \in Nat /\ Until' \in 1..M
      /\ remaining_subresults' = 0 => u = 1 /\ Until' = M
      /\ remaining_subresults' # 0 => Until' = u - 1
  BY AnswersAssumption DEF Until, Counters, Less
<1>5. CASE remaining_subresults' # 0 /\ UNCHANGED remaining
  <2>1. Zeros' = z /\ Until' = u - 1
    BY <1>1, <1>4, <1>5 DEF Zeros
  <2>2. (z - 1) * M \in Nat
    BY <1>3, <1>4
  <2>3. Cardinality(Left') <= Until' + (Zeros' - 1) * M
    <3> HIDE DEF left, z, u, M
    <3> QED
      BY <1>1, <1>3, <1>4, <2>1, <2>2
  <2> QED
    BY <1>3, <2>1, <2>3 DEF Enough
<1>6. CASE remaining_subresults' = 0 /\ remaining' = remaining - 1
  <2>1. Zeros' = z - 1 /\ Until' = M /\ u = 1
    BY <1>1, <1>4, <1>6, SetsAreFinite DEF Zeros, Counters
  <2>2. left - 1 <= (z - 1) * M /\ (z - 1) * M \in Nat
    <3>1. (z - 1) * M \in Nat
      BY <1>3, <1>4
    <3> HIDE DEF left, z, u, M
    <3> QED
      BY <1>1, <1>3, <2>1, <3>1
  <2>3. ASSUME z = 1 PROVE Left' = {}
    <3>1. Cardinality(Left') = 0
      <4>1. (z - 1) * M = 0
        BY <1>4, <2>3
      <4> HIDE DEF left, z, M
      <4> QED
        BY <1>1, <1>2, <2>2, <4>1
    <3>2. IsFiniteSet(Left')
      <4>1. Item' = Item
        BY DEF Item
      <4>2. Left' \in SUBSET (Item \X (1..MaxElements))
        BY <4>1 DEF Left
      <4>3. IsFiniteSet(Item) /\ IsFiniteSet(1..MaxElements)
        BY SetsAreFinite, FS_Interval, AnswersAssumption
      <4> QED
        BY <4>2, <4>3, FS_Product, FS_Subset
    <3> QED
      BY <3>1, <3>2, FS_EmptySet
  <2>4. ASSUME z > 1 PROVE Cardinality(Left') <= Until' + (Zeros' - 1) * M
    <3>1. (Zeros' - 1) * M = (z - 1) * M - M
      BY <1>3, <1>4, <2>1
    <3> HIDE DEF left, z, u, M
    <3> QED
      BY <1>1, <1>4, <2>1, <2>2, <3>1
  <2> QED
    BY <1>3, <2>1, <2>3, <2>4 DEF Enough
<1> QED
  BY <1>5, <1>6

(* Items are answered one behind the other, when the application answers   *)
(* in order.                                                               *)
InOrder ==
    sequential => \A j, k \in Item : j < k /\ answer[k].kind # "none" => Complete(j)

(* The invariant of the counters when it does.                             *)
InTurn ==
    sequential =>
        /\ open => Exact
        /\ ~open => \A k \in Item : Complete(k)

(* And in whatever order it answers.                                       *)
Counted ==
    /\ Enough
    /\ ~open => remaining = 0

LEMMA InOrderKept ==
    ASSUME IInv, InOrder, NEW k \in Item, ~Complete(k),
           answer[k].kind = "none" => Turn(k), NEW r \in Record, r.kind # "none",
           answer' = [answer EXCEPT ![k] = r], UNCHANGED <<sequential, request_payload_count>>
    PROVE  InOrder'
<1>1. Item' = Item /\ request_payload_count \in Nat
  BY DEF Item, IInv, Recorded
<1>2. \A j \in Item : answer'[j] = IF j = k THEN r ELSE answer[j]
  BY DEF IInv, Recorded
<1>3. \A j \in Item : j # k => (Complete(j)' <=> Complete(j))
  BY <1>2 DEF Complete
<1> SUFFICES ASSUME sequential, NEW j \in Item, NEW h \in Item, j < h, answer'[h].kind # "none"
             PROVE  Complete(j)'
  BY <1>1 DEF InOrder
<1>4. j # h
  BY <1>1 DEF Item
<1>5. CASE h = k /\ answer[k].kind = "none"
  BY <1>3, <1>4, <1>5 DEF Turn
<1>6. CASE ~(h = k /\ answer[k].kind = "none")
  <2>1. answer[h].kind # "none"
    BY <1>2, <1>6
  <2>2. Complete(j)
    BY <2>1 DEF InOrder
  <2> QED
    BY <1>3, <2>2
<1> QED
  BY <1>5, <1>6

(* Before an item is answered in order, every other one that was begun is  *)
(* complete.                                                               *)
LEMMA NoneOpen ==
    ASSUME IInv, InOrder, sequential, NEW k \in Item, answer[k].kind = "none", Turn(k)
    PROVE  \A j \in Item : answer[j].kind # "none" => Complete(j)
<1> SUFFICES ASSUME NEW j \in Item, answer[j].kind # "none", ~Complete(j) PROVE FALSE
  OBVIOUS
<1>1. j \in Nat /\ k \in Nat
  BY DEF IInv, Recorded, Item
<1>2. j # k /\ ~(j < k)
  BY DEF Turn
<1>3. k < j
  BY <1>1, <1>2
<1>4. Complete(k)
  BY <1>3 DEF InOrder
<1> QED
  BY <1>4 DEF Complete

(* A value.                                                                *)
LEMMA AnswerCounted ==
    ASSUME IInv, Counters, Announced, InOrder, NEW k \in Item, Answer(k)
    PROVE  InOrder' /\ (InTurn => InTurn') /\ (Counted => Counted')
<1> DEFINE r == [answer[k] EXCEPT !.kind = "one"]
<1>1. answer[k] \in Record /\ answer[k].kind = "none" /\ Turn(k) /\ open
  BY DEF Answer, IInv, Recorded
<1>2. answer[k].count = 0 /\ answer[k].given = 0
  BY <1>1 DEF Announced
<1>3. r \in Record /\ r.kind = "one" /\ r.given = r.count
  BY <1>1, <1>2 DEF Record
<1>4. answer' = [answer EXCEPT ![k] = r]
  BY DEF Answer
<1>5. UNCHANGED request_payload_count /\ UNCHANGED sequential
      /\ UNCHANGED remaining_subresults
  BY DEF Answer
<1> HIDE DEF r
<1>6. ~Complete(k)
  BY <1>1 DEF Complete
<1>7. Closes(k, r)
  <2>1. PICK b : IsBuffer(b) /\ ReleaseResult(b)
    BY AnswerWrites DEF Follows
  <2> QED
    BY <1>1, <1>3, <2>1, ReleaseCounts DEF Closes
<1>8. InOrder'
  BY <1>1, <1>3, <1>4, <1>5, <1>6, InOrderKept
<1>9. Exact => Exact' /\ (~open' => \A j \in Item' : Complete(j)')
  BY <1>1, <1>3, <1>4, <1>5, <1>6, <1>7, ExactCloses
<1>10. Enough => Enough'
  BY <1>1, <1>3, <1>4, <1>5, <1>7, EnoughCloses DEF Closes
<1>12. ~open' => remaining' = 0
  BY <1>7 DEF Closes
<1>11. sequential' = sequential
  BY <1>5
<1> QED
  BY <1>1, <1>8, <1>9, <1>10, <1>11, <1>12 DEF InTurn, Counted

(* The head of an array.                                                   *)
LEMMA ArrayCounted ==
    ASSUME IInv, Counters, Announced, InOrder, NEW k \in Item, AnswerArray(k)
    PROVE  InOrder' /\ (InTurn => InTurn') /\ (Counted => Counted')
<1>1. answer[k].kind = "none" /\ Turn(k) /\ open
  BY DEF AnswerArray
<1>0. PICK count \in 0..MaxElements : \E b : WritesArray(k, count, b)
  BY ArrayWrites
<1>2. PICK b :
        /\ answer' = [answer EXCEPT ![k] = [kind |-> "array", count |-> count, given |-> 0]]
        /\ IsBuffer(b)
        /\ \/ count > 0 /\ remaining_subresults' = count /\ GoesOn(b)
           \/ count = 0 /\ UNCHANGED remaining_subresults /\ ReleaseResult(b)
  BY <1>0 DEF WritesArray, Follows
<1> DEFINE r == [kind |-> "array", count |-> count, given |-> 0]
<1>3. r \in Record /\ r.kind # "none" /\ r.count = count /\ r.given = 0 /\ count \in Nat
  BY AnswersAssumption DEF Record
<1>4. answer' = [answer EXCEPT ![k] = r]
  BY <1>2
<1>5. UNCHANGED request_payload_count /\ UNCHANGED sequential
  BY DEF AnswerArray
<1> HIDE DEF r
<1>6. ~Complete(k)
  BY <1>1 DEF Complete
<1>7. InOrder'
  BY <1>1, <1>3, <1>4, <1>5, <1>6, InOrderKept
<1>8. CASE count = 0 /\ UNCHANGED remaining_subresults /\ ReleaseResult(b)
  <2>1. Closes(k, r)
    BY <1>1, <1>2, <1>3, <1>8, ReleaseCounts DEF Closes
  <2>2. Exact => Exact' /\ (~open' => \A j \in Item' : Complete(j)')
    BY <1>1, <1>3, <1>4, <1>5, <1>6, <1>8, <2>1, ExactCloses
  <2>3. (Enough => Enough') /\ (~open' => remaining' = 0)
    BY <1>1, <1>3, <1>4, <1>5, <1>8, <2>1, EnoughCloses DEF Closes
  <2>4. sequential' = sequential
    BY <1>5
  <2> QED
    BY <1>1, <1>7, <2>2, <2>3, <2>4 DEF InTurn, Counted
<1>9. CASE count > 0 /\ remaining_subresults' = count /\ GoesOn(b)
  <2>1. UNCHANGED <<request_payload_count, remaining>> /\ open'
    BY <1>1, <1>5, <1>9 DEF GoesOn
  <2>2. r.given # r.count /\ remaining_subresults' = r.count - r.given
    BY <1>3, <1>9
  <2>3. r.count > 0 /\ r.count <= MaxElements
    BY <1>3, <1>9, AnswersAssumption
  <2>4. Exact /\ sequential => Exact'
    BY <1>1, <1>3, <1>4, <2>1, <2>2, ExactBegins, NoneOpen
  <2>5. Enough => Enough'
    BY <1>1, <1>3, <1>4, <1>9, <2>1, <2>3, EnoughBegins
  <2>6. sequential' = sequential
    BY <1>5
  <2> QED
    BY <1>1, <1>7, <2>1, <2>4, <2>5, <2>6 DEF InTurn, Counted
<1> QED
  BY <1>2, <1>8, <1>9

(* An element.                                                             *)
LEMMA ElementReleases ==
    ASSUME IInv, Counters, NEW k \in Item, AnswerElement(k)
    PROVE  /\ open /\ answer[k].given < answer[k].count
           /\ answer' = [answer EXCEPT ![k].given = @ + 1]
           /\ remaining_subresults' = Less(remaining_subresults)
           /\ UNCHANGED request_payload_count /\ UNCHANGED sequential
           /\ \/ /\ remaining_subresults' = 0
                 /\ remaining' = remaining - 1
                 /\ (open' /\ remaining' >= 1) \/ (~open' /\ remaining' = 0)
              \/ /\ remaining_subresults' # 0
                 /\ UNCHANGED <<remaining, open>>
<1>1. /\ open /\ answer[k].given < answer[k].count
      /\ answer' = [answer EXCEPT ![k].given = @ + 1]
      /\ remaining_subresults' = Less(remaining_subresults)
      /\ UNCHANGED request_payload_count /\ UNCHANGED sequential
  BY DEF AnswerElement
<1>2. PICK b : /\ Follows(b)
               /\ \/ LastElement /\ ReleaseResult(b)
                  \/ ~LastElement /\ GoesOn(b)
               /\ Adds(b, output_buffer, Token("element", k, answer[k].given + 1))
  BY ElementWrites
<1>3. CASE LastElement /\ ReleaseResult(b)
  <2>1. /\ remaining' = remaining - 1
        /\ (open' /\ remaining' >= 1) \/ (~open' /\ remaining' = 0)
    BY <1>1, <1>2, <1>3, ReleaseCounts DEF Follows
  <2> QED
    BY <1>1, <1>3, <2>1 DEF LastElement
<1>4. CASE ~LastElement /\ GoesOn(b)
  BY <1>1, <1>4 DEF LastElement, GoesOn
<1> QED
  BY <1>2, <1>3, <1>4

LEMMA ElementInTurn ==
    ASSUME IInv, Counters, Announced, InOrder, NEW k \in Item, AnswerElement(k)
    PROVE  /\ InOrder'
           /\ Exact => Exact' /\ (~open' => \A j \in Item' : Complete(j)')
<1> DEFINE r == [answer[k] EXCEPT !.given = @ + 1]
<1>1. /\ answer[k] \in Record /\ open /\ answer[k].given < answer[k].count
      /\ answer' = [answer EXCEPT ![k].given = @ + 1]
      /\ remaining_subresults' = Less(remaining_subresults)
      /\ UNCHANGED request_payload_count /\ UNCHANGED sequential
  BY ElementReleases DEF IInv, Recorded
<1>2. answer' = [answer EXCEPT ![k] = r]
  BY <1>1
<1>3. answer[k].kind = "array" /\ ~Complete(k)
  BY <1>1 DEF Announced, Complete, Record
<1>4. /\ r \in Record /\ r.kind # "none"
      /\ r.count = answer[k].count /\ r.given = answer[k].given + 1
      /\ answer[k].count \in Nat /\ answer[k].given \in Nat
  BY <1>1, <1>3 DEF Record
<1> HIDE DEF r
<1>5. InOrder'
  BY <1>1, <1>2, <1>3, <1>4, InOrderKept
<1>6. ASSUME Exact PROVE Exact' /\ (~open' => \A j \in Item' : Complete(j)')
  <2>1. PICK i \in Nat : CompleteBut(i)
    BY <1>6 DEF Exact
  <2>2. CompleteBut(k)
    BY <1>3, <2>1 DEF CompleteBut
  <2>3. remaining_subresults = answer[k].count - answer[k].given
    BY <1>3, <2>2 DEF CompleteBut
  <2>4. remaining_subresults' = r.count - r.given
    BY <1>1, <1>4, <2>3 DEF Less
  <2>5. CASE remaining_subresults' = 0
    <3>1. r.given = r.count
      BY <1>4, <2>4, <2>5
    <3>2. Closes(k, r)
      BY <1>1, <2>5, <3>1, ElementReleases DEF Closes
    <3> QED
      BY <1>1, <1>2, <1>3, <1>4, <1>6, <2>2, <3>2, ExactCloses
  <2>6. CASE remaining_subresults' # 0
    <3>1. r.given # r.count
      BY <1>4, <2>4, <2>6
    <3>2. UNCHANGED <<request_payload_count, remaining>> /\ open'
      BY <1>1, <2>6, ElementReleases
    <3>3. Exact'
      BY <1>2, <1>3, <1>4, <1>6, <2>4, <3>1, <3>2, ExactGoesOn
    <3> QED
      BY <3>2, <3>3
  <2> QED
    BY <2>5, <2>6
<1> QED
  BY <1>5, <1>6

LEMMA ElementCounted ==
    ASSUME IInv, Counters, Announced, Counted, NEW k \in Item, AnswerElement(k)
    PROVE  Counted'
<1>1. Enough'
  BY ElementReleases, EnoughGives DEF Counted
<1>2. ~open' => remaining' = 0
  BY ElementReleases
<1> QED
  BY <1>1, <1>2 DEF Counted

(* A request begins with nothing answered.                                 *)
LEMMA RequestCounted == IInv /\ Request => InOrder' /\ InTurn' /\ Counted'
<1> SUFFICES ASSUME IInv, Request PROVE InOrder' /\ InTurn' /\ Counted'
  OBVIOUS
<1>1. PICK n \in 0..MaxPayload : /\ request_payload_count' = n /\ remaining' = n
                                 /\ answer' = [k \in 1..n |-> NoAnswer]
  BY DEF Request
<1>2. open' /\ n \in Nat
  BY AnswersAssumption DEF Request
<1>3. Item' = 1..n /\ \A j \in Item' : answer'[j].kind = "none"
  BY <1>1 DEF Item, NoAnswer
<1>4. \A j \in Item' : ~Complete(j)'
  BY <1>3 DEF Complete
<1>5. InOrder'
  BY <1>3 DEF InOrder
<1>6. Incomplete' = 1..n
  BY <1>3, <1>4 DEF Incomplete
<1>7. Cardinality(Incomplete') = n
  BY <1>2, <1>6, FS_Interval
<1>8. CompleteBut(0)'
  BY <1>3 DEF CompleteBut
<1>9. \E i \in Nat : CompleteBut(i)'
  <2>1. 0 \in Nat
    OBVIOUS
  <2> QED
    BY <1>8, <2>1
<1>10. Exact'
  BY <1>1, <1>7, <1>9 DEF Exact
<1>11. Enough'
  <2>1. Untouched' = 1..n
    BY <1>3 DEF Untouched
  <2>2. Cardinality(Untouched') = n
    BY <1>2, <2>1, FS_Interval
  <2>3. Zeros' = 0
    BY <1>1, <1>2, <2>2 DEF Zeros
  <2>4. Left' = {}
    <3>1. \A j \in 1..n : answer'[j].given = 0 /\ answer'[j].count = 0
      BY <1>1 DEF NoAnswer
    <3> QED
      BY <1>3, <3>1 DEF Left
  <2> QED
    BY <2>3, <2>4 DEF Enough
<1> QED
  BY <1>2, <1>5, <1>10, <1>11 DEF InTurn, Counted

(* Nothing that the counters are about changes.                            *)
LEMMA CountedStays ==
    ASSUME InOrder, UNCHANGED <<sequential, open, counters, answer>>
    PROVE  InOrder' /\ (InTurn => InTurn') /\ (Counted => Counted')
<1>1. InOrder'
  BY DEF InOrder, counters, Item, Complete
<1>2. Exact' <=> Exact
  BY DEF Exact, CompleteBut, Incomplete, counters, Item, Complete
<1>3. (Enough' <=> Enough) /\ remaining' = remaining
  BY DEF Enough, Until, Zeros, Left, Untouched, counters, Item
<1>4. (\A j \in Item' : Complete(j)') <=> (\A j \in Item : Complete(j))
  BY DEF counters, Item, Complete
<1>5. open' = open /\ sequential' = sequential
  OBVIOUS
<1> QED
  BY <1>1, <1>2, <1>3, <1>4, <1>5 DEF InTurn, Counted

(* What holds when the application answers in order.                       *)
Turns == Counters /\ Announced /\ InOrder /\ InTurn

LEMMA TurnsInit == Init => Turns /\ Counted
<1> SUFFICES ASSUME Init PROVE Turns /\ Counted
  OBVIOUS
<1>1. /\ sequential \in BOOLEAN /\ session \in BOOLEAN /\ open = FALSE
      /\ request_payload_count = 0 /\ remaining = 0 /\ remaining_subresults = 0
      /\ lost = 0 /\ messages = 0
  BY DEF Init
<1>2. Counters
  <2>1. open \in BOOLEAN
    BY <1>1
  <2> QED
    BY <1>1, <2>1, AnswersAssumption DEF Counters
<1>3. Item = {}
  BY <1>1 DEF Item
<1>4. Enough
  <2>1. Untouched = {} /\ Left = {}
    BY <1>3 DEF Untouched, Left
  <2>2. Cardinality(Untouched) = 0
    BY <2>1, FS_EmptySet
  <2> QED
    BY <1>1, <2>1, <2>2 DEF Enough, Zeros
<1> QED
  BY <1>1, <1>2, <1>3, <1>4 DEF Turns, Announced, InOrder, InTurn, Counted

LEMMA TurnsStep == IInv /\ Turns /\ [Next]_vars => Turns'
<1> SUFFICES ASSUME IInv, Turns, [Next]_vars PROVE Turns'
  OBVIOUS
<1>1. Counters' /\ Announced'
  BY CountersStep, AnnouncedStep DEF Turns
<1>2. InOrder' /\ InTurn'
  <2>1. CASE Request
    BY <2>1, RequestCounted
  <2>2. CASE SessionEnd
    BY <2>2, CountedStays DEF SessionEnd, Turns
  <2>3. ASSUME NEW k \in Item, Answer(k) PROVE InOrder' /\ InTurn'
    BY <2>3, AnswerCounted DEF Turns
  <2>4. ASSUME NEW k \in Item, AnswerArray(k) PROVE InOrder' /\ InTurn'
    BY <2>4, ArrayCounted DEF Turns
  <2>5. ASSUME NEW k \in Item, AnswerElement(k) PROVE InOrder' /\ InTurn'
    <3>1. open /\ sequential' = sequential
      BY <2>5, ElementReleases DEF Turns
    <3> QED
      BY <2>5, <3>1, ElementInTurn DEF Turns, InTurn
  <2>6. CASE UNCHANGED vars
    BY <2>6, CountedStays DEF vars, Turns
  <2> QED
    BY <2>1, <2>2, <2>3, <2>4, <2>5, <2>6 DEF Next, AnswerItem
<1> QED
  BY <1>1, <1>2 DEF Turns

LEMMA TurnsCorrect == Spec => []Turns
<1>1. Init => Turns
  BY TurnsInit
<1>2. IInv /\ Turns /\ [Next]_vars => Turns'
  BY TurnsStep
<1> QED
  BY <1>1, <1>2, InvCorrect, PTL DEF Spec

(* When the application answers in order, the counters say what it still   *)
(* has to give.                                                            *)
THEOREM PartsCountedCorrect == Spec => []PartsCounted
<1>1. ASSUME Turns PROVE PartsCounted
  <2>1. ASSUME sequential, open PROVE remaining = Cardinality(Incomplete)
    BY <1>1, <2>1 DEF Turns, InTurn, Exact
  <2>2. ASSUME sequential, open, NEW k \in Item, answer[k].kind = "array", ~Complete(k)
        PROVE  remaining_subresults = answer[k].count - answer[k].given
    <3>1. PICK i \in Nat : CompleteBut(i)
      BY <1>1, <2>2 DEF Turns, InTurn, Exact
    <3> QED
      BY <2>2, <3>1 DEF CompleteBut
  <2> QED
    BY <2>1, <2>2 DEF PartsCounted, Incomplete
<1> QED
  BY <1>1, TurnsCorrect, PTL

(* The counters say what is still to be given, and in whatever order the   *)
(* application gives it, the result is not freed before the last of it:    *)
(* the one counter for all its arrays is 0 too late then, never too soon.  *)
THEOREM CountsAnswersCorrect == Spec => []CountsAnswers
<1>1. Init => Counted
  BY TurnsInit
<1>2. ASSUME IInv, Turns, Counted, [Next]_vars PROVE Counted'
  <2>1. CASE Request
    BY <1>2, <2>1, RequestCounted
  <2>2. CASE SessionEnd
    BY <1>2, <2>2, CountedStays DEF SessionEnd, Turns
  <2>3. ASSUME NEW k \in Item, Answer(k) PROVE Counted'
    BY <1>2, <2>3, AnswerCounted DEF Turns
  <2>4. ASSUME NEW k \in Item, AnswerArray(k) PROVE Counted'
    BY <1>2, <2>4, ArrayCounted DEF Turns
  <2>5. ASSUME NEW k \in Item, AnswerElement(k) PROVE Counted'
    BY <1>2, <2>5, ElementCounted DEF Turns
  <2>6. CASE UNCHANGED vars
    BY <1>2, <2>6, CountedStays DEF vars, Turns
  <2> QED
    BY <1>2, <2>1, <2>2, <2>3, <2>4, <2>5, <2>6 DEF Next, AnswerItem
<1>3. ASSUME Turns, Counted PROVE NotFreedEarly
  <2> SUFFICES ASSUME ~open, NEW j \in Item PROVE Complete(j)
    BY DEF NotFreedEarly
  <2>1. remaining = 0 /\ Zeros \in Nat
    BY <1>3 DEF Counted, Enough
  <2>2. Cardinality(Untouched) \in Nat /\ IsFiniteSet(Untouched)
    BY <1>3, SetsAreFinite DEF Turns
  <2>3. Cardinality(Untouched) = 0 /\ Zeros = 0
    BY <2>1, <2>2 DEF Zeros
  <2>4. Untouched = {} /\ Left = {}
    BY <1>3, <2>2, <2>3, FS_EmptySet DEF Counted, Enough
  <2>5. answer[j].kind # "none"
    BY <2>4 DEF Untouched
  <2>6. ASSUME answer[j].given # answer[j].count PROVE FALSE
    <3>1. answer[j].given \in Nat /\ answer[j].given < answer[j].count
          /\ answer[j].given + 1 \in 1..MaxElements
      BY <1>3, <2>6, AnswersAssumption DEF Turns, Announced
    <3>2. <<j, answer[j].given + 1>> \in Left
      BY <1>3, <3>1 DEF Left, Turns, Announced
    <3> QED
      BY <2>4, <3>2
  <2> QED
    BY <2>5, <2>6 DEF Complete
<1>4. PartsCounted /\ NotFreedEarly => CountsAnswers
  BY DEF CountsAnswers
<1> QED
  BY <1>1, <1>2, <1>3, <1>4, InvCorrect, TurnsCorrect, PartsCountedCorrect, PTL DEF Spec

-----------------------------------------------------------------------------
(* What a client reads.                                                    *)

(* How far it has come: a missing element belongs to the last one.         *)
Reading ==
    {read \in [elements : Seq(Seq(Tokens)), missing : Nat] :
        read.missing > 0 => Len(read.elements) > 0}

Nothing == [elements |-> <<>>, missing |-> 0]

LEMMA TakeBegins ==
    ASSUME NEW read \in Reading, read.missing = 0, NEW w \in Tokens
    PROVE  /\ Take(read, w) \in Reading
           /\ Take(read, w).missing = IF w.kind = "array" THEN w.number ELSE 0
           /\ Len(Take(read, w).elements) = Len(read.elements) + 1
           /\ \A i \in 1..Len(read.elements) : Take(read, w).elements[i] = read.elements[i]
           /\ Take(read, w).elements[Len(read.elements) + 1] = <<w>>
<1> DEFINE S == Seq(Tokens)
           e == read.elements
           r == Take(read, w)
<1>1. <<w>> \in S
  OBVIOUS
<1>2. e \in Seq(S)
  BY DEF Reading
<1>3. r = [elements |-> Append(e, <<w>>),
           missing  |-> IF w.kind = "array" THEN w.number ELSE 0]
  BY DEF Take
<1> HIDE DEF S, e, r
<1>4. /\ Append(e, <<w>>) \in Seq(S)
      /\ Len(Append(e, <<w>>)) = Len(e) + 1 /\ Len(e) \in Nat
      /\ \A i \in 1..Len(e) : Append(e, <<w>>)[i] = e[i]
      /\ Append(e, <<w>>)[Len(e) + 1] = <<w>>
  BY <1>1, <1>2
<1>5. (IF w.kind = "array" THEN w.number ELSE 0) \in Nat
  BY DEF Tokens
<1>6. /\ r.elements = Append(e, <<w>>)
      /\ r.missing = IF w.kind = "array" THEN w.number ELSE 0
  BY <1>3
<1>7. r \in [elements : Seq(S), missing : Nat] /\ Len(r.elements) > 0
  BY <1>3, <1>4, <1>5
<1>8. r \in Reading
  BY <1>7 DEF Reading, S
<1> QED
  BY <1>4, <1>6, <1>8 DEF e, r

LEMMA TakeGoesOn ==
    ASSUME NEW read \in Reading, read.missing > 0, NEW w \in Tokens
    PROVE  /\ Take(read, w) \in Reading
           /\ Take(read, w).missing = read.missing - 1
           /\ Len(Take(read, w).elements) = Len(read.elements)
           /\ \A i \in 1..Len(read.elements) :
                Take(read, w).elements[i] =
                    IF i < Len(read.elements) THEN read.elements[i]
                    ELSE Append(read.elements[i], w)
<1> DEFINE S == Seq(Tokens)
           e == read.elements
           r == Take(read, w)
           last == Append(Last(e), w)
<1>1. e \in Seq(S) /\ Len(e) > 0 /\ read.missing \in Nat
  BY DEF Reading
<1>2. Last(e) = e[Len(e)] /\ e[Len(e)] \in S
  BY <1>1 DEF Last
<1>3. last \in S /\ last = Append(e[Len(e)], w)
  BY <1>2
<1>4. r = [elements |-> Front(e) \o <<last>>, missing |-> read.missing - 1]
  BY DEF Take
<1> HIDE DEF S, e, r, last
<1>5. /\ Front(e) \o <<last>> \in Seq(S)
      /\ Len(Front(e) \o <<last>>) = Len(e)
      /\ \A i \in 1..Len(e) : (Front(e) \o <<last>>)[i] = IF i < Len(e) THEN e[i] ELSE last
  BY <1>1, <1>3, LastReplaced
<1>6. r.elements = Front(e) \o <<last>> /\ r.missing = read.missing - 1
  BY <1>4
<1>7. read.missing - 1 \in Nat
  BY <1>1
<1>8. r \in [elements : Seq(S), missing : Nat] /\ Len(r.elements) > 0
  BY <1>1, <1>4, <1>5, <1>7
<1>9. r \in Reading
  BY <1>8 DEF Reading, S
<1>10. \A i \in 1..Len(e) : r.elements[i] = IF i < Len(e) THEN e[i] ELSE Append(e[i], w)
  <2> SUFFICES ASSUME NEW i \in 1..Len(e)
               PROVE  r.elements[i] = IF i < Len(e) THEN e[i] ELSE Append(e[i], w)
    OBVIOUS
  <2>1. CASE i < Len(e)
    BY <1>5, <1>6, <2>1
  <2>2. CASE ~(i < Len(e))
    <3>1. i = Len(e)
      BY <1>1, <2>2
    <3> QED
      BY <1>3, <1>5, <1>6, <2>2, <3>1
  <2> QED
    BY <2>1, <2>2
<1> QED
  BY <1>5, <1>6, <1>9, <1>10 DEF e, r

LEMMA TakeReads ==
    ASSUME NEW read \in Reading, NEW w \in Tokens PROVE Take(read, w) \in Reading
<1>1. read.missing \in Nat
  BY DEF Reading
<1>2. read.missing = 0 \/ read.missing > 0
  BY <1>1
<1> QED
  BY <1>2, TakeBegins, TakeGoesOn

(* The function in Taken.                                                  *)
Takes(c) ==
    CHOOSE f : f = [i \in 0..Len(c) |-> IF i = 0 THEN Nothing ELSE Take(f[i - 1], c[i])]

LEMMA TakesDef ==
    ASSUME NEW c \in Seq(Tokens)
    PROVE  /\ Takes(c) \in [0..Len(c) -> Reading]
           /\ \A i \in 0..Len(c) :
                Takes(c)[i] = IF i = 0 THEN Nothing ELSE Take(Takes(c)[i - 1], c[i])
           /\ Taken(c) = Takes(c)[Len(c)]
<1> DEFINE f == Takes(c)
           n == Len(c)
           Rec(g) == g = [i \in 0..n |-> IF i = 0 THEN Nothing ELSE Take(g[i - 1], c[i])]
           step == [i \in 1..n |-> [x \in Reading |-> Take(x, c[i])]]
<1>1. \A i \in 1..n : c[i] \in Tokens
  OBVIOUS
<1>2. \A i \in 1..n : \A x \in Reading : Take(x, c[i]) \in Reading
  BY <1>1, TakeReads
<1>3. Nothing \in Reading /\ n \in Nat
  <2>1. <<>> \in Seq(Seq(Tokens))
    OBVIOUS
  <2> QED
    BY <2>1 DEF Nothing, Reading
<1> HIDE DEF n
<1>4. step \in [1..n -> [Reading -> Reading]]
  BY <1>2
<1>5. PICK g \in [0..n -> Reading] : Runs(g, n, Nothing, step)
  <2> HIDE DEF step
  <2> QED
    BY <1>3, <1>4, Recursion
<1>6. Rec(g)
  <2>1. ASSUME NEW i \in 1..n PROVE step[i][g[i - 1]] = Take(g[i - 1], c[i])
    <3>1. i - 1 \in 0..n
      BY <1>3
    <3>2. g[i - 1] \in Reading
      BY <3>1
    <3> QED
      BY <3>2
  <2> HIDE DEF step
  <2>2. ASSUME NEW i \in 0..n PROVE g[i] = IF i = 0 THEN Nothing ELSE Take(g[i - 1], c[i])
    <3>1. CASE i = 0
      BY <1>5, <3>1 DEF Runs
    <3>2. CASE i # 0
      <4>1. i \in 1..n
        BY <1>3, <3>2
      <4> QED
        BY <1>5, <2>1, <3>2, <4>1 DEF Runs
    <3> QED
      BY <3>1, <3>2
  <2>3. g = [i \in 0..n |-> g[i]]
    OBVIOUS
  <2> QED
    BY <2>2, <2>3
<1>7. Rec(f)
  BY <1>6 DEF Takes, n
<1>8. \A i \in 0..n : f[i] \in Reading
  <2> DEFINE T == {i \in 0..n : f[i] \in Reading}
  <2> HIDE DEF f
  <2>1. 0 \in T
    BY <1>3, <1>7
  <2>2. ASSUME NEW i \in 1..n, i - 1 \in T PROVE i \in T
    <3>1. i \in 0..n /\ i # 0 /\ f[i - 1] \in Reading
      BY <1>3, <2>2
    <3> QED
      BY <1>2, <1>7, <3>1
  <2>3. \A i \in 0..n : i \in T
    <3> HIDE DEF T
    <3> QED
      BY <1>3, <2>1, <2>2, UpTo
  <2> QED
    BY <2>3
<1>9. Taken(c) = f[n]
  BY DEF Taken, Takes, Nothing, n
<1> HIDE DEF f
<1>10. /\ f \in [0..n -> Reading]
       /\ \A i \in 0..n : f[i] = IF i = 0 THEN Nothing ELSE Take(f[i - 1], c[i])
  BY <1>7, <1>8
<1> QED
  BY <1>9, <1>10 DEF f, n

LEMMA TakesStart == ASSUME NEW c \in Seq(Tokens) PROVE Takes(c)[0] = Nothing
<1>1. \A i \in 0..Len(c) : i = 0 => Takes(c)[i] = Nothing
  BY TakesDef
<1>2. 0 \in 0..Len(c)
  OBVIOUS
<1> QED
  BY <1>1, <1>2

(* Sequences that agree up to m are read alike up to m.                    *)
LEMMA SameTakes ==
    ASSUME NEW c \in Seq(Tokens), NEW d \in Seq(Tokens), NEW m \in Nat,
           m <= Len(c), m <= Len(d), \A i \in 1..m : c[i] = d[i]
    PROVE  Takes(c)[m] = Takes(d)[m]
<1> DEFINE T == {i \in 0..m : Takes(c)[i] = Takes(d)[i]}
<1>1. 0 \in T
  BY TakesStart
<1>2. ASSUME NEW i \in 1..m, i - 1 \in T PROVE i \in T
  <2>1. i \in 0..Len(c) /\ i \in 0..Len(d) /\ i # 0 /\ c[i] = d[i]
    OBVIOUS
  <2>2. Takes(c)[i - 1] = Takes(d)[i - 1]
    BY <1>2
  <2>3. /\ Takes(c)[i] = Take(Takes(c)[i - 1], c[i])
        /\ Takes(d)[i] = Take(Takes(d)[i - 1], d[i])
    BY <2>1, TakesDef
  <2> HIDE DEF T
  <2>4. Takes(c)[i] = Takes(d)[i]
    BY <2>1, <2>2, <2>3
  <2> QED
    BY <2>4 DEF T
<1>3. \A i \in 0..m : i \in T
  <2> HIDE DEF T
  <2> QED
    BY <1>1, <1>2, UpTo
<1> QED
  BY <1>3

(* A client reads one thing behind the other.                              *)
LEMMA TakenAppends ==
    ASSUME NEW c \in Seq(Tokens), NEW w \in Tokens
    PROVE  Taken(Append(c, w)) = Take(Taken(c), w) /\ Taken(c) \in Reading
<1> DEFINE d == Append(c, w)
           n == Len(c)
<1>1. /\ d \in Seq(Tokens) /\ Len(d) = n + 1 /\ n \in Nat
      /\ d[n + 1] = w /\ \A i \in 1..n : c[i] = d[i]
  OBVIOUS
<1> HIDE DEF d
<1>2. Takes(c)[n] = Takes(d)[n]
  BY <1>1, SameTakes
<1>3. Taken(d) = Takes(d)[n + 1] /\ Taken(c) = Takes(c)[n] /\ Takes(c)[n] \in Reading
  <2> HIDE DEF n
  <2>1. n \in 0..n
    BY <1>1
  <2> QED
    BY <1>1, <2>1, TakesDef DEF n
<1>4. Takes(d)[n + 1] = Take(Takes(d)[n], w)
  <2>1. \A i \in 0..Len(d) : i # 0 => Takes(d)[i] = Take(Takes(d)[i - 1], d[i])
    BY <1>1, TakesDef
  <2>2. n + 1 \in 0..Len(d) /\ n + 1 # 0 /\ n + 1 - 1 = n
    BY <1>1
  <2> QED
    BY <1>1, <2>1, <2>2
<1> QED
  BY <1>2, <1>3, <1>4 DEF d

LEMMA TakenNothing == Taken(<<>>) = Nothing
<1>1. <<>> \in Seq(Tokens) /\ Len(<<>>) = 0
  OBVIOUS
<1>2. Taken(<<>>) = Takes(<<>>)[Len(<<>>)]
  BY <1>1, TakesDef
<1> QED
  BY <1>1, <1>2, TakesStart

(* The head of an array and the first g of its elements, as one element.   *)
Listed(k, count, g) ==
    <<Token("array", k, count)>> \o [n \in 1..g |-> Token("element", k, n)]

LEMMA ListedGrows ==
    ASSUME NEW k \in Nat, NEW count \in Nat, NEW g \in Nat
    PROVE  /\ Listed(k, count, g) \in Seq(Tokens)
           /\ Listed(k, count, 0) = <<Token("array", k, count)>>
           /\ Append(Listed(k, count, g), Token("element", k, g + 1))
                = Listed(k, count, g + 1)
<1> DEFINE head == Token("array", k, count)
           element(n) == Token("element", k, n)
           elements(h) == [n \in 1..h |-> element(n)]
<1>1. head \in Tokens /\ \A n \in Nat : element(n) \in Tokens
  BY TokenInTokens DEF TokenKind
<1> HIDE DEF head, element
<1>2. <<head>> \in Seq(Tokens) /\ Len(<<head>>) = 1 /\ <<head>>[1] = head
  BY <1>1
<1>3. ASSUME NEW h \in Nat
      PROVE  /\ elements(h) \in Seq(Tokens) /\ Len(elements(h)) = h
             /\ \A n \in 1..h : elements(h)[n] = element(n)
  BY <1>1
<1> HIDE DEF elements
<1>4. ASSUME NEW h \in Nat
      PROVE  /\ <<head>> \o elements(h) \in Seq(Tokens)
             /\ Len(<<head>> \o elements(h)) = h + 1
             /\ \A i \in 1..(h + 1) :
                  (<<head>> \o elements(h))[i] = IF i = 1 THEN head ELSE element(i - 1)
  BY <1>2, <1>3
<1>5. <<head>> \o elements(0) = <<head>>
  <2>1. Len(elements(0)) = 0 /\ elements(0) \in Seq(Tokens)
    BY <1>3
  <2>2. elements(0) = <<>>
    BY <2>1
  <2> QED
    BY <1>2, <2>2, ConcatEmptySeq
<1>6. Append(<<head>> \o elements(g), element(g + 1)) = <<head>> \o elements(g + 1)
  <2> DEFINE s == Append(<<head>> \o elements(g), element(g + 1))
             t == <<head>> \o elements(g + 1)
  <2>1. /\ t \in Seq(Tokens) /\ Len(t) = g + 2
        /\ \A i \in 1..(g + 2) : t[i] = IF i = 1 THEN head ELSE element(i - 1)
    <3>1. g + 1 \in Nat /\ g + 1 + 1 = g + 2
      OBVIOUS
    <3> QED
      BY <1>4, <3>1
  <2>2. /\ s \in Seq(Tokens) /\ Len(s) = g + 2
        /\ \A i \in 1..(g + 2) : s[i] = IF i = 1 THEN head ELSE element(i - 1)
    <3> DEFINE old == <<head>> \o elements(g)
    <3>1. /\ old \in Seq(Tokens) /\ Len(old) = g + 1
          /\ \A i \in 1..(g + 1) : old[i] = IF i = 1 THEN head ELSE element(i - 1)
      BY <1>4
    <3>2. element(g + 1) \in Tokens
      BY <1>1
    <3> HIDE DEF old
    <3>3. /\ Append(old, element(g + 1)) \in Seq(Tokens)
          /\ Len(Append(old, element(g + 1))) = g + 2
          /\ \A i \in 1..(g + 1) : Append(old, element(g + 1))[i] = old[i]
          /\ Append(old, element(g + 1))[g + 2] = element(g + 1)
      BY <3>1, <3>2, AppendProperties
    <3>4. \A i \in 1..(g + 2) :
            Append(old, element(g + 1))[i] = IF i = 1 THEN head ELSE element(i - 1)
      BY <3>1, <3>3
    <3> QED
      BY <3>3, <3>4 DEF old
  <2> HIDE DEF s, t
  <2>3. Len(s) = Len(t) /\ \A i \in 1..Len(s) : s[i] = t[i]
    BY <2>1, <2>2
  <2>4. s = t
    BY <2>1, <2>2, <2>3, SeqEqual
  <2> QED
    BY <2>4 DEF s, t
<1>7. <<head>> \o elements(g) \in Seq(Tokens)
  BY <1>4
<1> QED
  BY <1>5, <1>6, <1>7 DEF Listed, head, element, elements

(* What the application said of item j so far, behind the diagnostic.      *)
Said(j) ==
    IF answer[j].kind = "one" THEN <<Token("value", j, 0)>>
    ELSE Listed(j, answer[j].count, answer[j].given)

(* A client that read so far has read the first m items, of which only the *)
(* last may be an array with missing elements.                             *)
Spoken(read, m) ==
    /\ m \in 0..request_payload_count
    /\ \A j \in Item : (answer[j].kind # "none" <=> j <= m) /\ (j < m => Complete(j))
    /\ Len(read.elements) = 2 * m
    /\ \A j \in 1..m : /\ read.elements[2 * j - 1] = <<Token("diagnostic", j, 0)>>
                       /\ read.elements[2 * j] = Said(j)
    /\ read.missing = IF m = 0 THEN 0 ELSE answer[m].count - answer[m].given

(* An item is begun.                                                       *)
LEMMA SpokenBegins ==
    ASSUME IInv, NEW read \in Reading, NEW m, Spoken(read, m), read.missing = 0,
           NEW k \in Item, k = m + 1, NEW r \in Record, r.given = 0,
           \/ r.kind = "one" /\ r.count = 0
           \/ r.kind = "array",
           answer' = [answer EXCEPT ![k] = r], UNCHANGED request_payload_count,
           NEW w, w = IF r.kind = "one" THEN Token("value", k, 0)
                      ELSE Token("array", k, r.count),
           NEW next, next = Take(Take(read, Token("diagnostic", k, 0)), w)
    PROVE  next \in Reading /\ Spoken(next, k)'
<1> DEFINE d == Token("diagnostic", k, 0)
           mid == Take(read, d)
<1>1. /\ Item' = Item /\ request_payload_count \in Nat /\ m \in Nat /\ k \in Nat
      /\ \A j \in Item : answer'[j] = IF j = k THEN r ELSE answer[j]
  BY DEF Item, IInv, Recorded, Spoken
<1>2. r.count \in Nat
  BY DEF Record
<1>3. d \in Tokens /\ w \in Tokens /\ d.kind = "diagnostic"
      /\ w.kind = (IF r.kind = "one" THEN "value" ELSE "array")
      /\ (r.kind # "one" => w.number = r.count)
  <2>1. d \in Tokens /\ Token("value", k, 0) \in Tokens /\ Token("array", k, r.count) \in Tokens
    BY <1>1, <1>2, TokenInTokens DEF TokenKind
  <2> QED
    BY <2>1 DEF Token
<1> HIDE DEF d
<1>4. /\ mid \in Reading /\ mid.missing = 0 /\ Len(mid.elements) = 2 * m + 1
      /\ \A i \in 1..(2 * m) : mid.elements[i] = read.elements[i]
      /\ mid.elements[2 * m + 1] = <<d>>
  <2> HIDE DEF mid
  <2>1. /\ mid \in Reading
        /\ mid.missing = IF d.kind = "array" THEN d.number ELSE 0
        /\ Len(mid.elements) = Len(read.elements) + 1
        /\ \A i \in 1..Len(read.elements) : mid.elements[i] = read.elements[i]
        /\ mid.elements[Len(read.elements) + 1] = <<d>>
    BY <1>3, TakeBegins DEF mid
  <2>2. Len(read.elements) = 2 * m
    BY DEF Spoken
  <2> QED
    BY <1>3, <2>1, <2>2
<1> HIDE DEF mid
<1>5. next = Take(mid, w)
  BY DEF mid, d
<1>6. /\ next \in Reading /\ next.missing = IF w.kind = "array" THEN w.number ELSE 0
      /\ Len(next.elements) = 2 * m + 1 + 1
      /\ \A i \in 1..(2 * m + 1) : next.elements[i] = mid.elements[i]
      /\ next.elements[2 * m + 1 + 1] = <<w>>
  <2>1. /\ next \in Reading
        /\ next.missing = IF w.kind = "array" THEN w.number ELSE 0
        /\ Len(next.elements) = Len(mid.elements) + 1
        /\ \A i \in 1..Len(mid.elements) : next.elements[i] = mid.elements[i]
        /\ next.elements[Len(mid.elements) + 1] = <<w>>
    <3>1. mid \in Reading /\ mid.missing = 0 /\ w \in Tokens
      BY <1>3, <1>4
    <3>2. /\ Take(mid, w) \in Reading
          /\ Take(mid, w).missing = IF w.kind = "array" THEN w.number ELSE 0
          /\ Len(Take(mid, w).elements) = Len(mid.elements) + 1
          /\ \A i \in 1..Len(mid.elements) : Take(mid, w).elements[i] = mid.elements[i]
          /\ Take(mid, w).elements[Len(mid.elements) + 1] = <<w>>
      BY <3>1, TakeBegins
    <3> QED
      BY <1>5, <3>2
  <2> QED
    BY <1>4, <2>1
<1>7. next.missing = r.count
  BY <1>3, <1>6
<1>8. Said(k)' = <<w>>
  <2>1. answer'[k] = r
    BY <1>1
  <2>2. CASE r.kind = "one"
    BY <2>1, <2>2 DEF Said
  <2>3. CASE r.kind = "array"
    <3>1. Said(k)' = Listed(k, r.count, 0)
      BY <2>1, <2>3 DEF Said
    <3>2. Listed(k, r.count, 0) = <<Token("array", k, r.count)>>
      BY <1>1, <1>2, ListedGrows
    <3> QED
      BY <2>3, <3>1, <3>2
  <2> QED
    BY <2>2, <2>3
<1>9. ASSUME NEW j \in 1..k
      PROVE  /\ next.elements[2 * j - 1] = <<Token("diagnostic", j, 0)>>
             /\ next.elements[2 * j] = Said(j)'
  <2>1. CASE j = k
    <3>1. 2 * j - 1 = 2 * m + 1 /\ 2 * j = 2 * m + 1 + 1 /\ 2 * m + 1 \in 1..(2 * m + 1)
      BY <1>1, <2>1
    <3> QED
      BY <1>4, <1>6, <1>8, <2>1, <3>1 DEF d
  <2>2. CASE j # k
    <3>1. /\ j \in 1..m /\ j \in Item
          /\ 2 * j - 1 \in 1..(2 * m) /\ 2 * j \in 1..(2 * m)
          /\ 2 * j - 1 \in 1..(2 * m + 1) /\ 2 * j \in 1..(2 * m + 1)
      BY <1>1, <2>2 DEF Item
    <3>2. Said(j)' = Said(j)
      BY <1>1, <2>2, <3>1 DEF Said
    <3>3. /\ read.elements[2 * j - 1] = <<Token("diagnostic", j, 0)>>
          /\ read.elements[2 * j] = Said(j)
      BY <3>1 DEF Spoken
    <3>4. /\ next.elements[2 * j - 1] = read.elements[2 * j - 1]
          /\ next.elements[2 * j] = read.elements[2 * j]
      BY <1>4, <1>6, <3>1
    <3> QED
      BY <3>2, <3>3, <3>4
  <2> QED
    BY <2>1, <2>2
<1>10. \A j \in Item : (answer'[j].kind # "none" <=> j <= k) /\ (j < k => Complete(j)')
  <2> SUFFICES ASSUME NEW j \in Item
               PROVE  (answer'[j].kind # "none" <=> j <= k) /\ (j < k => Complete(j)')
    OBVIOUS
  <2>1. j \in Nat /\ answer'[k] = r /\ r.kind # "none"
    BY <1>1 DEF Item
  <2>2. CASE j = k
    BY <2>1, <2>2
  <2>3. CASE j # k
    <3>1. answer'[j] = answer[j] /\ (Complete(j)' <=> Complete(j))
      BY <1>1, <2>3 DEF Complete
    <3>2. (answer[j].kind # "none" <=> j <= m) /\ (j < m => Complete(j))
      BY DEF Spoken
    <3>3. j = m => Complete(j)
      <4>1. ASSUME j = m PROVE answer[j].count = answer[j].given
        <5>1. answer[m] \in Record /\ m # 0
          BY <2>1, <4>1 DEF IInv, Recorded, Item
        <5>2. answer[m].count - answer[m].given = 0
          BY <5>1 DEF Spoken
        <5> QED
          BY <4>1, <5>1, <5>2 DEF Record
      <4> QED
        BY <2>1, <3>2, <4>1 DEF Complete
    <3> QED
      BY <1>1, <2>1, <2>3, <3>1, <3>2, <3>3
  <2> QED
    BY <2>2, <2>3
<1>11. k \in 0..request_payload_count' /\ Len(next.elements) = 2 * k
  BY <1>1, <1>6 DEF Item
<1>12. next.missing = IF k = 0 THEN 0 ELSE answer'[k].count - answer'[k].given
  BY <1>1, <1>2, <1>7
<1> QED
  BY <1>1, <1>6, <1>9, <1>10, <1>11, <1>12 DEF Spoken

(* An array goes on.                                                       *)
LEMMA SpokenGoesOn ==
    ASSUME IInv, Announced, NEW read \in Reading, NEW m, Spoken(read, m),
           NEW k \in Item, answer[k].given < answer[k].count,
           answer' = [answer EXCEPT ![k].given = @ + 1], UNCHANGED request_payload_count,
           NEW w, w = Token("element", k, answer[k].given + 1),
           NEW next, next = Take(read, w)
    PROVE  next \in Reading /\ Spoken(next, m)'
<1> DEFINE old == answer[k]
           r == [answer[k] EXCEPT !.given = @ + 1]
<1>1. /\ Item' = Item /\ request_payload_count \in Nat /\ m \in Nat /\ k \in Nat
      /\ \A j \in Item : answer'[j] = IF j = k THEN r ELSE answer[j]
      /\ old \in Record
  BY DEF Item, IInv, Recorded, Spoken
<1>2. /\ old.kind = "array" /\ old.count \in Nat /\ old.given \in Nat
      /\ r.kind = "array" /\ r.count = old.count /\ r.given = old.given + 1
      /\ r \in Record
  BY <1>1 DEF Announced, Record
<1> HIDE DEF r
<1>3. k = m
  <2>1. k <= m /\ ~(k < m)
    BY <1>2 DEF Spoken, Complete
  <2> QED
    BY <1>1, <2>1
<1>4. read.missing = old.count - old.given /\ read.missing > 0 /\ Len(read.elements) = 2 * m
  <2>1. m # 0
    BY <1>3 DEF Item
  <2>2. read.missing = old.count - old.given /\ Len(read.elements) = 2 * m
    BY <1>3, <2>1 DEF Spoken
  <2> QED
    BY <1>2, <2>2
<1>5. w \in Tokens
  BY <1>1, <1>2, TokenInTokens DEF TokenKind
<1>6. /\ Take(read, w) \in Reading
      /\ Take(read, w).missing = read.missing - 1
      /\ Len(Take(read, w).elements) = Len(read.elements)
      /\ \A i \in 1..Len(read.elements) :
           Take(read, w).elements[i] =
               IF i < Len(read.elements) THEN read.elements[i]
               ELSE Append(read.elements[i], w)
  BY <1>4, <1>5, TakeGoesOn
<1>7. /\ next \in Reading /\ next.missing = r.count - r.given
      /\ Len(next.elements) = 2 * m
      /\ \A i \in 1..(2 * m) : next.elements[i] = IF i < 2 * m THEN read.elements[i]
                                                  ELSE Append(read.elements[i], w)
  <2>1. /\ next \in Reading /\ next.missing = read.missing - 1
        /\ Len(next.elements) = 2 * m
        /\ \A i \in 1..(2 * m) : next.elements[i] = IF i < 2 * m THEN read.elements[i]
                                                    ELSE Append(read.elements[i], w)
    BY <1>4, <1>6
  <2>2. read.missing - 1 = r.count - r.given
    BY <1>2, <1>4
  <2> QED
    BY <2>1, <2>2
<1>8. Said(k)' = Append(Said(k), w)
  <2>1. Said(k) = Listed(k, old.count, old.given)
    BY <1>2 DEF Said
  <2>2. Said(k)' = Listed(k, old.count, old.given + 1)
    BY <1>1, <1>2 DEF Said
  <2> HIDE DEF old
  <2>3. Append(Listed(k, old.count, old.given), Token("element", k, old.given + 1))
          = Listed(k, old.count, old.given + 1)
    BY <1>1, <1>2, ListedGrows
  <2> QED
    BY <2>1, <2>2, <2>3 DEF old
<1>9. ASSUME NEW j \in 1..m
      PROVE  /\ next.elements[2 * j - 1] = <<Token("diagnostic", j, 0)>>
             /\ next.elements[2 * j] = Said(j)'
  <2>1. /\ j \in Item /\ 2 * j - 1 \in 1..(2 * m) /\ 2 * j \in 1..(2 * m)
        /\ 2 * j - 1 < 2 * m /\ (2 * j < 2 * m <=> j # m)
    BY <1>1, <1>3 DEF Item
  <2>2. /\ read.elements[2 * j - 1] = <<Token("diagnostic", j, 0)>>
        /\ read.elements[2 * j] = Said(j)
    BY DEF Spoken
  <2>3. next.elements[2 * j - 1] = read.elements[2 * j - 1]
    BY <1>7, <2>1
  <2>4. CASE j = m
    <3>1. next.elements[2 * j] = Append(read.elements[2 * j], w)
      BY <1>7, <2>1, <2>4
    <3> QED
      BY <1>3, <1>8, <2>2, <2>3, <2>4, <3>1
  <2>5. CASE j # m
    <3>1. next.elements[2 * j] = read.elements[2 * j]
      BY <1>7, <2>1, <2>5
    <3>2. Said(j)' = Said(j)
      BY <1>1, <1>3, <2>1, <2>5 DEF Said
    <3> QED
      BY <2>2, <2>3, <3>1, <3>2
  <2> QED
    BY <2>4, <2>5
<1>10. \A j \in Item : (answer'[j].kind # "none" <=> j <= m) /\ (j < m => Complete(j)')
  <2> SUFFICES ASSUME NEW j \in Item
               PROVE  (answer'[j].kind # "none" <=> j <= m) /\ (j < m => Complete(j)')
    OBVIOUS
  <2>1. (answer[j].kind # "none" <=> j <= m) /\ (j < m => Complete(j))
    BY DEF Spoken
  <2>2. CASE j = m
    <3>1. answer'[j] = r /\ j <= m /\ ~(j < m)
      BY <1>1, <1>3, <2>2
    <3> QED
      BY <1>2, <3>1
  <2>3. CASE j # m
    <3>1. answer'[j] = answer[j] /\ (Complete(j)' <=> Complete(j))
      BY <1>1, <1>3, <2>3 DEF Complete
    <3> QED
      BY <2>1, <3>1
  <2> QED
    BY <2>2, <2>3
<1>11. m \in 0..request_payload_count'
  BY DEF Spoken
<1>12. next.missing = IF m = 0 THEN 0 ELSE answer'[m].count - answer'[m].given
  <2>1. m # 0 /\ answer'[m] = r
    BY <1>1, <1>3 DEF Item
  <2> QED
    BY <1>7, <2>1
<1> QED
  BY <1>1, <1>7, <1>9, <1>10, <1>11, <1>12 DEF Spoken

(* When everything was given, a client has read everything.                *)
LEMMA SpokenAll ==
    ASSUME IInv', NEW read \in Reading, NEW m, Spoken(read, m)', \A j \in Item' : Complete(j)'
    PROVE  /\ read.missing = 0
           /\ Len(read.elements) = Elements'
           /\ \A k \in Item' : SubSeq(read.elements, 2 * k - 1, 2 * k) = Given(k)'
<1> DEFINE n == request_payload_count'
           e == read.elements
<1>1. n \in Nat /\ m \in Nat /\ m <= n /\ Item' = 1..n
  BY DEF IInv, Recorded, Spoken, Item
<1>2. m = n
  <2>1. ASSUME m < n PROVE FALSE
    <3>1. n \in Item'
      BY <1>1, <2>1
    <3>2. n <= m
      BY <3>1 DEF Complete, Spoken
    <3> QED
      BY <1>1, <2>1, <3>2
  <2> QED
    BY <1>1, <2>1
<1>3. read.missing = 0
  <2>1. CASE m = 0
    BY <2>1 DEF Spoken
  <2>2. CASE m # 0
    <3>1. m \in Item'
      BY <1>1, <1>2, <2>2
    <3>2. answer'[m].count = answer'[m].given /\ answer'[m] \in Record
      BY <3>1 DEF Complete, IInv, Recorded
    <3>3. answer'[m].count - answer'[m].given = 0
      BY <3>2 DEF Record
    <3> QED
      BY <2>2, <3>3 DEF Spoken
  <2> QED
    BY <2>1, <2>2
<1>4. Len(e) = 2 * n /\ Elements' = 2 * n
  BY <1>1, <1>2 DEF Spoken, Elements
<1>5. ASSUME NEW k \in Item' PROVE SubSeq(e, 2 * k - 1, 2 * k) = Given(k)'
  <2>1. k \in 1..m /\ k \in Nat
    BY <1>1, <1>2
  <2>2. e[2 * k - 1] = <<Token("diagnostic", k, 0)>> /\ e[2 * k] = Said(k)'
    BY <2>1 DEF Spoken
  <2>3. Given(k)' = <<e[2 * k - 1], e[2 * k]>>
    <3>1. answer'[k].given = answer'[k].count /\ answer'[k] \in Record
      BY DEF Complete, IInv, Recorded
    <3>2. Said(k)' = IF answer'[k].kind = "one" THEN <<Token("value", k, 0)>>
                     ELSE <<Token("array", k, answer'[k].count)>>
                          \o [i \in 1..answer'[k].count |-> Token("element", k, i)]
      BY <3>1 DEF Said, Listed
    <3> QED
      BY <2>2, <3>2 DEF Given
  <2>4. e \in Seq(Seq(Tokens)) /\ 2 * k - 1 \in 1..Len(e) /\ 2 * k \in 1..Len(e)
    <3>1. e \in Seq(Seq(Tokens))
      BY DEF Reading
    <3>2. Len(e) = 2 * m /\ m \in Nat
      BY <1>1, <1>2, <1>4
    <3> HIDE DEF e
    <3>3. 2 * k - 1 \in 1..Len(e) /\ 2 * k \in 1..Len(e)
      BY <2>1, <3>2
    <3> QED
      BY <3>1, <3>3
  <2> HIDE DEF e, n
  <2>5. SubSeq(e, 2 * k - 1, 2 * k) = <<e[2 * k - 1], e[2 * k]>>
    <3> DEFINE S == Seq(Tokens)
               i == 2 * k - 1
               s == SubSeq(e, i, 2 * k)
               t == <<e[i], e[2 * k]>>
    <3>1. /\ i \in Int /\ 2 * k \in Int /\ i \in 1..Len(e) /\ i + 1 = 2 * k
          /\ i + 1 \in 1..Len(e) /\ e \in Seq(S)
      BY <2>1, <2>4
    <3> HIDE DEF S, i
    <3>2. /\ s \in Seq(S) /\ Len(s) = 2 /\ s[1] = e[i] /\ s[2] = e[i + 1]
      BY <3>1
    <3>3. /\ t \in Seq(S) /\ Len(t) = 2 /\ t[1] = e[i] /\ t[2] = e[i + 1]
      BY <3>1
    <3> HIDE DEF s, t
    <3>4. \A h \in 1..2 : s[h] = t[h]
      BY <3>2, <3>3
    <3>5. s = t
      BY <3>2, <3>3, <3>4, SeqEqual
    <3> QED
      BY <3>5 DEF s, t, i
  <2> QED
    BY <2>3, <2>5
<1> QED
  BY <1>3, <1>4, <1>5

(* A message is not there before the result is closed; what was written so *)
(* far is read as what was said so far.                                    *)
Reads ==
    /\ open => ~sent.queued
    /\ sequential /\ open /\ ~output_buffer.broken =>
         Content(output_buffer) \in Seq(Tokens)
         /\ \E m \in Nat : Spoken(Taken(Content(output_buffer)), m)
    /\ ReadsAsAnswered

(* The buffer goes on, or is sent or dropped.                              *)
LEMMA ReadsKept ==
    ASSUME IInv', Reads, open, NEW b,
           GoesOn(b) \/ ReleaseResult(b), UNCHANGED <<sequential, request_payload_count>>,
           sequential /\ ~b.broken =>
             Content(b) \in Seq(Tokens) /\ \E m \in Nat : Spoken(Taken(Content(b)), m)',
           sequential /\ ~open' => \A j \in Item' : Complete(j)'
    PROVE  Reads'
<1>1. ~sent.queued /\ sequential' = sequential
  BY DEF Reads
<1>2. CASE open' /\ output_buffer' = b /\ sent' = sent
  <2>1. ~sent'.queued
    BY <1>1, <1>2
  <2> QED
    BY <1>1, <1>2, <2>1 DEF Reads, ReadsAsAnswered
<1>3. CASE ~open' /\ sent' = sent
  <2>1. ~sent'.queued
    BY <1>1, <1>3
  <2> QED
    BY <1>3, <2>1 DEF Reads, ReadsAsAnswered
<1>4. CASE /\ ~open' /\ sent'.elements = Elements
           /\ sent'.broken = b.broken /\ sent'.content = Content(b)
  <2>1. Elements' = Elements
    BY DEF Elements
  <2>2. ASSUME sequential', ~sent'.broken
        PROVE  /\ Taken(sent'.content).missing = 0
               /\ Len(Taken(sent'.content).elements) = sent'.elements
               /\ \A k \in Item' : SubSeq(Taken(sent'.content).elements, 2 * k - 1, 2 * k)
                                     = Given(k)'
    <3>1. Content(b) \in Seq(Tokens)
      BY <1>1, <1>4, <2>2
    <3>2. PICK m \in Nat : Spoken(Taken(Content(b)), m)'
      BY <1>1, <1>4, <2>2
    <3> DEFINE c == Content(b)
    <3>3. PICK read : read = Taken(c) /\ read \in Reading
      <4>1. Token("value", 0, 0) \in Tokens
        BY TokenInTokens DEF TokenKind
      <4> HIDE DEF c
      <4> QED
        BY <3>1, <4>1, TakenAppends DEF c
    <3>4. Spoken(read, m)'
      BY <3>2, <3>3
    <3>5. \A j \in Item' : Complete(j)'
      BY <1>1, <1>4, <2>2
    <3>6. /\ read.missing = 0
          /\ Len(read.elements) = Elements'
          /\ \A k \in Item' : SubSeq(read.elements, 2 * k - 1, 2 * k) = Given(k)'
      BY <3>3, <3>4, <3>5, SpokenAll
    <3>7. Taken(sent'.content) = read
      BY <1>4, <3>3
    <3> QED
      BY <1>4, <2>1, <3>6, <3>7
  <2> QED
    BY <1>4, <2>2 DEF Reads, ReadsAsAnswered
<1>5. CASE GoesOn(b)
  BY <1>2, <1>5 DEF GoesOn
<1>6. CASE ReleaseResult(b)
  <2>1. CASE Remains(b)
    BY <1>2, <2>1 DEF Remains
  <2>2. CASE Sends(b)
    BY <1>4, <2>2 DEF Sends
  <2>3. CASE Drops(b)
    BY <1>3, <2>3 DEF Drops
  <2> QED
    BY <1>6, <2>1, <2>2, <2>3 DEF ReleaseResult
<1> QED
  BY <1>5, <1>6

(* An item is begun in order.                                              *)
LEMMA BegunInOrder ==
    ASSUME IInv, Announced, Reads, sequential, open, NEW k \in Item, answer[k].kind = "none",
           Turn(k), NEW r \in Record, r.given = 0,
           \/ r.kind = "one" /\ r.count = 0
           \/ r.kind = "array",
           answer' = [answer EXCEPT ![k] = r], UNCHANGED request_payload_count,
           NEW w, w = IF r.kind = "one" THEN Token("value", k, 0)
                      ELSE Token("array", k, r.count),
           NEW mid, NEW b, Adds(mid, output_buffer, Token("diagnostic", k, 0)),
           Adds(b, mid, w), ~b.broken
    PROVE  Content(b) \in Seq(Tokens) /\ \E m \in Nat : Spoken(Taken(Content(b)), m)'
<1> DEFINE d == Token("diagnostic", k, 0)
           old == Content(output_buffer)
<1>1. k \in Nat /\ r.count \in Nat /\ request_payload_count \in Nat
  BY DEF IInv, Recorded, Item, Record
<1>2. d \in Tokens /\ w \in Tokens
  BY <1>1, TokenInTokens DEF TokenKind
<1>3. /\ ~mid.broken /\ ~output_buffer.broken
      /\ old \in Seq(Tokens) /\ Content(mid) = Append(old, d)
      /\ Content(mid) \in Seq(Tokens) /\ Content(b) = Append(Content(mid), w)
  BY DEF Adds
<1> HIDE DEF d
<1>4. PICK m \in Nat : Spoken(Taken(old), m)
  BY <1>3 DEF Reads
<1> HIDE DEF old
<1>5. PICK read \in Reading : read = Taken(old)
  BY <1>2, <1>3, TakenAppends
<1>6. Taken(Content(mid)) = Take(read, d)
  BY <1>2, <1>3, <1>5, TakenAppends
<1>7. Taken(Content(b)) = Take(Take(read, d), w)
  BY <1>2, <1>3, <1>6, TakenAppends
<1>8. Spoken(read, m)
  BY <1>4, <1>5
<1>9. k = m + 1
  <2>1. ~(k <= m) /\ m <= request_payload_count /\ k <= request_payload_count
    BY <1>1, <1>8 DEF Spoken, Item
  <2>2. ASSUME m + 1 < k PROVE FALSE
    <3>1. m + 1 \in Item
      BY <1>1, <2>1, <2>2 DEF Item
    <3>2. Complete(m + 1)
      BY <2>2, <3>1 DEF Turn
    <3>3. m + 1 <= m
      BY <1>8, <3>1, <3>2 DEF Spoken, Complete
    <3> QED
      BY <3>3
  <2> QED
    BY <1>1, <2>1, <2>2
<1>10. read.missing = 0
  <2>1. CASE m = 0
    BY <1>8, <2>1 DEF Spoken
  <2>2. CASE m # 0
    <3>1. m \in Item /\ m < k
      BY <1>1, <1>9, <2>2 DEF Item
    <3>2. answer[m].count = answer[m].given /\ answer[m] \in Record
      BY <3>1 DEF Turn, Complete, IInv, Recorded
    <3>3. answer[m].count - answer[m].given = 0
      BY <3>2 DEF Record
    <3> QED
      BY <1>8, <2>2, <3>3 DEF Spoken
  <2> QED
    BY <2>1, <2>2
<1>11. PICK next : next = Take(Take(read, d), w)
  OBVIOUS
<1>12. Spoken(next, k)'
  BY <1>8, <1>9, <1>10, <1>11, SpokenBegins DEF d
<1>13. Taken(Content(b)) = next
  BY <1>7, <1>11
<1>14. Content(b) \in Seq(Tokens)
  BY <1>2, <1>3
<1> QED
  BY <1>1, <1>12, <1>13, <1>14

LEMMA AnswerReads ==
    ASSUME IInv, IInv', Turns, Turns', Reads, NEW k \in Item, Answer(k)
    PROVE  Reads'
<1> DEFINE r == [answer[k] EXCEPT !.kind = "one"]
           w == Token("value", k, 0)
<1>1. /\ answer[k] \in Record /\ answer[k].kind = "none" /\ Turn(k) /\ open
      /\ Announced /\ sequential \in BOOLEAN
  BY DEF Answer, IInv, Recorded, Turns, Counters
<1>2. r \in Record /\ r.kind = "one" /\ r.given = 0 /\ r.count = 0
  BY <1>1 DEF Record, Announced
<1>3. answer' = [answer EXCEPT ![k] = r]
  BY DEF Answer
<1>4. UNCHANGED request_payload_count /\ UNCHANGED sequential
  BY DEF Answer
<1> HIDE DEF r, w
<1>5. PICK b : /\ Follows(b) /\ ReleaseResult(b)
               /\ \E mid : /\ Adds(mid, output_buffer, Token("diagnostic", k, 0))
                           /\ Adds(b, mid, w)
  BY AnswerWrites DEF w
<1>6. PICK mid : Adds(mid, output_buffer, Token("diagnostic", k, 0)) /\ Adds(b, mid, w)
  BY <1>5
<1>7. ASSUME sequential, ~b.broken
      PROVE  Content(b) \in Seq(Tokens) /\ \E m \in Nat : Spoken(Taken(Content(b)), m)'
  <2>1. w = IF r.kind = "one" THEN Token("value", k, 0) ELSE Token("array", k, r.count)
    BY <1>2 DEF w
  <2> QED
    BY <1>1, <1>2, <1>3, <1>4, <1>6, <1>7, <2>1, BegunInOrder
<1>8. sequential /\ ~open' => \A j \in Item' : Complete(j)'
  BY <1>4 DEF Turns, InTurn
<1> QED
  BY <1>1, <1>4, <1>5, <1>7, <1>8, ReadsKept

LEMMA ArrayReads ==
    ASSUME IInv, IInv', Turns, Turns', Reads, NEW k \in Item, AnswerArray(k)
    PROVE  Reads'
<1>1. /\ answer[k].kind = "none" /\ Turn(k) /\ open /\ Announced
      /\ UNCHANGED request_payload_count /\ UNCHANGED sequential
  BY DEF AnswerArray, Turns
<1>0. PICK count \in 0..MaxElements : \E b : WritesArray(k, count, b)
  BY ArrayWrites
<1>2. PICK b :
        /\ answer' = [answer EXCEPT ![k] = [kind |-> "array", count |-> count, given |-> 0]]
        /\ Follows(b)
        /\ \/ count > 0 /\ remaining_subresults' = count /\ GoesOn(b)
           \/ count = 0 /\ UNCHANGED remaining_subresults /\ ReleaseResult(b)
        /\ \E mid : /\ Adds(mid, output_buffer, Token("diagnostic", k, 0))
                    /\ Adds(b, mid, Token("array", k, count))
  BY <1>0 DEF WritesArray
<1> DEFINE r == [kind |-> "array", count |-> count, given |-> 0]
           w == Token("array", k, count)
<1>3. r \in Record /\ r.kind = "array" /\ r.given = 0 /\ r.count = count
  BY AnswersAssumption DEF Record
<1>4. answer' = [answer EXCEPT ![k] = r]
  BY <1>2
<1> HIDE DEF r, w
<1>5. PICK mid : Adds(mid, output_buffer, Token("diagnostic", k, 0)) /\ Adds(b, mid, w)
  BY <1>2 DEF w
<1>6. ASSUME sequential, ~b.broken
      PROVE  Content(b) \in Seq(Tokens) /\ \E m \in Nat : Spoken(Taken(Content(b)), m)'
  <2>1. w = IF r.kind = "one" THEN Token("value", k, 0) ELSE Token("array", k, r.count)
    BY <1>3 DEF w
  <2> QED
    BY <1>1, <1>3, <1>4, <1>5, <1>6, <2>1, BegunInOrder
<1>7. sequential /\ ~open' => \A j \in Item' : Complete(j)'
  BY <1>1 DEF Turns, InTurn
<1>8. GoesOn(b) \/ ReleaseResult(b)
  BY <1>2
<1> QED
  BY <1>1, <1>6, <1>7, <1>8, ReadsKept

LEMMA ElementReads ==
    ASSUME IInv, IInv', Turns, Turns', Reads, NEW k \in Item, AnswerElement(k)
    PROVE  Reads'
<1> DEFINE w == Token("element", k, answer[k].given + 1)
           old == Content(output_buffer)
<1>1. /\ open /\ answer[k].given < answer[k].count /\ Announced
      /\ answer' = [answer EXCEPT ![k].given = @ + 1]
      /\ UNCHANGED request_payload_count /\ UNCHANGED sequential
  BY ElementReleases DEF Turns
<1>2. PICK b : /\ Follows(b)
               /\ \/ LastElement /\ ReleaseResult(b)
                  \/ ~LastElement /\ GoesOn(b)
               /\ Adds(b, output_buffer, w)
  BY ElementWrites
<1>3. w \in Tokens
  <2>1. answer[k] \in Record /\ k \in Nat
    BY DEF IInv, Recorded, Item
  <2>2. answer[k].given + 1 \in Nat
    BY <2>1 DEF Record
  <2> QED
    BY <2>1, <2>2, TokenInTokens DEF TokenKind
<1>4. PICK word : word = w
  OBVIOUS
<1>5. word \in Tokens /\ Adds(b, output_buffer, word)
      /\ word = Token("element", k, answer[k].given + 1)
  BY <1>2, <1>3, <1>4
<1> HIDE DEF w
<1>6. ASSUME sequential, ~b.broken
      PROVE  Content(b) \in Seq(Tokens) /\ \E m \in Nat : Spoken(Taken(Content(b)), m)'
  <2>1. /\ ~output_buffer.broken /\ old \in Seq(Tokens) /\ Content(b) = Append(old, word)
    BY <1>5, <1>6 DEF Adds
  <2>2. PICK m \in Nat : Spoken(Taken(old), m)
    BY <1>1, <1>6, <2>1 DEF Reads
  <2> HIDE DEF old
  <2>3. PICK read \in Reading : read = Taken(old)
    BY <1>5, <2>1, TakenAppends
  <2>4. Taken(Content(b)) = Take(read, word)
    BY <1>5, <2>1, <2>3, TakenAppends
  <2>5. Spoken(read, m)
    BY <2>2, <2>3
  <2>6. PICK next : next = Take(read, word)
    OBVIOUS
  <2>7. Spoken(next, m)'
    BY <1>1, <1>5, <2>5, <2>6, SpokenGoesOn
  <2>8. Taken(Content(b)) = next
    BY <2>4, <2>6
  <2>9. Content(b) \in Seq(Tokens)
    BY <1>5, <2>1
  <2> QED
    BY <2>7, <2>8, <2>9
<1>7. sequential /\ ~open' => \A j \in Item' : Complete(j)'
  BY <1>1 DEF Turns, InTurn
<1>8. GoesOn(b) \/ ReleaseResult(b)
  BY <1>2
<1> QED
  BY <1>1, <1>6, <1>7, <1>8, ReadsKept

LEMMA RequestReads == IInv' /\ Request => Reads'
<1> SUFFICES ASSUME IInv', Request PROVE Reads'
  OBVIOUS
<1>1. PICK n \in 0..MaxPayload : request_payload_count' = n
                                 /\ answer' = [k \in 1..n |-> NoAnswer]
  BY DEF Request
<1>2. ~sent'.queued /\ output_buffer' = EmptyBuffer
  BY DEF Request, NoMessage
<1>3. Content(EmptyBuffer) = <<>> /\ <<>> \in Seq(Tokens)
  BY EmptyIsSized
<1>4. n \in Nat /\ Item' = 1..n /\ \A j \in 1..n : answer'[j].kind = "none"
  BY <1>1, AnswersAssumption DEF Item, NoAnswer
<1>5. Spoken(Nothing, 0)'
  <2>1. Len(Nothing.elements) = 2 * 0 /\ Nothing.missing = 0
    BY DEF Nothing
  <2>2. 0 \in 0..request_payload_count'
    BY <1>1, <1>4
  <2> QED
    BY <1>4, <2>1, <2>2 DEF Spoken
<1>6. Spoken(Taken(<<>>), 0)'
  BY <1>5, TakenNothing
<1>7. (sequential /\ open /\ ~output_buffer.broken =>
         Content(output_buffer) \in Seq(Tokens)
         /\ \E m \in Nat : Spoken(Taken(Content(output_buffer)), m))'
  <2>1. PICK c : c = <<>>
    OBVIOUS
  <2>2. Spoken(Taken(c), 0)' /\ Content(output_buffer)' = c /\ c \in Seq(Tokens)
    BY <1>2, <1>3, <1>6, <2>1
  <2>3. 0 \in Nat
    OBVIOUS
  <2> QED
    BY <2>2, <2>3
<1> QED
  BY <1>2, <1>7 DEF Reads, ReadsAsAnswered

LEMMA ReadsStays ==
    ASSUME Reads, UNCHANGED <<sequential, open, counters, answer, output_buffer, sent>>
    PROVE  Reads'
<1>1. ReadsAsAnswered' <=> ReadsAsAnswered
  BY DEF ReadsAsAnswered, Item, Given, counters
<1>2. \A m : Spoken(Taken(Content(output_buffer)), m)'
               <=> Spoken(Taken(Content(output_buffer)), m)
  BY DEF Spoken, Said, Complete, Item, counters
<1> QED
  BY <1>1, <1>2 DEF Reads

(* A client that reads a message by its heads alone finds what the         *)
(* application said, about every item, when that answers in order.         *)
THEOREM ReadsAsAnsweredCorrect == Spec => []ReadsAsAnswered
<1>1. Init => Reads
  BY DEF Init, Reads, ReadsAsAnswered, NoMessage
<1>2. ASSUME IInv, IInv', Turns, Turns', Reads, [Next]_vars PROVE Reads'
  <2>1. CASE Request
    BY <1>2, <2>1, RequestReads
  <2>2. CASE SessionEnd
    BY <1>2, <2>2, ReadsStays DEF SessionEnd
  <2>3. ASSUME NEW k \in Item, Answer(k) PROVE Reads'
    BY <1>2, <2>3, AnswerReads
  <2>4. ASSUME NEW k \in Item, AnswerArray(k) PROVE Reads'
    BY <1>2, <2>4, ArrayReads
  <2>5. ASSUME NEW k \in Item, AnswerElement(k) PROVE Reads'
    BY <1>2, <2>5, ElementReads
  <2>6. CASE UNCHANGED vars
    BY <1>2, <2>6, ReadsStays DEF vars
  <2> QED
    BY <1>2, <2>1, <2>2, <2>3, <2>4, <2>5, <2>6 DEF Next, AnswerItem
<1>3. Reads => ReadsAsAnswered
  BY DEF Reads
<1> QED
  BY <1>1, <1>2, <1>3, InvCorrect, TurnsCorrect, PTL DEF Spec
=============================================================================
