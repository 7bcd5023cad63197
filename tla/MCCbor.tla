------------------------------- MODULE MCCbor -------------------------------
(* Messages for Cbor: what TLC gives the reader.                           *)
EXTENDS Cbor

Widths == <<1, 2, 3, 4>>

C(type, children) == [Number(type, 0) EXCEPT !.children = children]

(* A known key, one of the same length and one of another length.          *)
k == <<7>>
u == <<8>>
w == <<7, 7>>
Keys == {k}

(* A handler of each kind, at their ids.                                   *)
Registered == MessageHandlers({"unsubscribe", "readdata"})
Handlers == [i \in DOMAIN Registered |-> HandlerKind(Registered[i])]
Id(name) == (CHOOSE i \in DOMAIN Registered : Registered[i] = name) - 1

(* The texts of the library are other keys.                                *)
Names ==
    LET all == General \o Callbacks
               \o <<"role", "methods", "value", "timestamp", "status", "key", "retain",
                    "token", "id", "priority", "message", "acknowledged", "name",
                    "title", "description", "type">>
    IN [name \in ToSet(all) |-> <<20 + CHOOSE i \in DOMAIN all : all[i] = name>>]

Zero == Number("UINT64", 0)
Word == Text("TEXT_STRING", <<1, 2>>)
Blob == Text("BYTE_STRING", <<3>>)

(* Numbers on both sides of each limit.                                    *)
Numbers ==
    LET edges == {ADDITONAL_BYTES_1} \cup {Limit(i) : i \in 1..3}
    IN {0, Limit(4) - 1} \cup edges \cup {n - 1 : n \in edges}

Scalars ==
    {Number("UINT64", n) : n \in Numbers}
    \cup {Number("INT64", -1 - n) : n \in (Numbers \ {Limit(4) - 1}) \cup {Limit(4) \div 2 - 1}}
    \cup {Number(t, 0) : t \in {"FALSE", "TRUE", "NULL", "UNDEFINED"}}
    \cup {Number("SIMPLE_VALUE", n) : n \in {0, ADDITONAL_BYTES_1, Limit(1) - 1}}
    \cup {Leaf("FLOAT", 9, <<2>>), Leaf("FLOAT", 10, <<3>>), Leaf("DOUBLE", 11, <<4>>)}

Strings ==
    {Text(t, s) : t \in {"BYTE_STRING", "TEXT_STRING"}, s \in {<<>>, <<1>>, <<1, 2>>}}
    \cup {Text("TEXT_STRING", [i \in 1..Limit(1) |-> 1])}

Containers ==
    {C("ARRAY", <<>>), C("MAP", <<>>), C("ARRAY", <<Zero, Word>>),
     C("MAP", <<Word, Zero>>), C("ARRAY", <<C("ARRAY", <<Zero>>), Blob>>),
     C("MAP", <<Zero, C("MAP", <<>>)>>),
     [C("TAG", <<C("ARRAY", <<Blob>>)>>) EXCEPT !.value = ADDITONAL_BYTES_1]}

-----------------------------------------------------------------------------
Item(list) ==
    WriteUint32(Map, Len(list))
    \o FlattenSeq([i \in DOMAIN list |-> WriteText(list[i].key) \o list[i].bytes])

Pair(key_, v, e) == [key |-> key_, value |-> v, bytes |-> e]
Spelled(key_, v) == {Pair(key_, v, e) : e \in Encodings(v)}
Plain(key_, v) == Pair(key_, v, Write(v))

Said(list) ==
    LET known == {i \in DOMAIN list : list[i].key = k}
        others == SelectSeq(list, LAMBDA p : p.key # k)
    IN [map |-> [key_ \in Keys |->
                   IF known = {} THEN Null
                   ELSE list[CHOOSE i \in known : \A j \in known : j <= i].value],
        additional |-> [i \in DOMAIN others |->
                          [key |-> others[i].key, value |-> others[i].value]]]

(* A hello comes with any id.                                              *)
Start(hello, count) == MessageHead(IF hello THEN Len(Registered) ELSE Id("readdata"), 1, count)

Message(items, hello, kind) ==
    [bytes |-> Start(hello, Len(items)) \o FlattenSeq([i \in DOMAIN items |-> Item(items[i])]),
     hello |-> hello, kind |-> kind,
     said |-> IF kind = "meant" THEN [i \in DOMAIN items |-> Said(items[i])] ELSE <<>>]

(* One value in every spelling.                                            *)
Values ==
    {Message(<<<<p>>>>, FALSE, "meant") :
        p \in UNION {Spelled(k, v) : v \in Scalars \cup Strings \cup Containers}}

(* A value that an application made and the library writes: a number of    *)
(* signed type that is not negative arrives as an unsigned one.            *)
Written ==
    {Message(<<<<Plain(k, v)>>>>, FALSE, "meant") :
        v \in {x \in Scalars \cup Strings \cup Containers : ~HasHalf(x)}}
    \cup {Message(<<<<Pair(k, Zero, Write(Number("INT64", 0)))>>>>, FALSE, "meant")}

(* Several pairs with known, unknown and repeated keys, several items.     *)
Items ==
    LET pair == {Plain(key_, v) : key_ \in {k, u, w}, v \in {Zero, C("ARRAY", <<Word>>)}}
    IN {<<>>} \cup {<<p>> : p \in pair} \cup {<<p, q>> : p \in pair, q \in pair}
       \cup {<<Plain(k, Zero), Plain(u, Word), p>> : p \in pair}

Short == {<<>>, <<Plain(k, Word)>>, <<Plain(u, Zero), Plain(k, Blob)>>}

Several ==
    {Message(<<i>>, hello, "meant") : i \in Items, hello \in BOOLEAN}
    \cup {Message(<<i, j>>, FALSE, "meant") : i \in Short, j \in Short}

(* Messages that break off.                                                *)
CutOff ==
    UNION {{[m EXCEPT !.bytes = SubSeq(@, 1, n), !.kind = "broken", !.said = <<>>] :
                n \in 0..Len(m.bytes) - 1} :
           m \in Several \cup {x \in Values : Len(x.bytes) < 12}}

(* What may not be where it is.                                            *)
Bad ==
    {Text("BAD", b) : b \in {<<StopCode>>, <<ConstructHeader(Tag, Indefinite), 0>>,
                          <<ConstructHeader(UnsignedInteger, Indefinite)>>,
                          <<ConstructHeader(UnsignedInteger, ADDITONAL_BYTES_1 + 4)>>,
                          Marked(ByteString, Write(Blob) \o Write(Word)),
                          Marked(TextString, Write(Zero)),
                          Marked(Map, Write(Word)),
                          Marked(Map, Write(Word) \o Write(Zero) \o Write(Zero))}}

Wrong ==
    LET trees == Bad \cup UNION {{C("ARRAY", <<b>>), C("ARRAY", <<Word, b>>),
                                  C("MAP", <<Zero, b>>), C("ARRAY", <<b, Zero>>),
                                  C("TAG", <<b>>)} : b \in Bad}
    IN {Message(<<<<p>>>>, FALSE, "broken") : p \in UNION {Spelled(k, v) : v \in trees}}

(* Any short sequences of bytes that mean something, as a value and what   *)
(* comes behind it.                                                        *)
Noise ==
    LET some == {0, StopCode, ConstructHeader(Array, Indefinite), ConstructHeader(Array, 2),
                 ConstructHeader(ByteString, Indefinite), ConstructHeader(ByteString, 1),
                 ConstructHeader(Map, 1), ConstructHeader(Tag, 0)}
        start == Start(FALSE, 2) \o WriteUint32(Map, 2) \o WriteText(k)
    IN {[bytes |-> start \o s, hello |-> FALSE, kind |-> "noise",
         said |-> <<>>] : s \in BoundedSeq(some, 4)}

-----------------------------------------------------------------------------
(* Maps that the library composes, of any of the fields they can have.     *)
Composed(item, list) ==
    [bytes |-> Start(FALSE, 1) \o item, hello |-> FALSE, kind |-> "composed",
     said |-> <<Said(list)>>]

Field(name, optional) ==
    [i \in DOMAIN optional |-> [key |-> Names[name], value |-> optional[i]]]

Maybe(v) == {<<>>, <<v>>}
Moment == Leaf("DOUBLE", 11, <<4>>)
Few == Number("UINT64", 3)
Many == Number("UINT64", Limit(2))
Truth == {Number("FALSE", 0), Number("TRUE", 0)}
Others == {<<>>, <<[key |-> u, value |-> Zero], [key |-> w, value |-> Blob]>>}

DataItems ==
    {Composed(DataItem(v, t, s, o),
              Field("value", v) \o Field("timestamp", t) \o Field("status", s) \o o) :
        v \in Maybe(Zero) \cup {<<C("ARRAY", <<Word>>)>>}, t \in Maybe(Moment),
        s \in Maybe(Many), o \in Others}

AlarmItems ==
    {Composed(AlarmItem(Word, r, t, i, m, p, e, a, o),
              Field("key", <<Word>>) \o Field("retain", <<r>>) \o Field("token", t)
              \o Field("id", i) \o Field("timestamp", m) \o Field("priority", p)
              \o Field("message", e) \o Field("acknowledged", <<a>>) \o o) :
        r \in Truth, t \in Maybe(Blob), i \in Maybe(Zero), m \in Maybe(Moment),
        p \in Maybe(Few), e \in Maybe(Word), a \in Truth, o \in Others}

BrowseItems ==
    {Composed(BrowseItem(i, n, t, d, y, o),
              Field("id", i) \o Field("name", n) \o Field("title", t)
              \o Field("description", d) \o Field("type", y) \o o) :
        i \in Maybe(Zero), n \in Maybe(Word), t \in Maybe(Word), d \in Maybe(Word),
        y \in Maybe(Few), o \in Others}

(* The client finds every method with its type, where its number is.       *)
Hellos ==
    LET types == "publish" :> 0 @@ "processed" :> 0 @@ "result" :> 0
                 @@ "unsubscribe" :> 1 @@ "subscribedata" :> 3 @@ "subscribealarm" :> 4
        method(m) == <<Text("TEXT_STRING", Names[m]), Number("UINT64", types[m])>>
        all(callbacks) ==
            <<"publish", "processed", "result">>
            \o SelectSeq(<<"unsubscribe", "subscribedata", "subscribealarm">>,
                         LAMBDA m : m \in callbacks)
        methods(callbacks) == FlattenSeq([i \in DOMAIN all(callbacks) |->
                                            method(all(callbacks)[i])])
    IN {Composed(HelloReply(c), Field("role", <<Number("UINT64", 1)>>)
                                \o Field("methods", <<C("ARRAY", methods(c))>>)) :
            c \in SUBSET {"unsubscribe", "subscribedata", "subscribealarm"}}

-----------------------------------------------------------------------------
(* Messages of every kind of handler, with the numbers of their heads in   *)
(* every form, and with more, fewer or other things behind it.             *)
Forms(type, n) ==
    {WriteForm(type, n, i) : i \in {j \in 1..3 : n < Limit(j)}}
    \cup {WriteForm(type, n, 0) : j \in {x \in {n} : x < ADDITONAL_BYTES_1}}

Made(array, id, rest, kind, said) ==
    [bytes |-> array \o id \o WriteUint32(UnsignedInteger, Limit(1)) \o rest,
     hello |-> FALSE, kind |-> kind, said |-> said]

Plainly(n) == WriteUint32(UnsignedInteger, n)

Dispatchable ==
    LET ids(list) == [i \in DOMAIN list |-> GivenId(list[i])]
        numbers(list) == FlattenSeq([i \in DOMAIN list |-> Plainly(list[i])])
        some == {<<0>>, <<Limit(2)>>, <<3, Limit(1)>>}
        good(name, count, rest, said) ==
            {Made(a, b, rest, "meant", said) :
                a \in Forms(Array, 2 + count), b \in Forms(UnsignedInteger, Id(name))}
        other(kind, array, id, rest) == {Made(array, id, rest, kind, <<>>)}
        array(n) == WriteUint32(Array, n)
    IN  UNION {good("unsubscribe", Len(s), numbers(s), ids(s)) : s \in some}
        \cup good("processed", 0, <<>>, <<>>) \cup good("readdata", 0, <<>>, <<>>)
        \cup good("readdata", 1, Item(<<>>), <<Said(<<>>)>>)
        \cup other("broken", array(3), Plainly(Id("processed")), Plainly(0))
        \cup other("broken", array(2), Plainly(Id("readdata")), Item(<<>>))
        \cup other("broken", array(4), Plainly(Id("readdata")), Item(<<>>))
        \cup other("broken", array(3), Plainly(Len(Registered)), Item(<<>>))
        \cup other("broken", array(1), <<>>, <<>>) \cup other("broken", array(0), <<>>, <<>>)
        \cup other("broken", WriteUint32(Map, 2), Plainly(Id("processed")), <<>>)
        \cup other("broken", array(2), WriteUint32(TextString, Id("processed")), <<>>)
        \cup other("broken", array(4), Plainly(Id("unsubscribe")),
                    WriteUint32(NegativeInteger, 1) \o Plainly(1))
        \cup other("broken", array(4), Plainly(Id("unsubscribe")), Plainly(1))
        \cup other("noise", array(3), Plainly(Id("unsubscribe")), Plainly(1) \o Plainly(1))
        \cup other("noise", array(2), Plainly(Id("unsubscribe")), <<>>)
        \cup UNION {other("noise", array(n), Plainly(Id(m)), <<>>) :
                        n \in {2, 3}, m \in {"publish", "result"}}
        \cup {[m EXCEPT !.hello = TRUE] :
                 m \in other("broken", array(2), Plainly(Id("processed")), <<>>)}

Requests == Values \cup Written \cup Several \cup CutOff \cup Wrong \cup Noise
            \cup Dispatchable \cup DataItems \cup AlarmItems \cup BrowseItems \cup Hellos
=============================================================================
