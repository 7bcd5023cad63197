----------------------------- MODULE CborReader -----------------------------
(***************************************************************************)
(* Taking a message apart: its head, its handler and the loop over its     *)
(* items (wpcp.c), the maps of keys and values, and the recursive reader   *)
(* of values (wpcp_cbor.c) with all its memory.                            *)
(*                                                                         *)
(* The recursion of the reader is the sequence "stack" of the values that  *)
(* are open, outermost first; a call that has ended leaves its result in   *)
(* "returned".  Every allocation may fail.  All of it is one call for the  *)
(* rest of the library; the steps are here because what is allocated and   *)
(* who has to free it changes from step to step.  The build is one whose   *)
(* size_t is as wide as the longest number.                                *)
(***************************************************************************)
EXTENDS CborHeader, FiniteSets

CONSTANTS
    Request,   \* what arrives: see RequestAssumption
    Handler,   \* kind of each message handler: "none", "processed", "ids", "items"
    Key,       \* the keys of map_items: sequences of bytes
    MaxCells,  \* bound: values allocated at one time
    Null,      \* the NULL pointer
    None       \* no call has just returned

(* A request is a message: its bytes, and whether it has to be a hello     *)
(* because none has come yet.  The rest is for the properties: "said" are  *)
(* the items that a "meant" message stands for; a "composed" one comes     *)
(* from this library at the other end; a "broken" one breaks off or holds  *)
(* what may not be there; "noise" may be anything.                         *)
ASSUME RequestAssumption ==
    \A r \in Request :
        /\ r.bytes \in Seq(0..Byte - 1)
        /\ r.hello \in BOOLEAN
        /\ r.kind \in {"meant", "composed", "broken", "noise"}

ASSUME HandlerAssumption == Handler \in Seq({"none", "processed", "ids", "items"})

(* The keys of map_items are counted, and the pointers differ.             *)
ASSUME KeyAssumption == IsFiniteSet(Key)

ASSUME MaxCellsAssumption ==
    MaxCells \in Nat /\ Null # None /\ {Null, None} \cap (1..MaxCells) = {}

Cell == 1..MaxCells

VARIABLES
    request,     \* the message
    begin,       \* read_buffer.begin
    handler,     \* kind of its handler, or "hello", or "unknown" before
    remaining,   \* item.remaining, payload_count
    phase,       \* where the loops are; "asserted" when an assertion stopped them
    item_count,  \* pairs of the current map still to be read
    key,         \* the key that was read last
    stack,       \* open values: [cell, length], length may be StopCode
    returned,    \* None, or what the last call returned
    heap,        \* the allocated values: [type, value, data, children]
    map,         \* map_items: values of the known keys
    additional,  \* pairs with other keys
    room,        \* pairs that "additional" was allocated for
    ret,         \* all items could be read
    handled,     \* history: what the application was given
    denied       \* history: an allocation failed

calls == <<stack, returned>>
pairs == <<map, additional, room>>
loops == <<handler, remaining, phase, item_count, key, ret>>
vars == <<request, begin, loops, calls, heap, pairs, handled, denied>>

Init ==
    /\ request \in Request
    /\ begin = 0
    /\ handler = "unknown"
    /\ remaining = 0
    /\ phase = "head"
    /\ item_count = 0
    /\ key = <<>>
    /\ stack = <<>>
    /\ returned = None
    /\ heap = <<>>
    /\ map = [k \in Key |-> Null]
    /\ additional = <<>>
    /\ room = 0
    /\ ret = TRUE
    /\ handled = <<>>
    /\ denied = FALSE

bytes == request.bytes

Allocated == DOMAIN heap

-----------------------------------------------------------------------------
(* Values                                                                  *)

(* A cell with all that hangs from it: what is in every set that holds it  *)
(* and the children of all it holds.                                       *)
Tree(c) ==
    LET closed == {cells \in SUBSET Allocated :
                     c \in cells /\ \A d \in cells : Range(heap[d].children) \subseteq cells}
    IN {d \in Allocated : \A cells \in closed : d \in cells}

(* wpcp_value_free: what is left of the heap.                              *)
Without(cells) == [c \in Allocated \ cells |-> heap[c]]

Freed(c) == Without(Tree(c))

(* The value without its memory, to be compared with what was meant.       *)
Denoted(c) ==
    LET value[d \in Allocated] ==
          [type |-> heap[d].type, value |-> heap[d].value, data |-> heap[d].data,
           children |-> [i \in DOMAIN heap[d].children |-> value[heap[d].children[i]]]]
    IN value[c]

DenotedPointer(c) == IF c = Null THEN Null ELSE Denoted(c)

(* A value without children: a number, or data and as value its length.    *)
Leaf(type, value, data) ==
    [type |-> type, value |-> value, data |-> data, children |-> <<>>]

Number(type, n) == Leaf(type, n, <<>>)

Text(type, text) == Leaf(type, Len(text), text)

(* Mutant: the complement is taken as a distance from zero.                *)
Negative_Minus(n) == IF n < Limit(4) \div 2 THEN -n ELSE Limit(4) - n

(* ~value as a signed number of the widest form.                           *)
Negative(n) == IF n < Limit(4) \div 2 THEN -1 - n ELSE Limit(4) - 1 - n

(* The numbers of major type 7 that are written as numbers.                *)
SimpleValue(n) ==
    CASE n = SimpleFalse -> Number("FALSE", 0)
      [] n = SimpleTrue -> Number("TRUE", 0)
      [] n = SimpleNull -> Number("NULL", 0)
      [] n = SimpleUndefined -> Number("UNDEFINED", 0)
      [] OTHER -> Number("SIMPLE_VALUE", n)

(* A value that has no further parts.  Of a floating point number the bits *)
(* are kept, with the form they came in as data: the number they stand for *)
(* is not computed.                                                        *)
Scalar(h) ==
    CASE h.type = UnsignedInteger -> Number("UINT64", h.value)
      [] h.type = NegativeInteger -> Number("INT64", Negative(h.value))
      [] h.type = FloatAndSimple ->
            CASE h.info = ADDITONAL_BYTES_1 + 1 -> Leaf("FLOAT", h.value, <<2>>)
              [] h.info = ADDITONAL_BYTES_1 + 2 -> Leaf("FLOAT", h.value, <<3>>)
              [] h.info = ADDITONAL_BYTES_1 + 3 -> Leaf("DOUBLE", h.value, <<4>>)
              [] OTHER -> SimpleValue(h.value)

ContainerType(h) ==
    CASE h.type = ByteString -> "BYTE_STRING"
      [] h.type = TextString -> "TEXT_STRING"
      [] h.type = Array -> "ARRAY"
      [] h.type = Map -> "MAP"
      [] h.type = Tag -> "TAG"

IsString(type) == type \in {"BYTE_STRING", "TEXT_STRING"}

(* How many values hang from a value; None: as many as there are before a  *)
(* break.  The pairs of a map are doubled in the widest unsigned type.     *)
Parts(h) ==
    CASE h.info = Indefinite -> None
      [] h.info # Indefinite /\ h.type = Array -> h.value
      [] h.info # Indefinite /\ h.type = Map -> (2 * h.value) % Limit(4)
      [] h.info # Indefinite /\ h.type = Tag -> 1

-----------------------------------------------------------------------------
(* wpcp_cbor_read_buffer_read_wpcp_value and what it calls                 *)

Put(c, v) == [d \in Allocated \cup {c} |-> IF d = c THEN v ELSE heap[d]]

NewCell == CHOOSE c \in Cell \ Allocated : \A d \in Cell \ Allocated : c <= d

Open == Last(stack)

Children == heap[Open.cell].children

(* The open value has all its parts: the test of the loops.                *)
Complete ==
    IF Open.parts = None
    THEN Available(bytes, begin, 1) /\ bytes[begin + 1] = StopCode
    ELSE Len(Children) = Open.parts

(* A call of the reader starts: for a value of the map, or for a part of   *)
(* the open value.                                                         *)
Calling ==
    /\ phase = "value"
    /\ returned = None
    /\ stack # <<>> => ~Complete

Return(pointer) ==
    /\ returned' = pointer
    /\ UNCHANGED <<request, loops, pairs, handled>>

(* The message ends, or the head is none that is allowed here.             *)
ReadInvalid ==
    LET h == ReadHeader64(bytes, begin) IN
    /\ Calling
    /\ ~h.ok
    /\ begin' = h.begin
    /\ Return(Null)
    /\ UNCHANGED <<stack, heap, denied>>

(* wpcp_value_alloc fails.                                                 *)
ReadDenied ==
    LET h == ReadHeader64(bytes, begin) IN
    /\ Calling
    /\ h.ok
    /\ begin' = h.begin
    /\ denied' = TRUE
    /\ Return(Null)
    /\ UNCHANGED <<stack, heap>>

ReadScalar ==
    LET h == ReadHeader64(bytes, begin) IN
    /\ Calling
    /\ h.ok
    /\ h.type \in {UnsignedInteger, NegativeInteger, FloatAndSimple}
    /\ Allocated # Cell
    /\ begin' = h.begin
    /\ heap' = Put(NewCell, Scalar(h))
    /\ Return(NewCell)
    /\ UNCHANGED <<stack, denied>>

(* Mutant: the length of a string is not compared with the message.        *)
ReadString_Unchecked ==
    LET h == ReadHeader64(bytes, begin) IN
    /\ Calling
    /\ h.ok
    /\ h.type \in {ByteString, TextString} /\ h.info # Indefinite
    /\ Allocated # Cell
    /\ begin' = h.begin + h.value
    /\ heap' = Put(NewCell, Number(ContainerType(h), h.value))
    /\ Return(NewCell)
    /\ UNCHANGED <<stack, denied>>

(* A string in one piece.  Its bytes stay in the message; one that is too  *)
(* long for it is allocated, found out and freed.                          *)
ReadString ==
    LET h == ReadHeader64(bytes, begin) IN
    /\ Calling
    /\ h.ok
    /\ h.type \in {ByteString, TextString} /\ h.info # Indefinite
    /\ Allocated # Cell
    /\ begin' = h.begin + h.value
    /\ IF Available(bytes, h.begin, h.value)
       THEN /\ heap' = Put(NewCell, Text(ContainerType(h),
                                         SubSeq(bytes, h.begin + 1, h.begin + h.value)))
            /\ Return(NewCell)
       ELSE /\ Return(Null)
            /\ UNCHANGED heap
    /\ UNCHANGED <<stack, denied>>

(* A value with parts is opened; its parts are read before it returns.     *)
ReadContainer ==
    LET h == ReadHeader64(bytes, begin) IN
    /\ Calling
    /\ h.ok
    /\ \/ h.type \in {Array, Map, Tag}
       \/ h.type \in {ByteString, TextString} /\ h.info = Indefinite
    /\ Allocated # Cell
    /\ begin' = h.begin
    /\ heap' = Put(NewCell, Number(ContainerType(h), IF h.type = Tag THEN h.value ELSE 0))
    /\ stack' = Append(stack, [cell |-> NewCell, parts |-> Parts(h)])
    /\ Return(None)
    /\ UNCHANGED denied

(* There is a part; a string in pieces takes only pieces of its own type.  *)
Fits ==
    LET type == heap[Open.cell].type
    IN returned \in Cell /\ (IsString(type) => heap[returned].type = type)

(* A part was read and is linked to the open value.                        *)
Link ==
    /\ stack # <<>>
    /\ Fits
    /\ heap' = [heap EXCEPT ![Open.cell].children = Append(@, returned)]
    /\ Return(None)
    /\ UNCHANGED <<begin, stack, denied>>

(* Mutant: a piece of the wrong type is not among what is freed.           *)
Abandon_PieceLost ==
    /\ stack # <<>>
    /\ returned # None
    /\ ~Fits
    /\ heap' = Without(Tree(Open.cell))
    /\ stack' = Front(stack)
    /\ Return(Null)
    /\ UNCHANGED <<begin, denied>>

(* A part could not be read, or is a piece of the wrong type: the open     *)
(* value is freed with the parts it has.                                   *)
Abandon ==
    /\ stack # <<>>
    /\ returned # None
    /\ ~Fits
    /\ heap' = Without(Tree(Open.cell) \cup IF returned = Null THEN {} ELSE Tree(returned))
    /\ stack' = Front(stack)
    /\ Return(Null)
    /\ UNCHANGED <<begin, denied>>

Closing ==
    /\ phase = "value"
    /\ returned = None
    /\ stack # <<>>
    /\ Complete
    /\ begin' = IF Open.parts = None THEN begin + 1 ELSE begin
    /\ stack' = Front(stack)

(* Mutant: a key without a value at the end of a map is kept.              *)
Close_Odd ==
    /\ Closing
    /\ ~IsString(heap[Open.cell].type)
    /\ Return(Open.cell)
    /\ UNCHANGED <<heap, denied>>

(* An array, a map or a tag is complete.  A map needs a value to each key. *)
Close ==
    /\ Closing
    /\ ~IsString(heap[Open.cell].type)
    /\ IF heap[Open.cell].type = "MAP" /\ Len(Children) % 2 = 1
       THEN heap' = Freed(Open.cell) /\ Return(Null)
       ELSE Return(Open.cell) /\ UNCHANGED heap
    /\ UNCHANGED denied

(* The pieces of a string are copied behind its value and freed.           *)
Join ==
    /\ Closing
    /\ IsString(heap[Open.cell].type)
    /\ heap' = LET joined == FlattenSeq([i \in DOMAIN Children |-> heap[Children[i]].data])
                   whole == Text(heap[Open.cell].type, joined)
               IN [Without(Range(Children)) EXCEPT ![Open.cell] = whole]
    /\ Return(Open.cell)
    /\ UNCHANGED denied

(* wpcp_realloc fails.                                                     *)
JoinDenied ==
    /\ Closing
    /\ IsString(heap[Open.cell].type)
    /\ heap' = Freed(Open.cell)
    /\ denied' = TRUE
    /\ Return(Null)

-----------------------------------------------------------------------------
(* wpcp_cbor_read_buffer_read_map_items                                    *)

(* The map can not be read further.                                        *)
GiveUp ==
    /\ ret' = FALSE
    /\ phase' = "handle"

StartMap ==
    LET h == ReadHeader32(bytes, begin, Map) IN
    /\ phase = "map"
    /\ begin' = h.begin
    /\ additional' = <<>>
    /\ room' = 0
    /\ IF h.ok THEN item_count' = h.value /\ phase' = "key" /\ UNCHANGED ret
               ELSE GiveUp /\ UNCHANGED item_count
    /\ UNCHANGED <<request, handler, remaining, key, calls, heap, map, handled, denied>>

ReadKey ==
    LET h == ReadHeader32(bytes, begin, TextString) IN
    /\ phase = "key"
    /\ item_count > 0
    /\ begin' = IF h.ok THEN h.begin + h.value ELSE h.begin
    /\ IF h.ok /\ Available(bytes, h.begin, h.value)
       THEN /\ key' = SubSeq(bytes, h.begin + 1, h.begin + h.value)
            /\ phase' = "value"
            /\ UNCHANGED ret
       ELSE GiveUp /\ UNCHANGED key
    /\ UNCHANGED <<request, handler, remaining, item_count, calls, heap, pairs, handled, denied>>

EndMap ==
    /\ phase = "key"
    /\ item_count = 0
    /\ phase' = "handle"
    /\ UNCHANGED <<request, begin, handler, remaining, item_count, key, ret, calls, heap,
                   pairs, handled, denied>>

ValueRead(pointer) ==
    /\ phase = "value"
    /\ stack = <<>>
    /\ returned = pointer
    /\ returned' = None
    /\ UNCHANGED <<request, begin, handler, remaining, key, stack, handled>>

NoValue ==
    /\ ValueRead(Null)
    /\ GiveUp
    /\ UNCHANGED <<item_count, heap, pairs, denied>>

NextPair ==
    /\ item_count' = item_count - 1
    /\ phase' = "key"
    /\ UNCHANGED <<ret, denied>>

(* One of the keys of map_items.  A key that comes again replaces.         *)
StoreKnown ==
    \E c \in Cell :
        /\ ValueRead(c)
        /\ key \in Key
        /\ map' = [map EXCEPT ![key] = c]
        /\ heap' = IF map[key] = Null THEN heap ELSE Freed(map[key])
        /\ NextPair
        /\ UNCHANGED <<additional, room>>

(* Another key.  The first of them allocates room for all that can follow. *)
StoreAdditional ==
    \E c \in Cell :
        /\ ValueRead(c)
        /\ key \notin Key
        /\ additional' = Append(additional, [key |-> key, value |-> c])
        /\ room' = IF room = 0 THEN item_count ELSE room
        /\ NextPair
        /\ UNCHANGED <<heap, map>>

StoreDenied ==
    \E c \in Cell :
        /\ ValueRead(c)
        /\ key \notin Key
        /\ room = 0
        /\ heap' = Freed(c)
        /\ denied' = TRUE
        /\ GiveUp
        /\ UNCHANGED <<item_count, pairs>>

-----------------------------------------------------------------------------
(* wpcp_session_handle_in_message: the head of a message                   *)

Ends(result) == phase' = "done" /\ ret' = result /\ UNCHANGED remaining

(* Count items, if there is memory for a result.                           *)
RequestsResult(next, count) ==
    \/ /\ remaining' = count
       /\ phase' = next
       /\ UNCHANGED <<ret, denied>>
    \/ Ends(FALSE) /\ denied' = TRUE

(* What becomes of a message for a handler of some kind.  A result for no  *)
(* items, and a handler that is no more than a name, end at an assertion.  *)
Dispatched(kind, count) ==
    \/ /\ kind = "hello" /\ count > 0
       /\ remaining' = count
       /\ phase' = "map"
       /\ UNCHANGED <<ret, denied>>
    \/ kind = "hello" /\ count = 0 /\ Ends(FALSE) /\ UNCHANGED denied
    \/ kind = "processed" /\ Ends(count = 0) /\ UNCHANGED denied
    \/ kind = "ids" /\ count > 0 /\ RequestsResult("id", count)
    \/ kind = "items" /\ count > 0 /\ RequestsResult("map", count)
    \/ kind = "items" /\ count = 0 /\ Ends(TRUE) /\ UNCHANGED denied
    \/ /\ kind = "none" \/ (kind = "ids" /\ count = 0)
       /\ phase' = "asserted"
       /\ UNCHANGED <<remaining, ret, denied>>

(* The handler of a message id, if there is one.                           *)
Kind(id) ==
    IF request.hello THEN "hello" ELSE IF id < Len(Handler) THEN Handler[id + 1] ELSE "unknown"

HandleInMessage ==
    LET array == ReadHeader32(bytes, begin, Array)
        message == ReadHeader32(bytes, array.begin, UnsignedInteger)
        id == ReadHeader32(bytes, message.begin, UnsignedInteger)
        kind == Kind(message.value)
    IN  /\ phase = "head"
        /\ begin' = id.begin
        /\ IF array.ok /\ array.value >= 2 /\ message.ok /\ id.ok /\ kind # "unknown"
           THEN handler' = kind /\ Dispatched(kind, array.value - 2)
           ELSE Ends(FALSE) /\ UNCHANGED <<handler, denied>>
        /\ UNCHANGED <<request, item_count, key, calls, heap, pairs, handled>>

(* An id, as an item of one number.                                        *)
GivenId(n) ==
    [map |-> [k \in Key |-> Null],
     additional |-> <<[key |-> <<>>, value |-> Number("UINT64", n)]>>]

(* wpcp_session_handle_unsubscribe_message: an id that could not be read   *)
(* is 0 or, if it is only of a wrong type, what was read.                  *)
ReadId ==
    LET h == ReadHeader32(bytes, begin, UnsignedInteger)
    IN  /\ phase = "id"
        /\ begin' = h.begin
        /\ ret' = (ret /\ h.ok)
        /\ handled' = Append(handled, GivenId(h.value))
        /\ remaining' = remaining - 1
        /\ phase' = IF remaining' = 0 THEN "done" ELSE "id"
        /\ UNCHANGED <<request, handler, item_count, key, calls, heap, pairs, denied>>

-----------------------------------------------------------------------------
(* The items of a message, and the hello message                           *)

(* The values of the current map.                                          *)
Held == (Range(map) \ {Null}) \cup {additional[i].value : i \in DOMAIN additional}

(* Mutant: the array "additional" is freed, but not its values.            *)
Clear_KnownOnly ==
    /\ heap' = Without(UNION {Tree(c) : c \in Range(map) \ {Null}})
    /\ map' = [k \in Key |-> Null]
    /\ additional' = <<>>
    /\ room' = 0

(* wpcp_clear_map_items                                                    *)
Clear ==
    /\ heap' = Without(UNION {Tree(c) : c \in Held})
    /\ map' = [k \in Key |-> Null]
    /\ additional' = <<>>
    /\ room' = 0

Given ==
    [map |-> [k \in Key |-> DenotedPointer(map[k])],
     additional |-> [i \in DOMAIN additional |->
                       [key |-> additional[i].key, value |-> Denoted(additional[i].value)]]]

(* An item is handed to its handler, also one that could not be read, and  *)
(* its values are freed afterwards.                                        *)
HandleItem ==
    /\ phase = "handle"
    /\ handler = "items"
    /\ handled' = Append(handled, Given)
    /\ Clear
    /\ remaining' = remaining - 1
    /\ phase' = IF remaining' = 0 THEN "done" ELSE "map"
    /\ UNCHANGED <<request, begin, handler, item_count, key, ret, calls, denied>>

HandleHello ==
    /\ phase = "handle"
    /\ handler = "hello"
    /\ IF ret THEN handled' = Append(handled, Given) /\ Clear
              ELSE UNCHANGED <<handled, heap, pairs>>
    /\ phase' = "done"
    /\ UNCHANGED <<request, begin, handler, remaining, item_count, key, ret, calls, denied>>

Ended == phase \in {"done", "asserted"}

Done == Ended /\ UNCHANGED vars

Step ==
    \/ HandleInMessage \/ ReadId
    \/ ReadInvalid \/ ReadDenied \/ ReadScalar \/ ReadString \/ ReadContainer
    \/ Link \/ Abandon \/ Close \/ Join \/ JoinDenied
    \/ StartMap \/ ReadKey \/ EndMap \/ NoValue
    \/ StoreKnown \/ StoreAdditional \/ StoreDenied
    \/ HandleItem \/ HandleHello

Next == Step \/ Done

Spec == Init /\ [][Next]_vars

(* What the functions return to the websocket callback.  Only the loop     *)
(* over items looks whether anything is left.                              *)
Accepted ==
    phase = "done" /\ ret /\ (handler = "items" => begin = Len(bytes))

-----------------------------------------------------------------------------
Pointer == Cell \cup {Null}

(* The types.  What is open is allocated.                                  *)
TypeOK ==
    /\ begin \in Nat
    /\ remaining \in Nat
    /\ handler \in {"unknown", "hello", "none", "processed", "ids", "items"}
    /\ phase \in {"head", "id", "map", "key", "value", "handle", "done", "asserted"}
    /\ item_count \in Nat
    /\ key \in Seq(0..Byte - 1)
    /\ \A i \in DOMAIN stack : /\ stack[i].cell \in Allocated
                               /\ stack[i].parts \in Nat \cup {None}
    /\ returned \in Pointer \cup {None}
    /\ Allocated \subseteq Cell
    /\ map \in [Key -> Pointer]
    /\ \A i \in DOMAIN additional : additional[i].value \in Cell
    /\ room \in Nat
    /\ {ret, denied} \subseteq BOOLEAN

(* Who is responsible for freeing something: the map for its values, the   *)
(* open calls for theirs, the caller for what was returned.                *)
Roots ==
    Held \cup {stack[i].cell : i \in DOMAIN stack}
         \cup ({returned} \ {Null, None})

(* Every allocated value hangs from exactly one that somebody will free,   *)
(* and nothing hangs from anything that was freed: whichever part of a     *)
(* message is wrong and whichever allocation fails, wpcp_value_free is     *)
(* called exactly once for each value.                                     *)
Owned ==
    LET links == UNION {{<<c, i>> : i \in DOMAIN heap[c].children} : c \in Allocated}
        child(l) == heap[l[1]].children[l[2]]
    IN /\ Roots \cup {child(l) : l \in links} = Allocated
       /\ \A l \in links : child(l) \notin Roots
       /\ \A l, m \in links : child(l) = child(m) => l = m
       /\ Cardinality(Roots) = Cardinality({k \in Key : map[k] # Null})
             + Len(additional) + Len(stack) + (IF returned \in Cell THEN 1 ELSE 0)

(* After the message nothing is left of it, except for a hello that was    *)
(* not understood: its handler returns without wpcp_clear_map_items.       *)
NothingKept == Ended => Allocated = {} \/ (request.hello /\ ~ret)

(* The loops look at the next byte for a break only with the cursor inside *)
(* the message or at its end: a read that failed has moved it farther, and *)
(* then nobody may go on with the value.                                   *)
LooksInside == stack # <<>> /\ returned = None => begin <= Len(bytes)

(* "additional" is allocated once per map, for the pairs that are left     *)
(* then, and filled without looking at its size.                           *)
RoomForAdditional == Len(additional) <= room

(* The reader stays where it may look and write.                           *)
ReadsInside == TypeOK /\ LooksInside /\ RoomForAdditional

(* What the sender meant is what the application is given: however numbers *)
(* are spelled, strings cut in pieces, and ends marked, the values arrive  *)
(* unchanged, the last of several with one known key, all with unknown     *)
(* keys in their order, for each item of the message.                      *)
ReadsWhatWasSaid ==
    Ended /\ request.kind = "meant" /\ ~denied =>
        Accepted /\ handled = request.said

(* A message that breaks off, has an end, a piece or a number where none   *)
(* may be, is for no handler, or holds more or fewer items than it         *)
(* announces, is refused.                                                  *)
RefusesTheRest == request.kind = "broken" => ~Accepted

(* The writer into a message and the writer into a buffer decide alike,    *)
(* wpcp_cbor_byte_size is the size a head takes, and the strict reader     *)
(* takes exactly that head, whatever follows, and gives the number back.   *)
(* The numbers are those in the message, and both sides of each limit.     *)
HeadsAgree ==
    LET numbers == {ADDITONAL_BYTES_1 - 1, ADDITONAL_BYTES_1, Limit(3) - 1}
                   \cup Range(bytes)
                   \cup (UNION {{Limit(i) - 1, Limit(i)} : i \in {1, 2}})
    IN \A n \in numbers :
        LET written == WriteTypeWithValue(UnsignedInteger, n)
            h == ReadHeader32(written \o bytes, 0, UnsignedInteger)
        IN /\ written = WriteUint32(UnsignedInteger, n)
           /\ Len(written) = ByteSize(n)
           /\ h.ok /\ h.value = n /\ h.begin = ByteSize(n)

=============================================================================
