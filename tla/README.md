# A verification project for libwpcp

libwpcp is a C library with which an application serves the
(Reverse)WebProcessControlProtocol: clients connect by websocket, read, write
and browse the application's values, and subscribe to them. This directory
holds TLA+ specifications of its core, TLC configurations that check them on
small instances, and TLAPS proofs for every size of instance. `PROJECT.json`
says which definition stands for which lines of the source.

    tlc -config OutQueueOrdered.cfg MCOutQueue.tla    # a run
    tlapm OutQueueProofs.tla                          # the proofs

All paths below are relative to the repository (`src/`, `test/`, `example/`).

## 1. The system

### Components

| Component | Source | State | Operations |
|---|---|---|---|
| outgoing message queue | `src/wpcp_session.c:128-138, 217-387` | `queued_out_messages`, the links, `queued_out_message_insert_location`, `publish_queue`, `free_publish_slots`, `kill` | append a result, append notifications, has/create/delete a message, add slots, free all |
| websocket writer | `src/wpcp_lws.c:143-214` | the mutex, the requested WRITEABLE event, one `helper_t` per connection | ESTABLISHED, WRITEABLE, RECEIVE, CLOSED |
| sessions and publish items | `src/wpcp.c:28-124`, `src/wpcp_session.c:140-215` | `publish_items`, `next_free_publish_item`, the list of each publish handle, `hello_finished` | create, hello, subscribe, unsubscribe, delete |
| results | `src/wpcp_session.c:442-566` | `results`, `remaining`, `remaining_subresults`, `blocked_items`, `output_buffer` | request, answer, release, hold back notifications |
| subscription registry | `src/wpcp_session.c:9-126` | the sorted array `subscriptions`, `reference_count`, keys | request, retain, release |
| message dispatch | `src/wpcp.c:564-696` | the handler table, the message being taken apart | one loop over the items of a message |
| publishing | `src/wpcp_session.c:266-273, 340-440`, `src/wpcp.c:531-562` | the shared buffer of a notification and its references | publish, republish |
| CBOR reader, writer, buffers | `src/wpcp_cbor.c` | position in the message, growing output buffer | parse and write values |
| service main loop | `src/wpcp_lws_main.c`, `src/wpcp_lws.c:284-458` | `g_wpcp_lws`, `force_exit`, `client`, `next_client_connect` | the hooks, create, service, delete, the signal handler |
| example application | `example/example.c` | a process image | the callbacks |

### How they interact

The service thread runs `lws_service`, which calls the websocket callback for
one event at a time. The callback takes the mutex and calls the library:
RECEIVE parses a message, requests a *result* for it and calls the application
once per item. The application answers each item at once or later, from any
thread that takes the mutex. With the last answer the result is serialized,
appended to the session's outgoing messages, and `has_out_message.cb` asks
libwebsockets for a WRITEABLE event. WRITEABLE takes one message from the queue
and **leaves the mutex** to write it, then takes it again to see whether there
is more. A subscribe creates a *publish item* with a new id; notifications are
published to all items of a subscription, and travel as publish messages whose
number of notifications is limited by the *publish slots*. A notification for
an item whose id is in a result that is not out yet waits in that result's
`blocked_items`. CLOSED deletes the session: unanswered results lose their
session, and for every publish item the application's unsubscribe callback is
called with a *dummy result* that lives in the memory of the session.

### What is hard

* The outgoing messages are one linked list in which a sentinel stands for "the
  notifications", with an insert location that points *into* links of messages
  that are handed out and freed later.
* The writer leaves the mutex in the middle of its callback.
* Answers come late, out of order, and after the session is gone.
* References to a subscription are taken and given back along five different
  paths, several of them error paths.
* The release search has no exit for "not found".
* Every allocation may fail; some failures kill the session, some are told to
  the client, some are silent.

The hazards are listed one by one, with their lines and the properties that
cover them, in `PROJECT.json`.

### What makes the components correct

* Queue: nothing freed is touched; results leave once and in order; no
  notification overtakes the result with its id; nothing is lost unless the
  session was killed; no wake-up is lost.
* Notifications: every publish item gets what was published to it, in order and
  once, whichever queue it waited in; a shared block is freed with its last cell.
* Answers: a client that reads the message by its heads finds for every item
  what was answered to it; buffers are freed; every result ends.
* Service: whoever works under the mutex holds it and leaves it; a session lives
  as long as its connection; a lost server is tried again, not too often; a
  signal ends the program, and nothing is used after it was freed.
* Sessions: a subscription lives exactly as long as somebody uses it; tables
  and lists agree; ids are unique and the least free one; every answer is counted
  once; `blocked_items` does not overflow; every result ends.
* Registry: one subscription per key; the array is sorted; searches end, inside
  the array, with the right subscription.
* CBOR: every allowed spelling of a value gives that value, what is cut off or
  misplaced is refused, every value read is freed once whatever fails, and
  what is written is what the reader takes.

## 2. The modules

### `OutChannel` – what the queue promises

Results are numbered as they are accepted, a notification by the number of
results accepted before it. Results are handed out oldest first, each once;
notifications oldest first and never before an earlier result. After a failed
allocation only the end of the session is promised.

### `OutQueue` – the linked list and its writer

`next`, `queued_out_messages` and `queued_out_message_insert_location` are the
C pointers; `Node` are the heap cells of messages, which are reused as soon as
they are freed, so a stale pointer may also meet a cell that is in use again.
`undefined` is set by an access to a freed cell. `heap` and `ticket` are the
view of the heap and the order of acceptance that the properties need. Every
action is one stretch of code under the mutex. `writer` is the program counter
of the websocket callback: between `Write` and `Recheck` the mutex is free.

| Code | Action |
|---|---|
| `wpcp_release_result`, the last answer | `ReleaseResult`, `ReleaseResultFails` |
| `wpcp_publish_handle_publish`, one item | `Publish`, `PublishFails` |
| `wpcp_session_add_free_publish_slots` | `AddFreePublishSlots` |
| WRITEABLE up to the unlock | `NothingToWrite`, `CreateResult`, `CreatePublish`, `CreateKilled`, `CreatePublishFails`, `CreateFromFreed` |
| `lws_write`, and what follows | `Write`, `Recheck` |
| CLOSED, ESTABLISHED | `StartDelete`, `FreeFirst`, `FinishDelete`, `SessionCreate` |

`Spec` lets the callers do anything. Under it, the list is **not** a queue (see
Findings). `OrderedSpec` adds one discipline: a result is released only while
no notification is queued. The library does not enforce it and even the
repository's example application breaks it when a notification is queued while
a message arrives; it is the weakest simple condition under which
the list does what its callers expect, and it makes precise what a repair would
have to establish. `NoLostWakeup` and `TypeOK` hold, and are proved, without it.

The peer is assumed to give back at most the slots in use, so the 32 bit
counter does not wrap around (in this version no message does give any back).

### `Sessions` – who holds what, and what is still to be answered

Heap cells of publish items and results are reused after free. `item[i].by` is
the result that will tell the client the id, `Null` once it is appended; it is
the history with which `NotesAfterResult` is stated. `held[r]` are the items
whose notifications wait in the `blocked_items` of result `r`; how many there
are, and their order, is in `Notifications`. `pending` are the items
the application has been called with and owes an answer. A step is a stretch of
code between two points at which the application can act: an item of a message,
an answer, the republish callback inside an answer, an item of a session that
is being deleted. An answer of several parts (browse, history) is one step
here; its parts are in `Answers`.

`Spec` allows everything a client and an application can do, with every
allocation failing that `Fails` names. `PromptSpec` is what the library relies
on without checking it: ids that are unsubscribed were told to the client, an
unsubscribe message has items, a subscribe is answered before its session is
deleted, and nothing is published from the unsubscribe callbacks of a session
that is being deleted (its memory is already the dummy result). The republish
callback publishes once or not at all, then returns its handle.

`Notify` and the kill flag: what happens to a notification after it is queued,
and to a session that is killed, is the business of `OutQueue`. In `Sessions`
an allocation failing in the publish path would only set a flag.

### `NotificationChannel`, `Notifications` – one publication in many queues

A publication is one block with a cell for every publish item of its handle.
Each cell is linked into the queue of a session, or of the result that will
tell the client the item's id; `data[b]` is `references_actual`, and with the
last cell the block is freed, cells and links included. A walk (`GiveUp`) reads a
link, then gives up the reference, as the three loops of the code do; `undefined`
is set when a walk (`Touches`) or an append (`Dangling`) meets a block that is
gone. `Chain` and `Following` are the cells a walk comes to, and `AllNotified`
is the loop over the items of a handle, which appends each cell to what the
appends before it left. All of them are recursive functions, as are `Those` and
`Share` of `Selections` (what is left of a list, and what a message brings to
an item), so that they can be proved about. `Owners` are the ways in which the
items may be divided among the sessions. `NotificationChannel` is the promise: a
sequence of publications per publish item, delivered from its front, and no
message for two sessions. `Notifications` implements it by what both queues
hold for an item, the session's first (`Owed`).

| Code | Action |
|---|---|
| `wpcp_publish_data`, `wpcp_publish_alarm`, `wpcp_publish_handle_publish`, `wpcp_session_add_publish_queue_item` | `Publish` |
| `wpcp_release_result`, with the splice of what was held back | `Answer` in `Accept`, `Return` |
| `wpcp_session_out_message_create`, a publish message | `SendPublish` |
| `wpcp_session_create`, `_delete`, `wpcp_publish_item_release` | `SessionCreate`, `SessionDelete`, `Unsubscribe` |

The three modules about sessions share a boundary: `OutQueue` has one session
and notifications without items, `Notifications` has the cells and no results'
messages, and `Sessions` has the answers and who lists which item.

### `WriteBuffer`, `Answers` – answers of several parts

`WriteBuffer` is the output buffer of a result: the chunk inside the result,
the chunks allocated behind it, and `broken` after a failed allocation. A write
that does not fit leaves the rest of the last chunk unused. `Answers` is one
result at a time from its request to its message. The application answers items
with a value or with an array whose elements come one by one; there is only one
`remaining_subresults` for all arrays of a result, so `sequential` says whether
it answers item by item, which nothing in the library enforces. `heap` counts
the allocated chunks, `lost` those that nobody will free. What a buffer holds
(`Content`, `BytesCopied`) and what a client takes from it (`Taken`) are
recursive functions over the chunks and over the content, so that they can be
proved about.

| Code | Definition |
|---|---|
| `wpcp_cbor_write_buffer_...`: `ensure_space`, the copying, `clear` | `Written` with `NewChunk`, `BytesCopied`, `Cleared` |
| `wpcp_return_*` with a value | `Answer` |
| `wpcp_return_browse`, both histories, `wpcp_request_subresult` | `AnswerArray`, `RequestSubresult` |
| their items, `wpcp_release_subresult` | `AnswerElement` |
| `wpcp_release_result` with and without session, without memory | `Remains`, `Sends`, `Drops` |

### `Service` – the callback, the mutex and the main function

`main` and `callback` are the places of the main thread outside and inside a
callback of libwebsockets, `thread` those of the application's threads, which
run between the start and the stop hook. libwebsockets is modelled from its
use: a poll reports connections (`ready`), each is given one event, a callback
that returns -1 closes its connection, a context that is destroyed closes all.
`crash` names what was used that is not there: the session there was no memory
for (`src/wpcp_lws.c:152`), or the service, by a signal that comes before it is
created or after it is deleted. `due` and `since` are `next_client_connect`
relative to the clock, and the history with which `Spaced` is stated.

| Code | Action |
|---|---|
| `main` (`src/wpcp_lws_main.c`) | `InitHook`, `ParseArguments`, `Create`, `StartHook`, `Loop`, `ServiceHook`, `StopHook`, `CleanupHook` |
| `wpcp_lws_service` | `Connect`, `NoConnect`, `Poll`, `PollEnds` |
| the protocol callback | `CallsBack`, `Established`, `Lock`, `Writeable`, `Write`, `Recheck`, `Receive`, `ReceiveFails`, `Closed`, `WsiDestroy` |
| `wpcp_lws_delete` | `Free`, with the callbacks of all connections before it |
| libwebsockets, as far as it can be seen | `NothingHappens`, `Refused`, `Disconnect` |
| the signal handler, time | `Signal`, `Tick` |

### `SubscriptionRegistry` – the sorted array

One pass of a search loop is a step, `low` and `high` are the C variables, and
a probe beyond the array may find anything and sets `undefined`. Keys are
records of the three parts the comparison looks at; the bytes are numbers, as
`memcmp` on strings of one length is a total order.

### `CborHeader`, `CborReader`, `CborWriter`, `CborAnswers`, `Cbor` – messages taken apart

`CborHeader` has the heads of data items: the forms a number can be written
and read in; `Power`, `ToBytes` and `FromBytes` are recursive functions, and
`HeadsAgree` (in `CborReader`) says that every writer is understood by every
reader. `CborReader` takes a message apart: its head, which says how many
items follow and which handler they are for, the loop over the items, and the
reader of maps and values. In a build with assertions a handler that is only a name
(`publish`, `result`), and an unsubscribe without ids, end as "asserted". The
recursion of the value reader is the sequence `stack` of open values;
`returned` is what the last call gave back, and `heap` are the allocated values
with their children (`Tree` is the least set with a value that is closed under
them), so that every `wpcp_value_free` of the error paths is part
of the action it belongs to. Any allocation may fail.
`CborWriter` writes values and, as the reference, lists all spellings CBOR
allows for a value. `CborAnswers` is what the library composes: the items of
data, alarms and browsing, whose optional pairs are counted before they are
written, and the answer to hello with the table of message handlers. `Cbor`
brings all together; `ComposesMaps` gives the composed items to the reader, as
a client with the same reader would. `CborReader` handles whatever
bytes it is given; which ones, and what they mean, is in `MCCbor`.

| Code | Definition |
|---|---|
| `wpcp_cbor_read_buffer_read_wpcp_value` | `ReadInvalid`, `ReadDenied`, `ReadScalar`, `ReadString`, `ReadContainer` |
| `..._read_wpcp_values`, `..._read_string` | `Link`, `Abandon`, `Close`, `Join`, `JoinDenied` |
| `..._read_map_items` | `StartMap`, `ReadKey`, `EndMap`, `NoValue`, `StoreKnown`, `StoreAdditional`, `StoreDenied` |
| `wpcp_session_handle_in_message`, hello | `HandleInMessage`, `Dispatched`, `HandleItem`, `HandleHello`, `Accepted` |
| `wpcp_session_handle_unsubscribe_message` | `ReadId` (what the ids do is in `Sessions`) |
| `wpcp_out_message_alloc`, the head | `MessageHead` |

Floating point values keep their bits and the form they came in; what number
that is (`wpcp_cbor_decode_half`) is not computed. Lengths have 64 bits, as on
a 64 bit build.

## 3. The runs

| Run | Specification and bounds | Shows |
|---|---|---|
| `OutQueueOrdered` | `FairOrderedSpec`; 2 message cells, 4 results per session, 2 slots, 3 queued notifications, 1 held back per result | the inductive invariant (list = queue, nothing freed is used), no loss, `OutChannel` is implemented, results and sendable notifications leave |
| `OutQueueAny` | `Spec`; 3 message cells, 3 results per session, 2 slots, 2 queued notifications | no lost wake-up, with callers that do anything |
| `OutQueueEmptyHasNoMessage`, `OutQueueQueuedHasMessage` | `Spec` | violations, see Findings |
| `SessionsPrompt` | `FairPromptSpec`; 1 session, 2 keys, 2 items, 2 results, 3 open answers, 3 references per subscription, publish items that can not be allocated | no leaked reference, results and lists that agree, notifications after their result, no NULL use, every result ends |
| `SessionsAny` | `Spec`; 2 sessions, 2 keys, 3 items, 1 result, 2 open answers, 2 references per subscription, all allocations failing | references, tables, lists, the inductive invariant (room for blocked items) |
| `SessionsNoNullUse` | `Spec`; 1 session | a violation, see Findings |
| `SubscriptionRegistry` | `FairSpec`; 5 keys, 3 subscriptions, 2 references | the inductive invariant (sorted, inside the array), unique keys, the wanted subscription, ending searches |
| `Cbor` | `Spec`; 9421 messages, 14 values at a time | no leak, no double free, what is meant arrives, what is broken is refused, what is composed is read |
| `Notifications` | `FairSpec`; 2 sessions, 2 items of one session or of both, 1 result, 2 blocks, 2 slots, 2 answers | sound links, counted references, `NotificationChannel` is implemented, blocks are freed in the end |
| `Service` | `FairSpec`; 2 connections, 2 threads, interval 2, with a server to connect to | the inductive invariant (mutex, sessions, client, memory), attempts spaced, reconnecting, the end |
| `Answers` | `FairSpec`; messages of up to 2 items, arrays of up to 2 elements, chunks of 3 and 4 bytes, sizes 1 and 5, 2 messages | sound buffer, what a client reads, the counters, chunks freed, results end |

A run lists few properties on purpose: `IInv`, `TablesAgree`, `ResultsAgree`,
`LinksSound`, `ReadsInside`, `WritesWhatIsRead`, `BufferSound` and
`CountsAnswers` are conjunctions of the invariants that are named, commented
and, where there are proofs, proved one by one. `ImplementsChannel` of
`OutQueue` implies `HandsOutOldest`.

**Bounds.** They are constants of the modules, used in guards only.

* `MaxResults`, `MaxNotes`, `MaxBlocked`, `Node`: results are needed for one
  that is handed out, one whose cell is freed and used again, and one behind
  both; notifications with one or two slots give a publish message that leaves
  something in the queue and one that does not. With two cells a freed cell is
  used again at once, with three a list can go on behind one. The proofs hold for all values.
* `MaxSlots` stands for `UINT32_MAX`; 1 and 2 let the slots run out.
* `MaxItems = 2`, `MaxOpen = 2` and `3`: a message with several items, or two
  messages in turns. Two keys, and in `SessionsAny` two sessions, give shared
  and aliased subscriptions. What `SessionsPrompt` looks for is about one session
  and two results of it; `SessionsAny` has one result, and a third item instead
  to make tables grow.
  `Additional = 2` (16 in the code) makes the publish item table grow twice.
* `MaxReferences`: references to one subscription. References leaked on failed
  allocations would otherwise grow without end; 2 (`SessionsAny`) let two items, an item and a
  question, or an item and a leak share one, 3 (`SessionsPrompt`) two items and a
  question. The proofs hold for all values.
* `Notifications`: two sessions and two items are a block shared by queues of one
  session, of two, and of a session and a result; the second block follows the
  first in each of them, and a block that was freed is used again. Exchanging the
  names of the sessions gives nothing new, so `Divisions` in `MCNotifications`
  are two. The proofs hold for all values.
* `Service`: two connections are a client and a server connection, or a client
  connection that is closed while the next one is tried; with an interval of 2
  ticks an attempt may come too early by more than one. The proofs hold for all values.
* `Answers`: a diagnostic, value or head of 1 fits the chunk in use or fills it,
  one of 5 fits no chunk but one of its own size; two arrays in a message share
  the counter; `MaxUint = 7` lets it wrap around when it is taken below 0. The
  proofs hold for all values.
* The five keys of the registry are neighbours that differ in type, length or
  bytes only; three cells give searches of up to two passes to both sides.

* `Cbor` scales the code's numbers down, because 2^64 is out of TLC's reach:
  `ADDITONAL_BYTES_1 = 5` for 24, bytes of 8 * 13 values, and forms of 1, 2, 3
  and 4 bytes for 1, 2, 4 and 8; the layout of a head and all limits are
  derived from these as in the code. Numbers are taken on both sides of every
  limit; heads of messages are for every kind of handler, in every form, and
  announce more or fewer items than come; values nest twice, enough for an open value inside another one to
  fail; a message holds up to two items of up to three pairs; `Noise` are all
  sequences of up to four of eight structural bytes behind a first key.
  `MaxCells = 14` is never the reason for a failure of a meant message.

`CHECK_DEADLOCK FALSE` appears where the system really stops: `Service` ends
with the program, `Answers` with the last message of the client, and the
`OutQueue` and `Sessions` runs under `Spec` with an undefined access (the
actions are only defined while nothing undefined has happened).

**Fairness.** `OutQueue`: the service thread goes on, that is, a requested
WRITEABLE event is delivered and a callback that was entered goes on (weak
fairness of `Service`), and libwebsockets calls CLOSED after a callback
returned -1. No fairness for the application, the peer or a new connection. In
`ResultsLeave` a result may leave by being written or by the session's end.
`Sessions`: the loops of the code go on (weak fairness), and the application
answers the items it was called with, result by result (strong fairness, since
an answer is not possible while a republish callback runs). `SubscriptionRegistry`: a call
that was entered goes on. `Notifications`: the writer writes what is sendable
(what `NoLostWakeup` and `Service` are about) and the application answers; that
slots are given back or sessions end is not assumed, so `BlocksEnd` excepts a
session without slots. `Answers`: the application goes on answering. `Service`:
the main thread, its callbacks and the poll go on and time passes (weak
fairness); a thread leaves the mutex (weak), and who waits for the mutex gets
it when it is free often enough (strong, as between two waiting threads the
operating system chooses). Nobody has to connect, to send, to take the mutex or
to send a signal.

## 4. The proofs

`OutQueueProofs` proves for all constants that satisfy the two named
assumptions of `OutQueue` (the sentinel and the head are no cells; the bounds
are numbers, with at least one slot):

* under `Spec`: `TypeCorrect`, `WakeupCorrect`. The second follows from the
  types alone, with `NoLostWakeup` inductive by itself.
* under `OrderedSpec`: `ListCorrect`, `MemorySafe`, `OldestFirst`,
  `LostOnlyWhenKilled`, `NotesAnnounced` and `Implementation` (the refinement
  of `OutChannel`, without fairness).

They rest on `IInv`. `Represents` alone is not inductive: it speaks of open
sessions that are not killed, but the list is also walked when it is deleted,
and it does not say that tickets differ. `IInv` adds that numbers are distinct
and below `issued` (`Numbered`), that queued results are linked in their order
(`Chained`), where the list starts even after a kill (`Anchored`), which of the
three values the insert location has (`InsertLocation`), and that a closed
session left nothing (`Settled`). The heart is the lemmas `Linking` and
`Unlink`: appending through the insert location and taking the first message
keep all of it.

`SubscriptionRegistryProofs` proves for any set of keys: the types (which
include that the bounds do not fall below 0), `OnePerKey`, `Registered`,
`StaysInside`, `SearchShrinks` and `GivesWanted`. Its `IInv` says that the array is
sorted (`Sorted`), that everything outside `low` and `high` was ruled out by
the comparison (`Bracket`), and that what is being released is still in the
array (`Releasing`): this is why the loop without an exit is safe. The lemmas
`InsertSorted` and `RemoveSorted` are about `InsertAt` and `RemoveAt`.

`ServiceProofs` proves for any connections, threads and interval: the types,
`MutexHeld`, `OneClient`, `SessionsAgree`, `NoUseAfterFree` and `Spaced`. None
of them is inductive alone. `Places` says in which part of `main` the service,
the threads and the connections exist: it is why a thread finds a mutex and why
`Free` finds no connection. `CalledBack` says that a callback is for a
connection that is established, but for the last one, and `Clock` that the
countdown and the time since the last attempt are one number.

`AnswersProofs` proves for messages, answers, chunks and sizes of any number
all invariants that its run checks.

* `AccountedCorrect`, `InsideCorrect`: every chunk belongs to the open result or
  was lost, and no write goes beyond its chunk. `IInv` is inductive with the
  lemmas `WrittenIsBuffer`, `ReleaseKeeps` and `GrowthKeeps`.
* `BufferSoundCorrect`: a buffer that is not broken holds as many bytes as it
  says (`Sized`, in `Fits`), with the types of the counters (`Counters`) and of
  what was announced (`Announced`). `WrittenAdds` is the lemma: a write adds its
  word and its bytes at the end, whether it goes to the last chunk or to a new one.
* `PartsCountedCorrect`: when the application answers in order, only the item
  answered last can be incomplete (`InOrder`), so that the one counter of
  elements is about that (`Exact`).
* `CountsAnswersCorrect`: in any order, the result is not freed while something
  is to be given. This is not obvious, since a second array overwrites the
  counter of the first, and the counter then wraps around. `Enough` is the
  invariant: the elements still to be given are never more than it takes
  until the counter has been 0 as often as `remaining` needs (`Until`,
  `Zeros`). It is inductive because no array announces more elements than the
  counter has values, which is what `AnswersAssumption` says with `MaxUint`.
* `ReadsAsAnsweredCorrect`: a client that reads the message by its heads finds
  every item's answer. `Reads` says that what was written so far is read as what
  was said so far (`Spoken`): the first items two elements each, the last one
  perhaps an array of which the reader still misses what the application has
  not given. `TakeBegins`, `TakeGoesOn` and `TakenAppends` are about the reader.

`SessionsProofs` proves under `Spec`, for any sessions, subscriptions, finitely
many cells for publish items and any messages, with all allocations failing or
not: `NotFreedEarly`, `Asked` with `AnswersCounted`, `RoomLeft` and `Placed`.
The assumption says that the null pointer is no structure and that items are
finitely many. None of the four is inductive alone. An unanswered question must
be a new one when it is asked, or counts would be off: `HandlingOK` and
`DeletingOK` say that the two loops number their questions downwards. A session
that is being deleted must not get publish items meanwhile: its results have
lost it, and only one loop runs at a time (`OneLoop`). A subscription is held by
items and by questions, and `Placed` is why an item that is released passes its
reference to exactly one question. `AskedMore`, `AskedLess`, `PointsMore` and
`PointsLess` are the counting lemmas; `QuestionCounts`, `AnswerCounts`,
`ItemReleased` and `AnswerReferences` say what a question and an answer do.

`NotLeakedCorrect` is the other direction, with the assumption `OnlyItemsFail`:
when the table of ids or `blocked_items` can not be allocated the code does keep
a reference nobody gives back (`src/wpcp.c:474-492`), and the theorem is false
without the assumption. It holds under `Spec`, and so under `PromptSpec`.

`SessionListsProofs` builds on it. Under `Spec` and without further
assumptions: `TypeCorrect`, `TablesAgreeCorrect`, `ResultsAgreeCorrect`, by the
invariant `Lists`. An item is in the table of its session under its id, in the
list of its handle once, and nowhere else; a result in the list of its session
once (`InTables`, `InHandles`, `InResults`); the least free id is what it says
(`LeastIds`), even while `Extended` tables grow; and `OpenOnly` is why a session
that is deleted leaves nobody in a list. Under `PromptSpec`:
`NotesAfterResultCorrect`, by the invariant `Prompt`, in which an item that
its result has not announced yet is blocked by that result
(`BlockedUntilAnnounced`), so that its notifications wait there
(`HeldAreBlocked`), and `SessionsStay` is what promptness buys.
`NoNullUseCorrect` has the assumption that memory for a subscription is there:
without it the application is given NULL, as the finding below shows it for
late answers.

`CborReaderProofs` proves for any messages, keys, handlers, names and number of
cells: `ReadsInsideCorrect` (no byte is read behind the end, and the pairs kept
fit the room for them), `NothingKeptCorrect` and `OwnedCorrect` (every
allocated value is freed exactly once, on every error path). `IInv` consists of
`Types`, `Forest`, `Strings`, `Control` and `Cursor`. `Forest` says that every
allocated value has exactly one holder: the map, another pair, an open call,
the caller, or a parent. That alone would allow rings of values that hold one
another and are reached by nobody: `Rooted` excludes them, so that what nobody
holds any more is freed by freeing from the top. `Strings` is why the code may
free the pieces of a string without looking below them, `Control` says when the
map is empty, and `Cursor` when the position may be behind the end.
`HeadsReadBack` and `HeadsAgreeCorrect` prove that a head written for any
number of 32 bits is read back by the strict reader, with the length the code
computes.

`NotificationsProofs` proves for any sessions, divisions of items, results,
blocks, slots and messages: `LinksSoundCorrect`, `ReferencesCountedCorrect` and
`Implementation` (the refinement of `NotificationChannel`). The assumption says
that items and blocks are finitely many and that the null pointer, sessions and
results can be told apart. The invariant `IInv` has four parts, and TLC finds
it to hold in the states of the run, too:

* `LinksSound`: the queues are chains of cells in allocated blocks, no cell is
  twice in a queue or in two.
* `ReferencesCounted` is what makes it inductive: a block that a walk frees has
  no other cell in any queue, and a block that malloc returns has none at all.
* `ListsAgree`: an item is in the handle once, its session is open, and at most one
  result of that session lists it. So each cell of a publication has one queue.
* `Addressed`: a queue has cells for its session's items only, a result with a
  session only for items it lists, and a session that is gone has none. The
  last is why a session can be created without losing cells. The others are for
  the refinement: they are why a message is for one session, and why the end of
  a session takes the notifications of its items and no others.

The argument goes by way of sequences. `Apart` says that links and ends stand
for one sequence per queue; appending, cutting and splicing (`ApartAppended`,
`ApartShortened`) keep that, and each action is shown to do to the sequences
what it should (`Becomes`: `SendPublishQueues`, `SplicesQueues`, ...). `Counts`
is about a walk: `GiveUpCounts` goes along the cells it gives up, and each is
in a block that still counts it. Publishing needs an induction over the items
of the handle: `Reached` is what holds after `k` of them, `ReachedNext` the step.
For the refinement, `Brought` is what a sequence of cells holds for one item;
`OwedIs` says that `Owed` is the session's share followed by the result's. A splice
is the step to look at: it puts the result's cells behind those of the session,
some of which may have been published later; but these are for other items, as
what is published to an item while it is listed goes to the result.

What the library's induction theorems would be used for is proved from
well-foundedness: a set of numbers has a least one (`Least`), so that a property
of 0 that goes from each number to the next holds up to any (`UpTo`) and
functions can be defined by recursion (`Recursion`). With these, `Contents`,
`Sums` and `Takes` in `AnswersProofs`, the powers and bytes of a head, and the
walks and selections of `Notifications`, are what their recursive definitions say.

Only model-checked:

* `ReadsWhatWasSaid`, `RefusesTheRest` and `WritesWhatIsRead`: which bytes mean
  what is in `MCCbor` with recursive operators, along the nesting of values.
* all liveness (the provers have no fairness), and everything about a violation.

## 5. Findings

* **The sentinel's link is stale** (`OutQueueEmptyHasNoMessage`). Results queued
  behind notifications are linked from the sentinel. When the notifications are
  handed out the link is followed but never reset. After the next publish
  message the list starts at a message that is long written and freed.
  `test/test_session.c:877` asserts that then there is no message.
* **Results are lost** (`OutQueueQueuedHasMessage`). A publish message that
  empties the notification queue resets the insert location to the head even
  if results are queued behind it; the next result overwrites the head. The
  results before it are neither sent nor freed. `test/test_session.c:862-875`
  sends the same messages without a result in between.
* **Late subscribe answers use NULL** (`SessionsNoNullUse`):
  `src/wpcp.c:472, 515, 526`, although late answers are provided for
  (`test/test_session.c:881`, `src/wpcp_session.c:515`).
Seen while modelling, without a line in the repository that says otherwise:

* Under `Spec` of `OutQueue`, `AnnouncedFirst` fails too: notifications released
  by a result join those before it, and one publish message takes them all
  before the result is sent (`src/wpcp_session.c:290`).
* A message for `publish` or `result`, which have no handler, ends at the
  assertion in `src/wpcp.c:600`; without assertions a NULL handler is called.
* An id to be unsubscribed that has a wrong type is refused in the end, but its
  number is used all the same (`src/wpcp.c:190`, `ReadId`).
* A hello, an unsubscribe and a processed message may have more behind their
  items: only the loop over items looks (`src/wpcp.c:649`).
* An unsubscribe message without ids gets a result for no answers, which never
  ends (`src/wpcp.c:182`); the assertion in `src/wpcp_session.c:447` means to exclude it.
* When a chunk of the output buffer can not be allocated, the result is sent all
  the same, with content that was never written
  (`src/wpcp_cbor.c:578, 588`, `src/wpcp_session.c:319`).
* A result that is released without a session, or whose message can not be
  allocated, frees itself and not its chunks (`src/wpcp_session.c:253, 547`).
* Answers are told apart by their place only. An application that answers items
  in another order, or two arrays in turns, sends the client answers to the wrong
  items, and `remaining_subresults` of the first array is overwritten (`:555`);
  `ReadsAsAnswered` and `PartsCounted` have `sequential` as their condition.
* A session that could not be allocated is used by the next event of its
  connection (`src/wpcp_lws.c:152`); ESTABLISHED does not take the mutex.
* A signal before the service is created, or after it is deleted, uses a NULL or
  freed pointer (`src/wpcp_lws_main.c:29`).
* The handler table that hello offers is set up with the first session and
  never again (`src/wpcp.c:655`).
* A hello that can not be read leaks the values read so far (`src/wpcp.c:144`);
  `NothingKept` has the exception.
* Half precision subnormal numbers lose their sign (`src/wpcp_cbor.c:85`), and
  negative numbers below `INT64_MIN` become non-negative (`:362`).

## 6. Not modelled, and the plan

What is left, in the order in which it would be added:

1. What a value means as a recursive function over its nesting, to prove
   `WritesWhatIsRead` for values of any depth.
2. An abstract reference count that `SubscriptionRegistry` implements and that
   `Sessions` uses, and an abstract session between `Sessions` and `Service`.

Left out for good: option parsing other than that it succeeds or fails, the
trampolines that hand arguments on (`src/wpcp_lws.c`), TLS and vhost set-up (no
state of the protocol), the declarations in `include/`, `win32compat/` and
`src/wpcp_util.h`, the example application other than as a user of the
callbacks, the contents of values, and the slot counter's width (no message of
this version gives slots back, so that it only falls).
