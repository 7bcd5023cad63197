---------------------------- MODULE CborAnswers ----------------------------
(***************************************************************************)
(* What the library composes itself: the items of answers and of           *)
(* notifications, and the answer to hello.  All of them are maps whose     *)
(* size is counted first and whose pairs are written afterwards, one by    *)
(* one, if they are there.                                                 *)
(*                                                                         *)
(* An optional value is a sequence of no or one values.                    *)
(***************************************************************************)
EXTENDS CborWriter

CONSTANT Name  \* the texts of the library, as bytes

(* The message handlers, in the order of their registration: the first     *)
(* three always, the others if the application has the callback.  A        *)
(* client names a handler by its position, which it learns from hello.     *)
General == <<"publish", "processed", "result">>

Callbacks == <<"unsubscribe", "readdata", "browse", "writedata", "handlealarm",
               "readhistorydata", "readhistoryalarm", "subscribedata", "subscribealarm">>

(* enum wpcp_message_type_t                                                *)
MessageType(name) ==
    CASE name \in ToSet(General) -> 0
      [] name = "subscribedata" -> 3
      [] name = "subscribealarm" -> 4
      [] OTHER -> 1

MessageHandlers(callbacks) == General \o SelectSeq(Callbacks, LAMBDA m : m \in callbacks)

(* What such a handler is to the reader.                                   *)
HandlerKind(name) ==
    CASE name \in {"publish", "result"} -> "none"
      [] name = "processed" -> "processed"
      [] name = "unsubscribe" -> "ids"
      [] OTHER -> "items"

(* wpcp_out_message_alloc: the head of a message.                          *)
MessageHead(message_id, request_id, payload_count) ==
    WriteTypeWithValue(Array, 2 + payload_count)
    \o WriteTypeWithValue(UnsignedInteger, message_id)
    \o WriteTypeWithValue(UnsignedInteger, request_id)

-----------------------------------------------------------------------------
MapHeader(count) == WriteUint32(Map, count)

(* A pair, if there is a value.                                            *)
Named(name, optional) ==
    IF optional = <<>> THEN <<>> ELSE WriteText(Name[name]) \o Write(optional[1])

WriteAdditional(additional) ==
    FlattenSeq([i \in DOMAIN additional |->
                  WriteText(additional[i].key) \o Write(additional[i].value)])

DataItem(value, timestamp, status, additional) ==
    MapHeader(Len(value) + Len(timestamp) + Len(status) + Len(additional))
    \o Named("value", value) \o Named("timestamp", timestamp) \o Named("status", status)
    \o WriteAdditional(additional)

(* Mutant: acknowledged was added to the pairs, and not to the count.      *)
AlarmCount_Less(optionals, additional) == 2 + Len(FlattenSeq(optionals)) + Len(additional)

AlarmCount(optionals, additional) == 2 + Len(FlattenSeq(optionals)) + 1 + Len(additional)

AlarmItem(key, retain, token, id, timestamp, priority, message, acknowledged, additional) ==
    MapHeader(AlarmCount(<<token, id, timestamp, priority, message>>, additional))
    \o Named("key", <<key>>) \o Named("retain", <<retain>>)
    \o Named("token", token) \o Named("id", id) \o Named("timestamp", timestamp)
    \o Named("priority", priority) \o Named("message", message)
    \o Named("acknowledged", <<acknowledged>>)
    \o WriteAdditional(additional)

BrowseItem(id, name, title, description, type, additional) ==
    MapHeader(Len(id) + Len(name) + Len(title) + Len(description) + Len(type)
              + Len(additional))
    \o Named("id", id) \o Named("name", name) \o Named("title", title)
    \o Named("description", description) \o Named("type", type)
    \o WriteAdditional(additional)

(* wpcp_session_handle_hello_message: role 1 is the server.                *)
HelloReply(callbacks) ==
    LET handlers == MessageHandlers(callbacks)
    IN  MapHeader(2)
        \o WriteText(Name["role"]) \o WriteUint32(UnsignedInteger, 1)
        \o WriteText(Name["methods"]) \o WriteUint32(Array, Len(handlers) * 2)
        \o FlattenSeq([i \in DOMAIN handlers |->
                         WriteText(Name[handlers[i]])
                         \o WriteUint32(UnsignedInteger, MessageType(handlers[i]))])
=============================================================================
