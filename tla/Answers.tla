------------------------------ MODULE Answers ------------------------------
(***************************************************************************)
(* One result at a time, from the request to the message with the answers. *)
(* The application was called for every item of the message and answers    *)
(* them with a diagnostic and a value, or with a diagnostic and an array   *)
(* whose elements it gives one by one (browse and both histories).  The    *)
(* answers are written behind each other into the output buffer of the     *)
(* result, which counts the answers and the elements that are missing;     *)
(* only the calls themselves tell which item they are for.                 *)
(*                                                                         *)
(* A step is a call of a function wpcp_return_..., under the mutex.  The   *)
(* application either answers item by item, in order, or as it likes.      *)
(*                                                                         *)
(* Lists of results and what waits for them are the business of Sessions,  *)
(* the messages that of OutQueue.                                          *)
(***************************************************************************)
EXTENDS WriteBuffer, FiniteSets

CONSTANTS
    MaxPayload,  \* items of one message
    MaxElements, \* elements of one answer
    Size,        \* sizes of diagnostics, values and elements
    MaxMessages, \* messages of a client
    MaxUint      \* UINT32_MAX

ASSUME AnswersAssumption ==
    /\ MaxPayload \in Nat \ {0} /\ MaxElements \in Nat /\ MaxMessages \in Nat
    /\ Size \subseteq Nat /\ 1 \in Size
    /\ MaxUint \in Nat /\ MaxUint > MaxElements /\ MaxUint > MaxPayload

VARIABLES
    sequential,            \* whether the application answers item by item
    session,               \* whether the session of the result is still there
    open,                  \* whether there is a result
    request_payload_count,
    remaining,
    remaining_subresults,
    output_buffer,
    answer,    \* what the application answered to every item (history)
    heap,      \* chunks that are allocated
    lost,      \* chunks that nobody will free any more (history)
    sent,      \* the message that was queued last
    messages   \* how many were requested

counters == <<request_payload_count, remaining, remaining_subresults>>
vars == <<sequential, session, open, counters, output_buffer, answer, heap, lost, sent,
          messages>>

Item == 1..request_payload_count

(* What the application has said about an item: nothing, one value, or     *)
(* count elements, of which some were given.                               *)
NoAnswer == [kind |-> "none", count |-> 0, given |-> 0]

Complete(k) == answer[k].kind # "none" /\ answer[k].given = answer[k].count

(* What is written: the diagnostic and the value of an item, the head of   *)
(* an array with its length, its elements.                                 *)
Token(kind, k, n) == [kind |-> kind, item |-> k, number |-> n]

NoMessage == [queued |-> FALSE, elements |-> 0, length |-> 0, copied |-> 0,
              broken |-> FALSE, content |-> <<>>]

Init ==
    /\ sequential \in BOOLEAN
    /\ session = TRUE
    /\ open = FALSE
    /\ request_payload_count = 0 /\ remaining = 0 /\ remaining_subresults = 0
    /\ output_buffer = EmptyBuffer
    /\ answer = <<>>
    /\ heap = 0 /\ lost = 0
    /\ sent = NoMessage
    /\ messages = 0

(* wpcp_request_result, and the calls of the application, one per item.    *)
(* Only an unsubscribe message gets a result without items (wpcp.c:182).   *)
Request ==
    /\ session /\ ~open /\ messages < MaxMessages
    /\ messages' = messages + 1
    /\ open' = TRUE
    /\ \E n \in 0..MaxPayload :
        /\ request_payload_count' = n
        /\ remaining' = n
        /\ answer' = [k \in 1..n |-> NoAnswer]
    /\ remaining_subresults' = 0
    /\ output_buffer' = EmptyBuffer
    /\ sent' = NoMessage
    /\ UNCHANGED <<sequential, session, heap, lost>>

(* wpcp_session_delete takes the session away from the result.             *)
SessionEnd ==
    /\ session
    /\ session' = FALSE
    /\ UNCHANGED <<sequential, open, counters, output_buffer, answer, heap, lost, sent,
                   messages>>

-----------------------------------------------------------------------------
(* wpcp_release_result, with the buffer as the answer leaves it.           *)

(* Mutant: the chunks of a sent result are not freed.                      *)
Cleared_Kept(buffer) == 0

(* wpcp_cbor_write_buffer_clear.                                           *)
Cleared(buffer) == Chained(buffer)

(* Mutant: the message is announced with one element per item.             *)
Elements_Half == request_payload_count

Elements == request_payload_count * 2

Remains(buffer) ==
    /\ remaining > 1
    /\ output_buffer' = buffer
    /\ heap' = heap + Chained(buffer) - Chained(output_buffer)
    /\ UNCHANGED <<open, lost, sent>>

(* With the last answer the message is allocated, filled and queued.       *)
Sends(buffer) ==
    /\ remaining = 1 /\ session
    /\ sent' = [queued |-> TRUE, elements |-> Elements, length |-> buffer.used_size,
                copied |-> BytesCopied(buffer), broken |-> buffer.broken,
                content |-> Content(buffer)]
    /\ heap' = heap + Chained(buffer) - Chained(output_buffer) - Cleared(buffer)
    /\ open' = FALSE
    /\ output_buffer' = EmptyBuffer
    /\ UNCHANGED lost

(* Without memory for the message, or without a session to send it, the    *)
(* result is freed, and its chunks are not.                                *)
Drops(buffer) ==
    /\ remaining = 1
    /\ heap' = heap + Chained(buffer) - Chained(output_buffer)
    /\ lost' = lost + Chained(buffer)
    /\ open' = FALSE
    /\ output_buffer' = EmptyBuffer
    /\ UNCHANGED sent

ReleaseResult(buffer) ==
    /\ remaining' = remaining - 1
    /\ Remains(buffer) \/ Sends(buffer) \/ Drops(buffer)

-----------------------------------------------------------------------------
(* The application answers.                                                *)

(* Item k is next, when the application answers in order.                  *)
Turn(k) == sequential => \A j \in Item : j < k => Complete(j)

(* What the buffer can be like after a diagnostic and w, of a given size.  *)
WithDiagnostic(k, w, size) ==
    {Written(Written(output_buffer, Token("diagnostic", k, 0), d, m1), w, size, m2) :
        d \in Size, m1 \in BOOLEAN, m2 \in BOOLEAN}

(* wpcp_return_read_data and others: a value.                              *)
Answer(k) ==
    /\ open /\ answer[k].kind = "none" /\ Turn(k)
    /\ answer' = [answer EXCEPT ![k].kind = "one"]
    /\ \E size \in Size :
        \E buffer \in WithDiagnostic(k, Token("value", k, 0), size) : ReleaseResult(buffer)
    /\ UNCHANGED <<sequential, session, request_payload_count, remaining_subresults,
                   messages>>

(* Mutant: an answer without elements is not released.                     *)
RequestSubresult_Zero(buffer, count) ==
    /\ remaining_subresults' = count
    /\ output_buffer' = buffer
    /\ heap' = heap + Chained(buffer) - Chained(output_buffer)
    /\ UNCHANGED <<remaining, open, lost, sent>>

(* wpcp_request_subresult, behind the head of the array.                   *)
RequestSubresult(buffer, count) ==
    \/ /\ count > 0
       /\ remaining_subresults' = count
       /\ output_buffer' = buffer
       /\ heap' = heap + Chained(buffer) - Chained(output_buffer)
       /\ UNCHANGED <<remaining, open, lost, sent>>
    \/ /\ count = 0
       /\ ReleaseResult(buffer)
       /\ UNCHANGED remaining_subresults

(* wpcp_return_browse and both histories.                                  *)
AnswerArray(k) ==
    /\ open /\ answer[k].kind = "none" /\ Turn(k)
    /\ \E count \in 0..MaxElements :
        /\ answer' = [answer EXCEPT ![k] = [kind |-> "array", count |-> count, given |-> 0]]
        /\ \E buffer \in WithDiagnostic(k, Token("array", k, count), 1) :
            RequestSubresult(buffer, count)
    /\ UNCHANGED <<sequential, session, request_payload_count, messages>>

Less(n) == IF n = 0 THEN MaxUint ELSE n - 1

(* Mutant: every element releases the result.                              *)
LastElement_Each == TRUE

LastElement == remaining_subresults' = 0

(* wpcp_return_browse_item and others, with wpcp_release_subresult.        *)
AnswerElement(k) ==
    /\ open /\ answer[k].given < answer[k].count
    /\ answer' = [answer EXCEPT ![k].given = @ + 1]
    /\ remaining_subresults' = Less(remaining_subresults)
    /\ \E size \in Size, memory \in BOOLEAN :
        LET buffer == Written(output_buffer, Token("element", k, answer[k].given + 1),
                              size, memory)
        IN  \/ /\ LastElement
               /\ ReleaseResult(buffer)
            \/ /\ ~LastElement
               /\ output_buffer' = buffer
               /\ heap' = heap + Chained(buffer) - Chained(output_buffer)
               /\ UNCHANGED <<remaining, open, lost, sent>>
    /\ UNCHANGED <<sequential, session, request_payload_count, messages>>

AnswerItem == \E k \in Item : Answer(k) \/ AnswerArray(k) \/ AnswerElement(k)

Next == Request \/ SessionEnd \/ AnswerItem

Spec == Init /\ [][Next]_vars

(* The application goes on answering.                                      *)
FairSpec == Spec /\ WF_vars(AnswerItem)

-----------------------------------------------------------------------------
(* Every variable has a value the program can give it.                     *)
TypeOK ==
    /\ {sequential, session, open} \subseteq BOOLEAN
    /\ request_payload_count \in 0..MaxPayload
    /\ remaining \in 0..MaxPayload
    /\ remaining_subresults \in 0..MaxUint
    /\ \A k \in DOMAIN answer :
        /\ answer[k].kind \in {"none", "one", "array"}
        /\ answer[k].given \in 0..answer[k].count
    /\ heap \in Nat /\ lost \in Nat
    /\ messages \in 0..MaxMessages

(* No write goes beyond its chunk, and a message holds exactly the bytes   *)
(* that were written, however the answers fell into chunks, so that        *)
(* nothing is copied beyond its end; only without memory for a chunk is    *)
(* nothing copied at all (wpcp_cbor.c:562, 578).                           *)
ChunksFit ==
    /\ \A c \in Range(output_buffer.chunks) : c.used_size <= c.allocated_size
    /\ ~output_buffer.broken => BytesCopied(output_buffer) = output_buffer.used_size
    /\ sent.copied = IF sent.broken THEN 0 ELSE sent.length

(* The buffer is what its counters say.                                    *)
BufferSound == TypeOK /\ ChunksFit

(* How a client takes the elements of an array apart: the head of an array *)
(* takes as many of the following elements as it says.                     *)
Take(read, token) ==
    IF read.missing > 0
    THEN [elements |-> Front(read.elements) \o <<Append(Last(read.elements), token)>>,
          missing  |-> read.missing - 1]
    ELSE [elements |-> Append(read.elements, <<token>>),
          missing  |-> IF token.kind = "array" THEN token.number ELSE 0]

Taken(content) ==
    LET read[i \in 0..Len(content)] ==
          IF i = 0 THEN [elements |-> <<>>, missing |-> 0] ELSE Take(read[i - 1], content[i])
    IN read[Len(content)]

(* What the application answered to item k, as two elements.               *)
Given(k) ==
    << <<Token("diagnostic", k, 0)>>,
       IF answer[k].kind = "one" THEN <<Token("value", k, 0)>>
       ELSE <<Token("array", k, answer[k].count)>>
            \o [n \in 1..answer[k].count |-> Token("element", k, n)] >>

(* A client that reads the message by its heads alone finds as many        *)
(* elements as the message announces, and for every item exactly what the  *)
(* application answered to it, when that answers in order.                 *)
ReadsAsAnswered ==
    sequential /\ sent.queued /\ ~sent.broken =>
        LET read == Taken(sent.content)
        IN  /\ read.missing = 0
            /\ Len(read.elements) = sent.elements
            /\ \A k \in Item : SubSeq(read.elements, 2 * k - 1, 2 * k) = Given(k)

(* The two counters of a result, although there is only one for all its    *)
(* arrays, say what the application still has to give (wpcp_session.c:550, *)
(* 560), when that answers in order.                                       *)
PartsCounted ==
    sequential /\ open =>
        /\ remaining = Cardinality({k \in Item : ~Complete(k)})
        /\ \A k \in Item :
            answer[k].kind = "array" /\ ~Complete(k) =>
                remaining_subresults = answer[k].count - answer[k].given

(* In whatever order the application answers, a result is never freed      *)
(* while it still has something to give: it would use the result again.    *)
NotFreedEarly == ~open => \A k \in Item : Complete(k)

(* The counters free the result with the last thing it is given, neither   *)
(* before, nor, when the application answers in order, after it.           *)
CountsAnswers == PartsCounted /\ NotFreedEarly

(* Every chunk belongs to the result that is open, and is freed with it    *)
(* once; or its result could not be sent (wpcp_session.c:253, 547), and    *)
(* only then is it lost.                                                   *)
Accounted == heap = lost + (IF open THEN Chained(output_buffer) ELSE 0)

(* Every result with items ends when the application gives what it owes in *)
(* order, be it an array without elements.  One without items never does.  *)
ResultsEnd == sequential /\ open /\ remaining > 0 ~> ~open
=============================================================================
