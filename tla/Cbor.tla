-------------------------------- MODULE Cbor --------------------------------
(* The reader and the writer of values together.                           *)
EXTENDS CborReader, CborAnswers

(* The half precision numbers are read, but written as float: the bits of  *)
(* that number are not computed here.                                      *)
RECURSIVE HasHalf(_)
HasHalf(v) ==
    \/ v.type = "FLOAT" /\ v.data = <<2>>
    \/ \E i \in DOMAIN v.children : HasHalf(v.children[i])

(* The values the application is given with an item.                       *)
GivenValues(item) ==
    (Range(item.map) \ {Null}) \cup {item.additional[i].value : i \in DOMAIN item.additional}

(* An application that sends back a value it was given (an id, a token)    *)
(* spells it right, and in as few bytes as CBOR allows.  (What the library *)
(* composes is for clients.)                                               *)
EchoesShortest ==
    \A i \in DOMAIN handled : \A v \in GivenValues(handled[i]) :
        request.kind # "composed" /\ ~HasHalf(v) =>
            /\ Write(v) \in Encodings(v)
            /\ \A e \in Encodings(v) : Len(Write(v)) <= Len(e)

(* What the library composes, the items of its answers and notifications   *)
(* and its hello, is one map whose size is what follows, with exactly the  *)
(* fields that were given: this very reader, at the other end, finds them. *)
ComposesMaps ==
    Ended /\ request.kind = "composed" /\ ~denied =>
        Accepted /\ handled = request.said

(* What is written is what a client reads, be it a value of its own or     *)
(* what the library makes up.                                              *)
WritesWhatIsRead == EchoesShortest /\ ComposesMaps
=============================================================================
