--------------------------------- MODULE Link ---------------------------------
(***************************************************************************)
(* What becomes of a message on its way from send_message to read_message: *)
(* encode_message, the bytes that send_encoded_message writes,             *)
(* read_json_object that cuts objects out of the bytes that have arrived   *)
(* (src/src/server.c), cJSON_Parse and decode_message.  One application    *)
(* sends on one connection, one handler at a time reads from it.           *)
(***************************************************************************)
EXTENDS Encoder, JsonParser

CONSTANTS
    MaxSent,  \* bound: messages that are sent
    Grain     \* bound: arrivals end at the end of a message or at a multiple of this

VARIABLES
    sent,      \* what send_message and send_keep_alive have written
    wire,      \* the bytes not yet read
    arrived,   \* how many of them have arrived
    decoding,  \* is decode_message at work
    dropped,   \* why the server has destroyed the connection, "" while it has not
    got        \* what decode_message has made of the objects

\* A valve number is an int that only messages about valves have.
ASSUME LinkAssumption ==
    /\ MaxSent \in Nat /\ Grain \in Nat \ {0}
    /\ \A m \in Messages : /\ m.valve \in IntMin .. IntMax
                           /\ m.type # "HARD_ERROR_VALVE" => m.valve = 0
                           /\ m.type = "KEEP_ALIVE" => m.text = <<>>

linkVars == <<encoderVars, vars, sent, wire, arrived, decoding, dropped, got>>

LinkInit ==
    /\ EncoderInit
    /\ text = <<0>> /\ offset = 0 /\ reach = 0 /\ StringInit
    /\ pc = "done" /\ depth = 0 /\ stack = <<>> /\ root = NewItem(0)
    /\ heap = {} /\ fresh = 1 /\ doomed = <<>> /\ fate = "ok"
    /\ sent = <<>> /\ wire = <<>> /\ arrived = 0
    /\ decoding = FALSE /\ dropped = "" /\ got = <<>>

ReaderIdle == ~decoding /\ doomed = <<>>
SenderIdle == todo = <<>> /\ out = <<>>
\* All that is sent is sent before anything arrives: it may still arrive late.
MaySend == /\ SenderIdle /\ ReaderIdle /\ Len(sent) < MaxSent
           /\ arrived = 0 /\ got = <<>> /\ dropped = ""

-----------------------------------------------------------------------------
(* The sender.                                                             *)

LBrace == Open["Object"]
RBrace == Close["Object"]
Count(c, bytes) == Cardinality({i \in DOMAIN bytes : bytes[i] = c})
\* Nothing is missing, and read_json_object finds the end where it is.
Balanced(bytes) ==
    /\ Count(LBrace, bytes) = Count(RBrace, bytes)
    /\ \A n \in 1 .. Len(bytes) - 1 :
         Count(LBrace, SubSeq(bytes, 1, n)) > Count(RBrace, SubSeq(bytes, 1, n))

send_message ==
    /\ MaySend
    /\ \E m \in Messages : encode_message(m)
    /\ UNCHANGED <<vars, sent, wire, arrived, decoding, dropped, got>>

Encode ==
    /\ EncodeStep
    /\ UNCHANGED <<vars, sent, wire, arrived, decoding, dropped, got>>

\* The fields that encode_message has added, or wanted to.
Wanted == {Steps(msg.type)[i].name : i \in {j \in DOMAIN Steps(msg.type) : Steps(msg.type)[j].op = "add"}}
Complete == ToSet(kids.root) \cup ToSet(kids.data) = Wanted

Written(m, bytes, whole) ==
    /\ wire' = wire \o bytes
    /\ sent' = Append(sent, [msg |-> m, whole |-> whole /\ Balanced(bytes)])

\* At most MAX_ENCODED_LEN bytes are written, and encoded is freed.
send_encoded_message ==
    /\ todo = <<>> /\ out # <<>>
    /\ Written(msg, SubSeq(out, 1, Strnlen), Strnlen = Len(out) /\ Complete)
    /\ Free /\ UNCHANGED <<msg, todo, kids, room, refused>>
    /\ UNCHANGED <<vars, arrived, decoding, dropped, got>>

\* {"version":2,"data":{},"type":"KEEP_ALIVE"}
keep_alive_msg == <<LBrace, 34, 118, 34, 58, 50, 44, 34, 100, 34, 58, LBrace, RBrace, 44,
                    34, 116, 34, 58, 34, 75, 34, RBrace>>
KeepAlive == [type |-> "KEEP_ALIVE", text |-> <<>>, valve |-> 0]
send_keep_alive ==
    /\ MaySend
    /\ Written(KeepAlive, keep_alive_msg, TRUE)
    /\ UNCHANGED <<encoderVars, vars, arrived, decoding, dropped, got>>

\* What is written arrives in order and in pieces, that may end within an object.
Arrive ==
    /\ SenderIdle /\ ReaderIdle
    /\ arrived' \in {n \in arrived + 1 .. Len(wire) :
                       n = Len(wire) \/ n % Grain = 0 \/ Balanced(SubSeq(wire, 1, n))}
    /\ UNCHANGED <<encoderVars, vars, sent, wire, decoding, dropped, got>>

-----------------------------------------------------------------------------
(* The server.                                                             *)

Reading == SenderIdle /\ ReaderIdle /\ arrived > 0

\* read_json_object counts braces, those in strings too, until none is open.
Take_All(n) == wire' = <<>> /\ arrived' = 0  \* mutant: one object per arrival
Take(n) == wire' = SubSeq(wire, n + 1, Len(wire)) /\ arrived' = arrived - n
FetchObject ==
    /\ Reading /\ wire[1] = LBrace
    /\ \E n \in 1..arrived :
         /\ Balanced(SubSeq(wire, 1, n)) /\ Take(n)
         /\ text' = SubSeq(wire, 1, n) \o <<0>>
    /\ decoding' = TRUE /\ pc' = "start" /\ root' = NewItem(0)
    /\ offset' = 0 /\ reach' = 0 /\ depth' = 0 /\ fresh' = 1
    /\ UNCHANGED <<encoderVars, str, stack, heap, doomed, fate, sent, dropped, got>>

\* The first byte is no brace (nor a newline, which the printer escapes), or the
\* braces that have arrived do not match.
FetchError ==
    /\ Reading
    /\ \/ wire[1] # LBrace /\ dropped' = "garbage"
       \/ /\ wire[1] = LBrace
          /\ \A n \in 1..arrived : ~Balanced(SubSeq(wire, 1, n))
          /\ dropped' = "partial"
    /\ wire' = <<>> /\ arrived' = 0
    /\ UNCHANGED <<encoderVars, vars, sent, decoding, got>>

ParseStep ==
    /\ decoding /\ Next
    /\ UNCHANGED <<encoderVars, sent, wire, arrived, decoding, dropped, got>>

\* cJSON_GetObjectItem: the first child with the name, in any case.
Lower(c) == IF c \in 65..90 THEN c + 32 ELSE c
SameName(a, b) == [i \in DOMAIN a |-> Lower(a[i])] = [i \in DOMAIN b |-> Lower(b[i])]
Missing == [NewItem(0) EXCEPT !.type = "missing"]
Named(object, name) == {i \in DOMAIN object.child : SameName(object.child[i].name.bytes, name)}
Item(object, name) == IF Named(object, name) = {} THEN Missing
                      ELSE object.child[Min(Named(object, name))]

\* decode_message on the tree, and "Could not decode message" of fetch_item.
Bad == [type |-> "bad", text |-> <<>>, valve |-> 0]
Decoded(tree) ==
    LET version == Item(tree, Name["version"])
        data == Item(tree, Name["data"])
        type == Item(tree, Name["type"])
        message == Item(data, Name["message"])
        valve_no == Item(data, Name["valve_no"])
        Is(t) == IsPrefix(IF t = "SOFT_ERROR" THEN <<83>> ELSE TypeName[t], type.value.bytes)
        Said(t, n) == IF message.type = "String"
                      THEN [type |-> t, text |-> message.value.bytes, valve |-> n] ELSE Bad
    IN CASE \/ version.type # "Number" \/ version.number # DATA_FORMAT_VERSION
            \/ data = Missing \/ type.type # "String" -> Bad
         [] Is("SOFT_ERROR") -> Said("SOFT_ERROR", 0)
         [] Is("HARD_ERROR_OTHER") -> Said("HARD_ERROR_OTHER", 0)
         [] Is("HARD_ERROR_VALVE") /\ valve_no.type = "Number" ->
              Said("HARD_ERROR_VALVE", valve_no.number)
         [] type.value.bytes = TypeName["KEEP_ALIVE"] -> KeepAlive
         [] OTHER -> Bad

decode_message ==
    /\ decoding /\ pc \in {"done", "failed"} /\ doomed = <<>>
    /\ got' = Append(got, IF pc = "done" THEN Decoded(root) ELSE Bad)
    /\ doomed' = IF pc = "done" THEN <<root>> ELSE <<>>
    /\ root' = NewItem(0) /\ decoding' = FALSE
    /\ UNCHANGED <<encoderVars, text, offset, str, reach, pc, depth, stack, heap, fresh, fate>>
    /\ UNCHANGED <<sent, wire, arrived, dropped>>
DeleteTree ==
    /\ ~decoding /\ Delete
    /\ UNCHANGED <<encoderVars, sent, wire, arrived, decoding, dropped, got>>

LinkNext ==
    \/ send_message \/ Encode \/ send_encoded_message \/ send_keep_alive \/ Arrive
    \/ FetchObject \/ FetchError \/ ParseStep \/ decode_message \/ DeleteTree

LinkSpec == LinkInit /\ [][LinkNext]_linkVars

-----------------------------------------------------------------------------
\* Whatever the text of a message is, however it is cut and wherever an arrival
\* ends, what is delivered was sent, in this order and only once: at worst a
\* message is lost, or reported as one that could not be decoded.
NothingInvented ==
    LET real == SelectSeq(got, LAMBDA m : m # Bad)
    IN \E f \in [DOMAIN real -> DOMAIN sent] :
         /\ \A i \in DOMAIN real : real[i] = sent[f[i]].msg
         /\ \A i, j \in DOMAIN real : i < j => f[i] < f[j]

\* Messages with balanced braces that are not cut are delivered as they were
\* sent, bytes that JSON escapes included, each once, in order and with nothing
\* between them, up to the first arrival that ends within an object and costs the
\* connection.  If none does they all arrive, whatever is sent after them.
WholeMessagesArrive ==
    \A k \in DOMAIN sent : (\A i \in 1..k : sent[i].whole) =>
        /\ \A i \in 1..k : i <= Len(got) => got[i] = sent[i].msg
        /\ k = Len(sent) => Len(got) <= k /\ dropped \in {"", "partial"}
        /\ (SenderIdle /\ ReaderIdle /\ wire = <<>> /\ dropped # "partial") => Len(got) >= k
=============================================================================
