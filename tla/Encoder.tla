------------------------------- MODULE Encoder -------------------------------
(***************************************************************************)
(* encode_message (src/src/representation.c): a tree of cJSON items is     *)
(* built, printed into a buffer that grows, and deleted.  Every malloc may *)
(* fail, and cJSON reports some of the failures and swallows others.       *)
(*                                                                         *)
(* The names "version", "data", "type", "message", "valve_no" and the      *)
(* names of the message types are one byte each.  A name stands for the    *)
(* item that has it, and also for what was allocated for it.               *)
(***************************************************************************)
EXTENDS JsonText, FiniteSetsExt, SequencesExt

CONSTANTS
    Messages,         \* the messages that applications send
    MAX_ENCODED_LEN,  \* bytes of an encoded message that are sent
    MaxRefused        \* bound: how often malloc and realloc return NULL

VARIABLES
    msg,      \* the message that is encoded
    todo,     \* what encode_message and print have yet to do
    kids,     \* the children of the objects root and data, in their order
    blocks,   \* what is allocated: <<name, "item" | "key" | "value">>, <<"buffer">>
    out,      \* what has been printed
    used,     \* how much of the buffer has been written
    room,     \* printbuffer.length
    refused   \* the calls for which there was no memory

encoderVars == <<msg, todo, kids, blocks, out, used, room, refused>>

DATA_FORMAT_VERSION == 2
Printable == {"SOFT_ERROR", "HARD_ERROR_OTHER", "HARD_ERROR_VALVE"}
ASSUME EncoderAssumption ==
    /\ Messages \subseteq [type : Printable \cup {"KEEP_ALIVE", "INVALID"},
                           text : Seq(1..255), valve : Int]
    /\ MAX_ENCODED_LEN \in Nat \ {0} /\ MaxRefused \in Nat

Name == [version |-> <<118>>, data |-> <<100>>, type |-> <<116>>,
         message |-> <<109>>, valve_no |-> <<110>>]
\* Of SOFT_ERROR the receiver compares only the beginning, SOFT_ERR.
TypeName == [SOFT_ERROR |-> <<83, 82>>, HARD_ERROR_OTHER |-> <<79>>,
             HARD_ERROR_VALVE |-> <<86>>, KEEP_ALIVE |-> <<75>>]

EncoderInit ==
    /\ msg = [type |-> "INVALID", text |-> <<>>, valve |-> 0]
    /\ todo = <<>> /\ kids = [root |-> <<>>, data |-> <<>>]
    /\ blocks = {} /\ out = <<>> /\ used = 0 /\ room = 0 /\ refused = <<>>

-----------------------------------------------------------------------------
(* The items.                                                              *)

Do(op, f) == [op |-> op, name |-> f]
Steps(t) ==
    <<Do("new", "version"), Do("new", "root"), Do("add", "version"),
      Do("new", "data"), Do("add", "data")>>
    \o (IF t = "INVALID" THEN <<Do("refuse", "root")>>
        ELSE <<Do("new", "type"), Do("add", "type")>>)
    \o (IF t \in Printable THEN <<Do("new", "message"), Do("add", "message")>> ELSE <<>>)
    \o (IF t = "HARD_ERROR_VALVE" THEN <<Do("new", "valve_no"), Do("add", "valve_no")>> ELSE <<>>)
    \o <<Do("print", "root")>>

Parent(f) == IF f \in {"message", "valve_no"} THEN "data" ELSE "root"
Pending(l) == todo # <<>> /\ Head(todo).op = l
Field == Head(todo).name
Refuse(l) == Len(refused) < MaxRefused /\ refused' = Append(refused, l)

\* What cJSON_Delete frees of an item and of what is linked below it.
Own(f) == {<<f, p>> : p \in {"item", "key", "value"}}
Linked(f) == IF f \in DOMAIN kids THEN ToSet(kids[f]) ELSE {}
Tree(f) == UNION {Own(g) : g \in {f} \cup Linked(f) \cup UNION {Linked(h) : h \in Linked(f)}}

encode_message(m) ==
    /\ todo = <<>>
    /\ msg' = m /\ todo' = Steps(m.type)
    /\ kids' = [root |-> <<>>, data |-> <<>>] /\ out' = <<>> /\ used' = 0 /\ room' = 0
    /\ UNCHANGED <<blocks, refused>>

\* cJSON_CreateNumber, cJSON_CreateObject and cJSON_CreateString.
Create ==
    /\ Pending("new")
    /\ blocks' = blocks \cup ({<<Field, "item">>} \cup
                    IF Field \in {"type", "message"} THEN {<<Field, "value">>} ELSE {})
    /\ todo' = Tail(todo)
    /\ UNCHANGED <<msg, kids, out, used, room, refused>>

\* encode_message returns -1, out is the NULL that the caller has put there.
Abandon(freed) == /\ blocks' = blocks \ freed /\ todo' = <<>>
                  /\ out' = <<>> /\ used' = 0
                  /\ UNCHANGED <<msg, kids, room>>

\* NULL_CHECK: an item, or the string of one, could not be allocated.
CreateFails_Root == \* mutant: the version number that has no root yet is not deleted
    Pending("new") /\ Refuse("item") /\ Abandon(Tree("root"))
CreateFails ==
    /\ Pending("new") /\ Refuse("item")
    /\ Abandon(IF Field = "root" THEN Tree("version") ELSE Tree("root"))

\* cJSON_AddItemToObject with its copy of the name.
Add ==
    /\ Pending("add")
    /\ kids' = [kids EXCEPT ![Parent(Field)] = Append(@, Field)]
    /\ blocks' = blocks \cup {<<Field, "key">>} /\ todo' = Tail(todo)
    /\ UNCHANGED <<msg, out, used, room, refused>>

\* Without memory for the name the item is not linked, and nobody is told.
AddIsIgnored ==
    /\ Pending("add") /\ Refuse("key") /\ todo' = Tail(todo)
    /\ UNCHANGED <<msg, kids, blocks, out, used, room>>

RefuseType == Pending("refuse") /\ Abandon(Tree("root")) /\ UNCHANGED refused

-----------------------------------------------------------------------------
(* cJSON_PrintUnformatted.                                                 *)

\* print_string_ptr counts what each byte adds, then writes.
Letter(c) == CHOOSE l \in DOMAIN Escapes : l # 47 /\ Escapes[l] = c
Short == {Escapes[l] : l \in DOMAIN Escapes \ {47}}
Extra_Short(c) == IF c \in Short \/ c < 32 THEN 1 ELSE 0  \* mutant: \u costs one byte
Extra(c) == IF c \in Short THEN 1 ELSE IF c < 32 THEN 5 ELSE 0
Hex(d) == IF d < 10 THEN 48 + d ELSE 87 + d
Escaped_Plain(c) == IF c = Quote THEN <<Backslash, Quote>> ELSE <<c>>  \* mutant: only quotes are
Escaped(c) == IF c \in Short THEN <<Backslash, Letter(c)>>
              ELSE IF c < 32 THEN <<Backslash, LetterU, 48, 48, Hex(c \div 16), Hex(c % 16)>>
              ELSE <<c>>

\* One call of ensure, for n bytes, and what is then written: a string, mostly with
\* its NUL, without which update_offset would count what was there before.
Piece(bytes, n, end) == [op |-> "piece", bytes |-> bytes, need |-> n, size |-> Len(bytes) + end]
StringPiece(s) ==
    Piece(<<Quote>> \o FlattenSeq([i \in DOMAIN s |-> Escaped(s[i])]) \o <<Quote>>,
          FoldLeft(LAMBDA n, c : n + 1 + Extra(c), 0, s) + 3, 1)
NumberPiece(n) == Piece(PrintNumber(n), Len(PrintNumber(n)), 1)

\* An object of the fields, of which each has its value printed.
print_object(fields, value) ==
    <<Piece(<<Open["Object"]>>, 2, 0)>>
    \o FlattenSeq([i \in DOMAIN fields |->
           <<StringPiece(Name[fields[i]]), Piece(<<Colon>>, 1, 0)>> \o value[fields[i]]
           \o <<IF i < Len(fields) THEN Piece(<<Comma>>, 2, 1) ELSE Piece(<<>>, 1, 1)>>])
    \o <<Piece(<<Close["Object"]>>, 2, 1)>>

Scalar(f) == CASE f = "version"  -> <<NumberPiece(DATA_FORMAT_VERSION)>>
               [] f = "type"     -> <<StringPiece(TypeName[msg.type])>>
               [] f = "message"  -> <<StringPiece(msg.text)>>
               [] f = "valve_no" -> <<NumberPiece(msg.valve)>>
print_value(f) == IF f = "data"
                  THEN print_object(kids.data, [g \in ToSet(kids.data) |-> Scalar(g)])
                  ELSE Scalar(f)

BeginPrint ==
    /\ Pending("print")
    /\ todo' = print_object(kids.root, [f \in ToSet(kids.root) |-> print_value(f)])
                \o <<Do("shrink", "root")>>
    /\ blocks' = blocks \cup {<<"buffer">>}
    /\ UNCHANGED <<msg, kids, out, used, room, refused>>

BeginPrintFails == Pending("print") /\ Refuse("print") /\ Abandon(Tree("root"))

\* ensure, which would fail on an offset outside of the buffer.
Needed == Head(todo).need + Len(out) + 1
PrintPiece ==
    /\ Pending("piece") /\ (room = 0 \/ Len(out) < room)
    /\ room' = IF Needed <= room THEN room ELSE 2 * Needed
    /\ out' = out \o Head(todo).bytes /\ used' = Len(out) + Head(todo).size
    /\ todo' = Tail(todo)
    /\ UNCHANGED <<msg, kids, blocks, refused>>

PrintFails ==
    /\ Pending("piece") /\ Needed > room
    /\ Refuse("print") /\ Abandon(Tree("root") \cup {<<"buffer">>})

\* The buffer is given its final size; its address is forgotten before.
Shrink == /\ Pending("shrink")
          /\ todo' = Tail(todo) /\ blocks' = blocks \ Tree("root")
          /\ UNCHANGED <<msg, kids, out, used, room, refused>>
ShrinkFails == Pending("shrink") /\ Refuse("shrink") /\ Abandon(Tree("root"))

\* The length that encode_message returns, and that is sent.
Strnlen == IF Len(out) < MAX_ENCODED_LEN THEN Len(out) ELSE MAX_ENCODED_LEN

\* free(encoded) of send_message.
Free == blocks' = blocks \ {<<"buffer">>} /\ out' = <<>> /\ used' = 0

EncodeStep ==
    \/ Create \/ CreateFails \/ Add \/ AddIsIgnored \/ RefuseType
    \/ BeginPrint \/ BeginPrintFails \/ PrintPiece \/ PrintFails \/ Shrink \/ ShrinkFails

-----------------------------------------------------------------------------
\* Nothing is written past the end of the buffer: the bytes that ensure is asked
\* for, counted before a string is escaped, are enough for what is then written.
PrintFits == used <= room \/ used = 0

\* A message whose encoding is over, sent or given up, leaves nothing allocated,
\* unless cJSON has lost the name of an item or the last realloc has failed.
EncodeCleansUp ==
    (todo = <<>> /\ \A i \in DOMAIN refused : refused[i] \in {"item", "print"})
        => blocks = IF out = <<>> THEN {} ELSE {<<"buffer">>}
=============================================================================
