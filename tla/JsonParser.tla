----------------------------- MODULE JsonParser -----------------------------
(***************************************************************************)
(* cJSON_Parse (src/src/contrib/cJSON.c), through which decode_message     *)
(* reads what a peer has sent.  The recursion of parse_value, parse_array  *)
(* and parse_object is a stack, and every malloc may fail: what matters is *)
(* which index is read, and who frees which block.                         *)
(***************************************************************************)
EXTENDS ParseString, FiniteSetsExt

CONSTANTS
    NestingLimit,  \* CJSON_NESTING_LIMIT
    NumberSize,    \* bytes that number_c_string has room for before its NUL
    Sources        \* the texts that are parsed

VARIABLES
    pc,      \* the next step
    depth,   \* buffer.depth
    stack,   \* parse_array and parse_object: their kind and the list at head
    root,    \* the item that cJSON_ParseWithOpts has allocated
    heap,    \* allocated blocks
    fresh,   \* the next block that malloc returns
    doomed,  \* what cJSON_Delete has yet to free
    fate     \* "ok", or what would be undefined behaviour

vars == <<text, offset, str, reach, pc, depth, stack, root, heap, fresh, doomed, fate>>

\* A block with a string, and an item; block 0 is NULL.
NoString == [block |-> 0, bytes |-> <<>>]
NewItem(b) == [block |-> b, type |-> "Invalid", name |-> NoString, value |-> NoString,
               number |-> 0, child |-> <<>>]

ASSUME ParserAssumption ==
    /\ AllocFails \in BOOLEAN
    /\ NestingLimit \in Nat /\ NumberSize \in Nat
    /\ \A s \in Sources : s \in Seq(Nat) /\ s # <<>> /\ s[Len(s)] = 0
\* Numbers without fraction and exponent, as those of the messages are.
ASSUME IntegersOnly ==
    \A s \in Sources : \A i \in 1 .. Len(s) - 1 :
        s[i] = 45 \/ s[i] \in 48..57 => s[i + 1] \notin {46, 69, 101}

Labels == {"start", "value", "item", "name", "string", "after", "fail", "done", "failed"}
ParserTypeOK ==
    /\ StringTypeOK
    /\ text \in Seq(Nat) /\ text # <<>> /\ text[Length] = 0
    /\ pc \in Labels
    /\ depth \in Nat
    /\ \A i \in DOMAIN stack : stack[i].kind \in {"Array", "Object"}
    /\ heap \in SUBSET Nat /\ fresh \in Nat
    /\ fate \in {"ok", "double free"}

-----------------------------------------------------------------------------
(* The buffer.                                                             *)

\* buffer_skip_whitespace from index o: everything up to 32, the final NUL too,
\* then one step back from the end of the buffer.
FirstBlack(o) == Min({j \in o .. Length : j = Length \/ Byte(j) > 32})
SkipWhitespace(o) == IF FirstBlack(o) = Length THEN Length - 1 ELSE FirstBlack(o)
\* The skip, and a look at the byte where it ends.
Skip(o) == offset' = SkipWhitespace(o) /\ Reads(SkipWhitespace(o))

IsAt(word) == /\ offset + Len(word) <= Length
              /\ SubSeq(text, offset + 1, offset + Len(word)) = word
Literals == [NULL  |-> <<110, 117, 108, 108>>,
             False |-> <<102, 97, 108, 115, 101>>,
             True  |-> <<116, 114, 117, 101>>]

\* skip_utf8_bom
AfterBom == IF Length > 4 /\ SubSeq(text, 1, 3) = <<239, 187, 191>> THEN 3 ELSE 0

-----------------------------------------------------------------------------
(* Items and blocks.                                                       *)

\* The item that parse_value fills: the last of the innermost list, or the root.
Top == stack[Len(stack)]
Current == IF stack = <<>> THEN root ELSE Top.list[Len(Top.list)]
SetLast(list, item) == [list EXCEPT ![Len(list)] = item]
Fill(item) ==
    IF stack = <<>> THEN root' = item /\ UNCHANGED stack
    ELSE stack' = [stack EXCEPT ![Len(stack)].list = SetLast(@, item)] /\ UNCHANGED root

\* malloc succeeds; it may also fail, by ItemFails.
Malloc == heap' = heap \cup {fresh} /\ fresh' = fresh + 1

\* cJSON_Delete, one item at a time.
Blocks(item) == {item.block, item.name.block, item.value.block} \ {0}
Delete ==
    /\ doomed # <<>>
    /\ LET item == Head(doomed) IN
         /\ fate' = IF \/ ~ Blocks(item) \subseteq heap
                       \/ item.name.block # 0 /\ item.name.block = item.value.block
                    THEN "double free" ELSE fate
         /\ heap' = heap \ Blocks(item)
         /\ doomed' = item.child \o Tail(doomed)
    /\ UNCHANGED <<text, offset, str, reach, pc, depth, stack, root, fresh>>

At(l) == pc = l /\ doomed = <<>> /\ fate = "ok"
Goto(l) == pc' = l

Init ==
    /\ text \in Sources
    /\ offset = 0 /\ reach = 0 /\ StringInit
    /\ pc = "start" /\ depth = 0 /\ stack = <<>> /\ root = NewItem(0)
    /\ heap = {} /\ fresh = 1 /\ doomed = <<>> /\ fate = "ok"

-----------------------------------------------------------------------------
(* parse_value.                                                            *)

\* cJSON_ParseWithOpts: a root, and the text from its first black byte.
cJSON_Parse ==
    /\ At("start")
    /\ Malloc /\ root' = NewItem(fresh)
    /\ Skip(AfterBom) /\ Goto("value")
    /\ UNCHANGED <<text, str, depth, stack, doomed, fate>>

\* parse_value returns to its caller.
Return(item, n) ==
    /\ Fill(item) /\ offset' = offset + n /\ Goto("after")
    /\ UNCHANGED <<text, str, depth, heap, fresh, doomed, fate>>

ParseLiteral ==
    /\ At("value")
    /\ \E l \in DOMAIN Literals :
         /\ IsAt(Literals[l])
         /\ Reads(offset + Len(Literals[l]) - 1)
         /\ Return([Current EXCEPT !.type = l], Len(Literals[l]))

\* The digits and signs that are copied for strtod, and what strtod reads: a
\* sign and the digits behind it, INT_MAX or INT_MIN at most.
IsDigit(c) == c \in 48..57
NumberBytes == 48..57 \cup {43, 45, 46, 69, 101}
Run(o, S, most) == Min({n \in 0 .. most : n = most \/ o + n >= Length \/ Byte(o + n) \notin S})
IntMax == 2147483647
IntMin == -IntMax - 1
\* What the digits stand for behind a minus sign.
Decimal[ds \in Seq(48..57)] ==
    IF ds = <<>> THEN 0
    ELSE LET v == Decimal[SubSeq(ds, 1, Len(ds) - 1)]
             d == ds[Len(ds)] - 48
         IN IF v < (IntMin + d + 9) \div 10 THEN IntMin ELSE 10 * v - d

IsNumber == Byte(offset) = 45 \/ IsDigit(Byte(offset))
Sign == IF Byte(offset) = 45 THEN 1 ELSE 0
Copied63 == Run(offset, NumberBytes, NumberSize)
Digits == IF Copied63 <= Sign THEN 0
          ELSE Run(offset + Sign, 48..57, Copied63 - Sign)

parse_number ==
    /\ At("value") /\ IsNumber
    /\ Digits > 0
    /\ LET v == Decimal[SubSeq(text, offset + Sign + 1, offset + Sign + Digits)] IN
         Return([Current EXCEPT !.type = "Number",
                                !.number = IF Sign = 1 THEN v
                                           ELSE IF v = IntMin THEN IntMax ELSE -v],
                Sign + Digits)
    /\ Reads(IF Copied63 < NumberSize THEN offset + Copied63 ELSE offset + Copied63 - 1)

\* parse_array and parse_object up to their loop: empty, or back to the byte
\* before the first element.
BeginList(k, back, count) ==
    /\ At("value") /\ Byte(offset) = Open[k]
    /\ LET o == SkipWhitespace(offset + 1) IN
         /\ Byte(o) # Close[k] /\ offset' = o - back /\ Reads(o) /\ Goto("item")
    /\ stack' = Append(stack, [kind |-> k, list |-> <<>>]) /\ depth' = depth + count
    /\ UNCHANGED <<text, str, root, heap, fresh, doomed, fate>>
ParseList_NoLimit(k) == BeginList(k, 1, 1)  \* mutant: the depth is not limited
ParseList_NoCount(k) == depth < NestingLimit /\ BeginList(k, 1, 0)  \* mutant: no depth++
ParseList_NoBack(k) == depth < NestingLimit /\ BeginList(k, 0, 1)  \* mutant: no step back
ParseList(k) == depth < NestingLimit /\ BeginList(k, 1, 1)

ParseEmpty(k) ==
    /\ At("value") /\ Byte(offset) = Open[k]
    /\ depth < NestingLimit
    /\ LET o == SkipWhitespace(offset + 1) IN
         /\ Byte(o) = Close[k] /\ offset' = o + 1 /\ Reads(o)
    /\ Fill([Current EXCEPT !.type = k]) /\ Goto("after")
    /\ UNCHANGED <<text, str, depth, heap, fresh, doomed, fate>>

BeginString ==
    /\ At("value") /\ Byte(offset) = Quote
    /\ parse_string /\ Goto("string")
    /\ UNCHANGED <<text, depth, stack, root, heap, fresh, doomed, fate>>

\* None of the above.
Recognised == \/ \E l \in DOMAIN Literals : IsAt(Literals[l])
              \/ Byte(offset) = Quote
              \/ IsNumber /\ Digits > 0
              \/ Byte(offset) \in {Open["Array"], Open["Object"]} /\ depth < NestingLimit
ValueFails ==
    /\ At("value") /\ ~Recognised
    /\ Reads(offset) /\ Goto("fail")
    /\ UNCHANGED <<text, offset, str, depth, stack, root, heap, fresh, doomed, fate>>

-----------------------------------------------------------------------------
(* The loops of parse_array and parse_object.                              *)

\* An item is allocated and put into the list, empty, before it is parsed.
NextItem ==
    /\ At("item")
    /\ Malloc
    /\ stack' = [stack EXCEPT ![Len(stack)].list = Append(@, NewItem(fresh))]
    /\ Skip(offset + 1)
    /\ Goto(IF Top.kind = "Array" THEN "value" ELSE "name")
    /\ UNCHANGED <<text, str, depth, root, doomed, fate>>

\* cJSON_New_Item fails.
ItemFails ==
    /\ AllocFails /\ (At("start") \/ At("item"))
    /\ Goto(IF pc = "start" THEN "failed" ELSE "fail")
    /\ UNCHANGED <<text, offset, str, reach, depth, stack, root, heap, fresh, doomed, fate>>

ParseName ==
    /\ At("name") /\ spc = "idle" /\ parse_string
    /\ UNCHANGED <<text, pc, depth, stack, root, heap, fresh, doomed, fate>>

StringLoops ==
    /\ (At("name") \/ At("string")) /\ StringStep
    /\ UNCHANGED <<pc, depth, stack, root, heap, fresh, doomed, fate>>

\* The string that parse_string has written, without its final NUL.
Parsed == [block |-> fresh, bytes |-> SubSeq(output, 1, Len(output) - 1)]
StringOver == /\ spc' = "idle" /\ inEnd' = 0 /\ inPtr' = 0 /\ skips' = {}
              /\ alloc' = 0 /\ output' = <<>>

StringParsed ==
    /\ At("string") /\ spc = "ok"
    /\ Fill([Current EXCEPT !.type = "String", !.value = Parsed])
    /\ Malloc /\ StringOver /\ Goto("after")
    /\ UNCHANGED <<text, offset, reach, depth, doomed, fate>>

\* The name was parsed as the item's value; the two pointers are swapped.
SwapName(value) ==
    /\ At("name") /\ spc = "ok"
    /\ Fill([Current EXCEPT !.type = "String", !.name = Parsed, !.value = value])
    /\ Malloc /\ StringOver
    /\ LET o == SkipWhitespace(offset) IN
         IF Byte(o) = Colon THEN Skip(o + 1) /\ Goto("value")
                            ELSE offset' = o /\ Reads(o) /\ Goto("fail")
    /\ UNCHANGED <<text, depth, doomed, fate>>
NameParsed_Keeps == SwapName(Parsed)  \* mutant: valuestring is not set to NULL
NameParsed == SwapName(NoString)

StringFails ==
    /\ (At("name") \/ At("string")) /\ spc = "failed"
    /\ StringOver /\ Goto("fail")
    /\ UNCHANGED <<text, offset, reach, depth, stack, root, heap, fresh, doomed, fate>>

\* The value of a list's last item is parsed.
NextElement ==
    /\ At("after") /\ stack # <<>>
    /\ Byte(SkipWhitespace(offset)) = Comma
    /\ Skip(offset) /\ Goto("item")
    /\ UNCHANGED <<text, str, depth, stack, root, heap, fresh, doomed, fate>>

\* The list is complete: it becomes the child of the item it belongs to.
Outer == SubSeq(stack, 1, Len(stack) - 1)
CloseList(list) ==
    /\ At("after") /\ stack # <<>>
    /\ LET o == SkipWhitespace(offset)
           full(item) == [item EXCEPT !.type = Top.kind, !.child = list] IN
         /\ Byte(o) = Close[Top.kind] /\ offset' = o + 1 /\ Reads(o)
         /\ IF Len(stack) = 1 THEN stack' = <<>> /\ root' = full(root)
            ELSE /\ stack' = [Outer EXCEPT ![Len(Outer)].list = SetLast(@, full(@[Len(@)]))]
                 /\ UNCHANGED root
    /\ depth' = depth - 1
    /\ UNCHANGED <<text, str, pc, heap, fresh, doomed, fate>>
EndOfList_Leaks == CloseList(<<>>)  \* mutant: item->child is not set
EndOfList == CloseList(Top.list)

ListFails ==
    /\ At("after") /\ stack # <<>>
    /\ Byte(SkipWhitespace(offset)) \notin {Comma, Close[Top.kind]}
    /\ Skip(offset) /\ Goto("fail")
    /\ UNCHANGED <<text, str, depth, stack, root, heap, fresh, doomed, fate>>

-----------------------------------------------------------------------------
(* The end.  require_null_terminated is 0: what follows a value is ignored. *)

Succeed ==
    /\ At("after") /\ stack = <<>>
    /\ Goto("done")
    /\ UNCHANGED <<text, offset, str, reach, depth, stack, root, heap, fresh, doomed, fate>>

\* Each parse_array and parse_object deletes its own list, then
\* cJSON_ParseWithOpts the root; depth stays as it is.
Fail ==
    /\ At("fail")
    /\ IF stack = <<>>
       THEN doomed' = <<root>> /\ Goto("failed") /\ UNCHANGED stack
       ELSE doomed' = Top.list /\ stack' = Outer /\ UNCHANGED pc
    /\ UNCHANGED <<text, offset, str, reach, depth, root, heap, fresh, fate>>

Next == \/ cJSON_Parse \/ ParseLiteral \/ parse_number \/ BeginString \/ ValueFails
        \/ \E k \in {"Array", "Object"} : ParseList(k) \/ ParseEmpty(k)
        \/ NextItem \/ ItemFails \/ ParseName \/ StringLoops
        \/ StringParsed \/ NameParsed \/ StringFails
        \/ NextElement \/ EndOfList \/ ListFails
        \/ Succeed \/ Fail \/ Delete

Spec == Init /\ [][Next]_vars
FairSpec == Spec /\ WF_vars(Next)

-----------------------------------------------------------------------------
(* What has to hold.                                                       *)

\* No block is freed twice, whatever malloc fails and wherever the text breaks
\* off (the lists of parse_array and parse_object, the swapped name pointers).
NoDoubleFree == fate = "ok"

\* The items of a tree, level by level; their three blocks, and who has them.
Level[n \in Nat] == IF n = 0 THEN {root} ELSE UNION {Range(x.child) : x \in Level[n - 1]}
TreeItems == UNION {Level[n] : n \in 0 .. NestingLimit}
Single(item) == /\ item.block \notin {item.name.block, item.value.block}
                /\ item.name.block # 0 => item.name.block # item.value.block
OwnedOnce ==
    /\ \A x \in TreeItems : Single(x) /\ root \notin Range(x.child)
    /\ \A x, y \in TreeItems : x # y => Blocks(x) \cap Blocks(y) = {}
    /\ \A x, y \in TreeItems : \A i \in DOMAIN x.child, j \in DOMAIN y.child :
          x.child[i] = y.child[j] => x = y /\ i = j

\* Nothing is left of a text that is not accepted; of one that is accepted there
\* is the tree, every block belongs to one item of it, and every item is in one
\* place.
Ended == pc \in {"done", "failed"} /\ doomed = <<>>
NothingLeaks ==
    Ended => /\ alloc = 0
             /\ pc = "failed" => heap = {}
             /\ pc = "done" => heap = UNION {Blocks(x) : x \in TreeItems} /\ OwnedOnce

\* The recursion is as deep as the depth that is counted, which is limited, so
\* that no text exhausts the C stack.
NestingBounded ==
    /\ Len(stack) <= NestingLimit
    /\ pc \notin {"fail", "failed"} => depth = Len(stack)
=============================================================================
