--------------------------- MODULE JsonProperties ---------------------------
(***************************************************************************)
(* What the parser in src/src/contrib/cJSON.c has to guarantee to the      *)
(* server that hands it whatever a peer has sent.                          *)
(***************************************************************************)
EXTENDS JsonParser, SequencesExt

\* cJSON_PrintUnformatted for items whose strings need no escape.
RECURSIVE Printed(_)
PrintString(s) == <<Quote>> \o s.bytes \o <<Quote>>
Separated(parts) == FlattenSeq([i \in DOMAIN parts |-> IF i = 1 THEN parts[1] ELSE <<Comma>> \o parts[i]])
Printed(item) ==
    CASE item.type = "String" -> PrintString(item.value)
      [] item.type = "Number" -> PrintNumber(item.number)
      [] item.type \in DOMAIN Literals -> Literals[item.type]
      [] OTHER ->
           <<Open[item.type]>>
           \o Separated([i \in DOMAIN item.child |->
                (IF item.type = "Object" THEN PrintString(item.child[i].name) \o <<Colon>> ELSE <<>>)
                \o Printed(item.child[i])])
           \o <<Close[item.type]>>

\* What is accepted is what the tree prints, white space outside strings aside:
\* no byte is skipped, read twice or invented.  Escapes and leading zeros have
\* other spellings, and texts with them are left out.
Black(bytes) == LET quotes(i) == Cardinality({j \in 1 .. i : bytes[j] = Quote}) % 2
                IN FlattenSeq([i \in DOMAIN bytes |->
                                  IF bytes[i] > 32 \/ quotes(i) = 1 THEN <<bytes[i]>> ELSE <<>>])
AcceptedPrintsBack ==
    (pc = "done" /\ \A i \in DOMAIN text : text[i] \notin {Backslash, 48}) =>
        Black(SubSeq(text, AfterBom + 1, offset)) = Printed(root)

\* The parser comes to an end on every text.
EveryTextEnds == <>Ended
=============================================================================
