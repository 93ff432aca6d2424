----------------------------- MODULE ParseString -----------------------------
(***************************************************************************)
(* parse_string of the JSON parser (src/src/contrib/cJSON.c): a string is  *)
(* measured, memory is allocated by that measure, and the string is copied *)
(* into it with its escape sequences resolved.  The two loops read the     *)
(* same bytes differently, and nothing but arithmetic keeps the second     *)
(* inside the memory that the first asked for.                             *)
(*                                                                         *)
(* Bytes are their codes and indices count from 0, as in C.  One step is   *)
(* one iteration of a loop.                                                *)
(***************************************************************************)
EXTENDS JsonText, FiniteSets

CONSTANT AllocFails  \* may malloc return NULL

VARIABLES
    text,    \* buffer.content with its final NUL
    offset,  \* buffer.offset
    spc,     \* the next step of parse_string
    inEnd,   \* input_end
    inPtr,   \* input_pointer
    skips,   \* where the measuring loop has skipped a byte
    alloc,   \* bytes allocated for output, 0 while it is NULL
    output,  \* what has been written to it
    reach    \* the highest index that has been read so far

str == <<spc, inEnd, inPtr, skips, alloc, output>>

Length == Len(text)
\* A read past the end finds anything; here a NUL.
Byte(i) == IF i < Length THEN text[i + 1] ELSE 0
Reads(i) == reach' = IF i > reach THEN i ELSE reach

StringTypeOK ==
    /\ offset \in Nat /\ inEnd \in Nat /\ inPtr \in Nat /\ alloc \in Nat
    /\ spc \in {"idle", "measure", "allocate", "copy", "ok", "failed"}
    /\ skips \in SUBSET Nat /\ IsFiniteSet(skips)
    /\ output \in Seq(Nat)
    /\ reach \in Nat

StringInit == /\ spc = "idle" /\ inEnd = 0 /\ inPtr = 0
              /\ skips = {} /\ alloc = 0 /\ output = <<>>

-----------------------------------------------------------------------------
\* free(output), and the offset is left where the input could not be read.
Fails == /\ spc' = "failed" /\ alloc' = 0 /\ output' = <<>> /\ offset' = inPtr

\* The caller has made sure that there is a byte at offset.
parse_string ==
    /\ spc' = IF Byte(offset) = Quote THEN "measure" ELSE "failed"
    /\ inPtr' = offset + 1 /\ inEnd' = offset + 1
    /\ offset' = IF Byte(offset) = Quote THEN offset ELSE offset + 1
    /\ skips' = {} /\ alloc' = 0 /\ output' = <<>>
    /\ Reads(offset)

\* One iteration: a plain byte, or a backslash that is skipped (S) with the byte
\* after it.
MeasureByte(S, n) ==
    /\ spc = "measure" /\ inEnd < Length /\ Byte(inEnd) # Quote
    /\ IF Byte(inEnd) # Backslash
       THEN inEnd' = inEnd + n /\ UNCHANGED <<offset, spc, skips, alloc, output>>
       ELSE IF inEnd + 1 >= Length
       THEN Fails /\ UNCHANGED <<inEnd, skips>>
       ELSE /\ skips' = skips \cup S /\ inEnd' = inEnd + 2
            /\ UNCHANGED <<offset, spc, alloc, output>>
    /\ Reads(inEnd) /\ UNCHANGED <<text, inPtr>>
Measure_Pairs == MeasureByte({inEnd, inEnd + 1}, 1)  \* mutant: both bytes count as skipped
Measure_Stuck == MeasureByte({inEnd}, 0)  \* mutant: input_end stays at a plain byte
Measure_Unguarded == \* mutant: no check that the byte after a backslash exists
    /\ spc = "measure" /\ Byte(inEnd) # Quote /\ inEnd <= Length
    /\ skips' = IF Byte(inEnd) = Backslash THEN skips \cup {inEnd} ELSE skips
    /\ inEnd' = inEnd + IF Byte(inEnd) = Backslash THEN 2 ELSE 1
    /\ Reads(inEnd) /\ UNCHANGED <<text, offset, spc, inPtr, alloc, output>>
Measure == MeasureByte({inEnd}, 1)

\* The closing quote is found, or there is none.
Measured ==
    /\ spc = "measure" /\ (inEnd < Length => Byte(inEnd) = Quote)
    /\ IF inEnd < Length
       THEN spc' = "allocate" /\ Reads(inEnd) /\ UNCHANGED <<offset, alloc, output>>
       ELSE Fails /\ UNCHANGED reach
    /\ UNCHANGED <<text, inEnd, inPtr, skips>>

\* allocation_length, and one byte for the final NUL.
Allocate ==
    /\ spc = "allocate"
    /\ alloc' = inEnd - offset - Cardinality(skips) + 1
    /\ spc' = "copy"
    /\ UNCHANGED <<text, offset, inEnd, inPtr, skips, output, reach>>

AllocateFails ==
    /\ AllocFails /\ spc = "allocate"
    /\ Fails /\ UNCHANGED <<text, inEnd, inPtr, skips, reach>>

-----------------------------------------------------------------------------
(* The copying loop.                                                       *)

HexDigit(c) == CASE c \in 48..57 -> c - 48
                 [] c \in 65..70 -> c - 55
                 [] c \in 97..102 -> c - 87
                 [] OTHER -> -1
\* An invalid digit makes the whole code 0, and is no error.
parse_hex4(i) ==
    IF \E k \in 0..3 : HexDigit(Byte(i + k)) = -1 THEN 0
    ELSE 4096 * HexDigit(Byte(i)) + 256 * HexDigit(Byte(i + 1))
           + 16 * HexDigit(Byte(i + 2)) + HexDigit(Byte(i + 3))

Low == 56320..57343    \* 0xDC00..0xDFFF
High == 55296..56319   \* 0xD800..0xDBFF

Utf8Size(c) == IF c < 128 THEN 1 ELSE IF c < 2048 THEN 2 ELSE IF c < 65536 THEN 3 ELSE 4
Mark == <<0, 192, 224, 240>>        \* first_byte_mark
Shift == <<1, 64, 4096, 262144>>
Utf8(c) == LET n == Utf8Size(c)
           IN [j \in 1..n |-> IF j = 1 THEN Mark[n] + c \div Shift[n]
                              ELSE 128 + ((c \div Shift[n - j + 1]) % 64)]

Copying == spc = "copy" /\ inPtr < inEnd
Write(bytes, n) == /\ output' = output \o bytes /\ inPtr' = inPtr + n
                   /\ UNCHANGED <<text, offset, spc, inEnd, skips, alloc>>

CopyPlain ==
    /\ Copying /\ Byte(inPtr) # Backslash
    /\ Write(<<Byte(inPtr)>>, 1) /\ Reads(inPtr)

CopyEscape ==
    /\ Copying /\ Byte(inPtr) = Backslash /\ Byte(inPtr + 1) \in DOMAIN Escapes
    /\ Write(<<Escapes[Byte(inPtr + 1)]>>, 2) /\ Reads(inPtr + 1)

IsLiteral == Copying /\ Byte(inPtr) = Backslash /\ Byte(inPtr + 1) = LetterU
first_code == parse_hex4(inPtr + 2)
second_code == parse_hex4(inPtr + 8)

\* utf16_literal_to_utf8 with one sequence, \uXXXX.
CopyLiteral ==
    /\ IsLiteral /\ inEnd - inPtr >= 6 /\ first_code \notin Low \cup High
    /\ Write(Utf8(first_code), 6) /\ Reads(inPtr + 5)

\* And with a surrogate pair.
HasSecond == /\ inEnd - inPtr >= 12
             /\ Byte(inPtr + 6) = Backslash /\ Byte(inPtr + 7) = LetterU
             /\ second_code \in Low
CopyPair ==
    /\ IsLiteral /\ inEnd - inPtr >= 6 /\ first_code \in High /\ HasSecond
    /\ Write(Utf8(65536 + 1024 * (first_code - 55296) + (second_code - 56320)), 12)
    /\ Reads(inPtr + 11)

BadLiteral == \/ inEnd - inPtr < 6
              \/ first_code \in Low
              \/ first_code \in High /\ ~HasSecond
CopyFails ==
    /\ Copying /\ Byte(inPtr) = Backslash
    /\ \/ Byte(inPtr + 1) \notin DOMAIN Escapes \cup {LetterU} /\ Reads(inPtr + 1)
       \/ IsLiteral /\ BadLiteral
          /\ Reads(CASE inEnd - inPtr < 6 -> inPtr + 1
                     [] first_code \in High /\ inEnd - inPtr >= 12 -> inPtr + 11
                     [] OTHER -> inPtr + 5)
    /\ Fails /\ UNCHANGED <<text, inEnd, inPtr, skips>>

\* *output_pointer = '\0', and the closing quote is consumed.
Copied ==
    /\ spc = "copy" /\ inPtr >= inEnd
    /\ spc' = "ok" /\ output' = Append(output, 0) /\ offset' = inEnd + 1
    /\ UNCHANGED <<text, inEnd, inPtr, skips, alloc, reach>>

StringStep == \/ Measure \/ Measured \/ Allocate \/ AllocateFails
              \/ CopyPlain \/ CopyEscape \/ CopyLiteral \/ CopyPair \/ CopyFails \/ Copied

\* Nothing is written past the memory that the measuring loop asked for.
WritesFit == alloc > 0 => Len(output) <= alloc
\* Nothing is read past the NUL that ends the text.
ReadsFit == reach < Length
=============================================================================
