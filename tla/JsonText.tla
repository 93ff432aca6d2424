------------------------------- MODULE JsonText -------------------------------
(***************************************************************************)
(* The bytes of JSON that the parser and the printer of cJSON              *)
(* (src/src/contrib/cJSON.c) have in common, as their codes.               *)
(***************************************************************************)
EXTENDS Integers, Sequences

Quote == 34
Backslash == 92
LetterU == 117
\* b f n r t, and the three bytes that stand for themselves.
Escapes == [c \in {98, 102, 110, 114, 116, Quote, Backslash, 47} |->
              CASE c = 98 -> 8 [] c = 102 -> 12 [] c = 110 -> 10 [] c = 114 -> 13
                [] c = 116 -> 9 [] OTHER -> c]

Comma == 44   Colon == 58
Open == [Array |-> 91, Object |-> 123]
Close == [Array |-> 93, Object |-> 125]

\* What print_number writes for an integer.
Numeral[n \in Nat] == (IF n < 10 THEN <<>> ELSE Numeral[n \div 10]) \o <<48 + (n % 10)>>
PrintNumber(n) == IF n < 0 THEN <<45>> \o Numeral[-n] ELSE Numeral[n]
=============================================================================
