------------------------------- MODULE MCJson -------------------------------
(* Texts for TLC, as the codes of their bytes.                             *)
EXTENDS JsonProperties

Texts(S, n) == UNION {[1..k -> S] : k \in 0..n}
\* Everything that is one byte away from s.
Broken(s, S) == {s} \cup {RemoveAt(s, i) : i \in DOMAIN s}
                    \cup {[s EXCEPT ![i] = c] : i \in DOMAIN s, c \in S}

\* All short texts of:  { } [ ] " : , 1 and a space.
Structure == {123, 125, 91, 93, 34, 58, 44, 49, 32}
\* [[1,"a"],{"a":null}]
Lists == <<91, 91, 49, 44, 34, 97, 34, 93, 44, 123, 34, 97, 34, 58, 110, 117, 108, 108, 125, 93>>
\* {"a":-12,"b":{"c":"d"} }
Message == <<123, 34, 97, 34, 58, 45, 49, 50, 44, 34, 98, 34, 58, 123,
             34, 99, 34, 58, 34, 100, 34, 125, 32, 125>>
\* [[[[1]]]], and a byte order mark before a number
Deep == <<91, 91, 91, 91, 49, 93, 93, 93, 93>>
Marked == <<239, 187, 191, 32, 49, 49, 49>>
\* "\u1D8\..." and "\uD83D\uDE00" with other bytes among them
Literal == {<<34, 92, 117>> \o w \o t : w \in [1..4 -> {49, 68, 92}], t \in Texts({92, 34, 110}, 3)}
Surrogates == Broken(<<34, 92, 117, 68, 56, 51, 68, 92, 117, 68, 69, 48, 48, 34>>, {92, 34, 110})

AllTexts == {s \o <<0>> : s \in Texts(Structure, 5) \cup Literal \cup Surrogates
                \cup Broken(Lists, Structure) \cup Broken(Message, Structure)
                \cup Broken(Deep, Structure) \cup {Marked, SubSeq(Marked, 1, 3)}}
=============================================================================
