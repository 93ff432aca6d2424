------------------------------- MODULE MCLink -------------------------------
(* Messages for TLC, their texts as the codes of their bytes.              *)
EXTENDS Link

Says(t, s, n) == [type |-> t, text |-> s, valve |-> n]
\* Nothing, a letter, bytes that JSON escapes, "\n", and braces.
Texts == {<<>>, <<97>>, <<34, 233>>, <<10, 31>>, <<92, 110>>, <<123>>, <<125>>, <<125, 123>>,
          <<123, 125>>, <<125, 125, 123, 125>>}
\* Texts of which the encoding is longer than 50 bytes.
Control == [i \in 1..12 |-> 1]
Long == [i \in 1..22 |-> 97]

AllMessages ==
    {Says("SOFT_ERROR", s, 0) : s \in Texts \cup {Control, Long}}
    \cup {Says("HARD_ERROR_OTHER", <<97>>, 0), Says("HARD_ERROR_VALVE", <<97>>, -IntMax),
          Says("HARD_ERROR_VALVE", <<123>>, 0), KeepAlive, Says("INVALID", <<>>, 0)}
=============================================================================
