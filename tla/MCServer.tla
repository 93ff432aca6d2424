------------------------------ MODULE MCServer ------------------------------
(* Values of the constants of module Server for TLC.                       *)
EXTENDS ServerProperties, TLC

ConnSymmetry == Permutations(Conns)

\* One message per segment.
MessageSegments == {<<"msg">>}
\* One object per segment, all of them complete.
CleanSegments == {<<"msg">>, <<"ka">>}
\* One object per segment, or a part of one.
BrokenSegments == {<<"msg">>, <<"frag">>}
\* Two messages that TCP put into one segment.
PairSegments == {<<"msg", "msg">>}
\* Everything a peer can send, one piece per segment.
AllSegments == {<<k>> : k \in Kinds}
=============================================================================
