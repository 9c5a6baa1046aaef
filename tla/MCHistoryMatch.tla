--------------------------- MODULE MCHistoryMatch ---------------------------
(* Small instances of HistoryMatch for TLC.                                 *)
EXTENDS HistoryMatch

CONSTANTS c1, c2, q1, q2, a1, t1, t2, p1

BothClients == {c1, c2}
JustOne     == {c1}
Nobody      == {}
OneQuestion == {q1}
Questions2  == {q1, q2}
OneReply    == {a1}
BothThoughts == {t1, t2}
SamePrompt   == [c \in Clients |-> p1]
=============================================================================
