------------------------------- MODULE MCChats -------------------------------
(* Values of the constants of Chats for TLC.                               *)
EXTENDS Chats, TLC

CONSTANTS c1, r1, r2, n1

OneChat == {c1}
TwoRequests == {r1, r2}
OneName == {n1}

Symmetry == Permutations(TwoRequests)
=============================================================================
