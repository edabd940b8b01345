--------------------------- MODULE MCChatDatabase ---------------------------
(* ChatDatabase with small sets for TLC.                                   *)
EXTENDS ChatDatabase, TLC

CONSTANTS u1, u2, u3, u4, o1, o2, o3

\* Calls are interchangeable
OpSymmetry == Permutations(Ops)
=============================================================================
