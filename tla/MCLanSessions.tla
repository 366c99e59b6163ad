--------------------------- MODULE MCLanSessions ---------------------------
(* Small instances of LanSessions for TLC. *)
EXTENDS LanSessions, TLC

CONSTANTS s1, s2, none

BothPaired == [d \in Device |-> TRUE]
LowPaired  == [d \in Device |-> d = "low"]

Symmetric == Permutations(Slots)
=============================================================================
