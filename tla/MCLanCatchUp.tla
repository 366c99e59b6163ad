--------------------------- MODULE MCLanCatchUp ---------------------------
(* Small instances of LanCatchUp for TLC. *)
EXTENDS LanCatchUp, TLC

CONSTANTS a, b, x, p, q, c1, c2

PlainKind == [i \in Items |-> "plain"]
MixedKind == [i \in Items |-> CASE i = a -> "plain" [] i = b -> "off" [] i = x -> "private"]
AllToP    == [c \in Conns |-> p]

(* With PlainKind and AllToP contents and connections are interchangeable. *)
Symmetric == Permutations(Items) \cup Permutations(Conns)
=============================================================================
