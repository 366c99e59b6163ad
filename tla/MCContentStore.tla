--------------------------- MODULE MCContentStore ---------------------------
(* Instances of ContentStore for TLC.                                      *)
EXTENDS ContentStore, TLC

CONSTANTS i1, t1, t2, t3

\* Every operation can meet every other.
EachKind == t1 :> {"capture", "receive", "history", "delete"}
            @@ t2 :> {"capture", "eco", "export", "sweep"}
            @@ t3 :> Ops
=============================================================================
