----------------------------- MODULE MCDataSwap -----------------------------
(* Instances of DataSwap for TLC.                                          *)
EXTENDS DataSwap

CONSTANTS d1, d2
Imports  == {"import", "export"}
AllOps   == {"import", "switch", "export"}
=============================================================================
