----------------------------- MODULE MCOcrQueue -----------------------------
(* Instances of OcrQueue for TLC.                                           *)
EXTENDS OcrQueue

CONSTANTS i1, i2, h1, h2
=============================================================================
