------------------------- MODULE WatermarkSyncProofs -------------------------
(***************************************************************************)
(* The promise of WatermarkSync holds for every set of contents and peers. *)
(***************************************************************************)
EXTENDS WatermarkSync, TLAPS

TypeInv ==
    /\ epoch \in Nat
    /\ seqOf \in [Items -> Nat]
    /\ exempt \in [Peers -> SUBSET Items]
    /\ taken \in [Peers -> SUBSET Items]
    /\ wm \in [Peers -> Watermark]
IInv == TypeInv /\ Complete

LEMMA InitInductive == Init => IInv
BY DEF Init, IInv, TypeInv, Complete, CompleteUpTo, Watermark

(* Complete is inductive with the types: a new number is above the         *)
(* watermarks of the epoch, an excuse and a content taken in only weaken   *)
(* it, and a watermark moves to a complete number.                         *)
LEMMA NextInductive == IInv /\ [Next]_vars => IInv'
<1> SUFFICES ASSUME IInv, [Next]_vars PROVE IInv'
  OBVIOUS
<1> USE DEF IInv, TypeInv
<1>1. ASSUME NEW i \in Items, Renumber(i) PROVE IInv'
  <2>1. TypeInv'
    BY <1>1 DEF Renumber
  <2>2. ASSUME NEW p \in Peers, wm'[p].epoch = epoch', NEW j \in Items,
               j \notin exempt'[p], 0 < seqOf'[j], seqOf'[j] <= wm'[p].seq
        PROVE  j \in taken'[p]
    <3>1. CASE j = i
      BY <1>1, <2>2, <3>1 DEF Renumber, Watermark
    <3>2. CASE j # i
      BY <1>1, <2>2, <3>2 DEF Renumber, Complete, CompleteUpTo
    <3>3. QED
      BY <3>1, <3>2
  <2>3. Complete'
    BY <2>2 DEF Complete, CompleteUpTo
  <2>4. QED
    BY <2>1, <2>3
<1>2. CASE Rebuild
  BY <1>2 DEF Rebuild, Complete, CompleteUpTo, Watermark
<1>3. CASE Excuse
  BY <1>3 DEF Excuse, Complete, CompleteUpTo
<1>4. ASSUME NEW p \in Peers, NEW i \in Items, Take(p, i) PROVE IInv'
  BY <1>4 DEF Take, Complete, CompleteUpTo
<1>5. ASSUME NEW p \in Peers, MoveWatermark(p) PROVE IInv'
  <2>1. PICK mark \in Watermark :
            /\ mark.epoch = epoch => CompleteUpTo(p, mark.seq)
            /\ wm' = [wm EXCEPT ![p] = mark]
    BY <1>5 DEF MoveWatermark
  <2>2. UNCHANGED <<epoch, seqOf, exempt, taken>>
    BY <1>5 DEF MoveWatermark
  <2>3. TypeInv'
    BY <2>1, <2>2
  <2>4. Complete'
    BY <2>1, <2>2 DEF Complete, CompleteUpTo
  <2>5. QED
    BY <2>3, <2>4
<1>6. CASE UNCHANGED vars
  BY <1>6 DEF vars, Complete, CompleteUpTo
<1>7. QED
  BY <1>1, <1>2, <1>3, <1>4, <1>5, <1>6 DEF Next

(* In every behaviour of WatermarkSync a peer whose watermark stands at n  *)
(* in the epoch in use misses nothing it is owed up to n.                  *)
THEOREM PromiseComplete == Spec => []Complete
<1>1. IInv => Complete
  BY DEF IInv
<1>2. QED
  BY InitInductive, NextInductive, <1>1, PTL DEF Spec
=============================================================================
