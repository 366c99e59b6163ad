--------------------------- MODULE WatermarkSync ---------------------------
(***************************************************************************)
(* What LAN catch-up promises (kwikpaste-core/src/sync/PROTOCOL.md, 6.2    *)
(* and 6.3), with no connection, queue or message in sight.                *)
(*                                                                         *)
(* One device numbers what is copied on it.  Each paired peer keeps, for   *)
(* that device, a watermark: an epoch of the numbering and the number up   *)
(* to which it has taken in everything it is owed.  The peer may take a    *)
(* content in at any time; it may move its watermark only to a number      *)
(* below which nothing owed is missing.                                    *)
(***************************************************************************)
EXTENDS Integers

CONSTANTS
    Items,      \* contents, told apart by their content hash
    Peers       \* paired devices

VARIABLES
    epoch,      \* epoch of the numbering in use
    seqOf,      \* number of the row holding a content, 0 when it has none
    exempt,     \* per peer: contents the rules do not owe it
    taken,      \* per peer: contents it has taken in
    wm          \* per peer: its watermark

vars == <<epoch, seqOf, exempt, taken, wm>>

Watermark == [epoch : Nat, seq : Nat]

(* Nothing owed to p is numbered in 1..n and still missing at p.           *)
CompleteUpTo(p, n) ==
    \A i \in Items :
        (i \notin exempt[p] /\ 0 < seqOf[i] /\ seqOf[i] <= n) => i \in taken[p]

Init ==
    /\ epoch \in Nat \ {0}
    /\ seqOf = [i \in Items |-> 0]
    /\ exempt \in [Peers -> SUBSET Items]
    /\ taken = [p \in Peers |-> {}]
    /\ wm = [p \in Peers |-> [epoch |-> 0, seq |-> 0]]

(* A content gets another number (a capture), or loses it with its row.  A *)
(* number handed out is one no watermark of this epoch has reached.        *)
Renumber(i) ==
    /\ \E n \in {seqOf'[i]} :
           /\ n \in Nat
           /\ n = 0 \/ \A p \in Peers : wm[p].epoch = epoch => n > wm[p].seq
           /\ seqOf' = [seqOf EXCEPT ![i] = n]
    /\ exempt' \in [Peers -> SUBSET Items]
    /\ \A p \in Peers : exempt[p] \ {i} \subseteq exempt'[p]
    /\ UNCHANGED <<epoch, taken, wm>>

(* The database is rebuilt: numbering starts over in a new epoch.          *)
Rebuild ==
    /\ epoch' \in Nat /\ epoch' > epoch
    /\ \A p \in Peers : wm[p].epoch < epoch'
    /\ seqOf' = [i \in Items |-> 0]
    /\ UNCHANGED <<exempt, taken, wm>>

(* A rule excuses contents (too old, too many, an echo); it never un-excuses. *)
Excuse ==
    /\ exempt' \in [Peers -> SUBSET Items]
    /\ \A p \in Peers : exempt[p] \subseteq exempt'[p]
    /\ UNCHANGED <<epoch, seqOf, taken, wm>>

Take(p, i) ==
    /\ taken' = [taken EXCEPT ![p] = @ \cup {i}]
    /\ UNCHANGED <<epoch, seqOf, exempt, wm>>

(* Moving the watermark: forward in the epoch it is in, or over to another *)
(* epoch; in the epoch in use only to a number that is complete.           *)
MoveWatermark(p) ==
    /\ \E mark \in {wm'[p]} :
           /\ mark \in Watermark
           /\ mark.epoch = wm[p].epoch => mark.seq > wm[p].seq
           /\ mark.epoch = epoch => CompleteUpTo(p, mark.seq)
           /\ mark.epoch <= epoch
           /\ wm' = [wm EXCEPT ![p] = mark]
    /\ UNCHANGED <<epoch, seqOf, exempt, taken>>

Next ==
    \/ \E i \in Items : Renumber(i)
    \/ Rebuild
    \/ Excuse
    \/ \E p \in Peers, i \in Items : Take(p, i)
    \/ \E p \in Peers : MoveWatermark(p)

Spec == Init /\ [][Next]_vars

(***************************************************************************)
(* The promise: in the epoch in use, a peer whose watermark stands at n    *)
(* misses nothing it is owed that is numbered n or less.                   *)
(***************************************************************************)
Complete == \A p \in Peers : wm[p].epoch = epoch => CompleteUpTo(p, wm[p].seq)
=============================================================================
