------------------------ MODULE LanCatchUpRefinement ------------------------
(***************************************************************************)
(* The protocol of LanCatchUp keeps the promise of WatermarkSync: every    *)
(* step maps to a step of the promise or to a stutter.                     *)
(***************************************************************************)
EXTENDS LanCatchUpSafety

Exempt == [p \in Peers |-> ExemptFor(p)]

(* Contents excused per peer are contents.                                *)
LEMMA ExemptType == TypeOK => Exempt \in [Peers -> SUBSET Items]
BY DEF Exempt, ExemptFor, TypeOK, GhostType

(* Contents are only ever excused as long as no number is handed out.      *)
LEMMA ExcuseStep ==
    ASSUME TypeOK, TypeOK', UNCHANGED <<epoch, seqOf, taken, wm>>,
           \A p \in Peers : waived[p] \subseteq waived'[p], echoed \subseteq echoed'
    PROVE  [Promise!Next]_(Promise!vars)
<1>1. Exempt' \in [Peers -> SUBSET Items]
  BY ExemptType DEF Exempt, ExemptFor, TypeOK, GhostType
<1>2. \A p \in Peers : Exempt[p] \subseteq Exempt'[p]
  BY DEF Exempt, ExemptFor
<1>3. Promise!Excuse
  BY <1>1, <1>2 DEF Promise!Excuse, Exempt
<1>4. QED
  BY <1>3 DEF Promise!Next

(* Nothing copied, nothing owed: the initial states are the promise's.    *)
LEMMA InitPromise == Init => Promise!Init
<1> SUFFICES ASSUME Init PROVE Promise!Init
  OBVIOUS
<1>1. Exempt \in [Peers -> SUBSET Items]
  BY InitType, ExemptType
<1>2. QED
  BY <1>1 DEF Init, Promise!Init, Exempt

(* Numbering a capture hands out a number no watermark of the epoch has   *)
(* reached.                                                               *)
LEMMA NumberPromise ==
    ASSUME IInv, TypeOK', NEW x \in Items, NumberCapture(x)
    PROVE  [Promise!Next]_(Promise!vars)
<1> TypeOK
  BY DEF IInv, Core
<1>1. Exempt' \in [Peers -> SUBSET Items]
  BY DEF Exempt, ExemptFor, TypeOK, GhostType
<1>2. \A p \in Peers : Exempt[p] \ {x} \subseteq Exempt'[p]
  BY DEF Exempt, ExemptFor, NumberCapture
<1>3. /\ counter + 1 \in Nat /\ seqOf' = [seqOf EXCEPT ![x] = counter + 1] /\ seqOf'[x] = counter + 1
      /\ UNCHANGED <<epoch, taken, wm>>
  BY DEF NumberCapture, peerVars, TypeOK, DatabaseType
<1>4. \A p \in Peers : wm[p].epoch = epoch => counter + 1 > wm[p].seq
  BY Ranges DEF IInv, Core, WatermarksBehind, Behind
<1>5. Promise!Renumber(x)
  BY <1>1, <1>2, <1>3, <1>4 DEF Promise!Renumber, Exempt
<1>6. QED
  BY <1>5 DEF Promise!Next

(* Deleting a row takes its number away.                                  *)
LEMMA DeletePromise ==
    ASSUME IInv, TypeOK', NEW x \in Items, DeleteRow(x)
    PROVE  [Promise!Next]_(Promise!vars)
<1> TypeOK
  BY DEF IInv, Core
<1>1. Exempt' \in [Peers -> SUBSET Items]
  BY DEF Exempt, ExemptFor, TypeOK, GhostType
<1>2. \A p \in Peers : Exempt[p] \ {x} \subseteq Exempt'[p]
  BY DEF Exempt, ExemptFor, DeleteRow, ghosts
<1>3. /\ seqOf' = [seqOf EXCEPT ![x] = 0] /\ seqOf'[x] = 0
      /\ UNCHANGED <<epoch, taken, wm>>
  BY DEF DeleteRow, peerVars, TypeOK, DatabaseType
<1>4. PICK n \in Nat : n = 0
  OBVIOUS
<1>5. n \in {seqOf'[x]} /\ seqOf' = [seqOf EXCEPT ![x] = n]
  BY <1>3, <1>4
<1>6. Promise!Renumber(x)
  BY <1>1, <1>2, <1>3, <1>4, <1>5 DEF Promise!Renumber, Exempt
<1>7. QED
  BY <1>6 DEF Promise!Next

(* A push taken in is a content taken in.                                 *)
LEMMA TakePromise ==
    ASSUME NEW p \in Peers, NEW i \in Items, taken' = [taken EXCEPT ![p] = @ \cup {i}],
           UNCHANGED <<epoch, seqOf, waived, echoed, wm>>
    PROVE  [Promise!Next]_(Promise!vars)
<1>1. Exempt' = Exempt
  BY DEF Exempt, ExemptFor
<1>2. Promise!Take(p, i)
  BY <1>1 DEF Promise!Take, Exempt
<1>3. QED
  BY <1>2 DEF Promise!Next

(* A fresh database starts a new epoch.                                   *)
LEMMA RebuildPromise ==
    ASSUME IInv, RestartRebuilt
    PROVE  [Promise!Next]_(Promise!vars)
<1>1. Exempt' = Exempt
  BY DEF Exempt, ExemptFor, RestartRebuilt, Forget, ghosts
<1>2. /\ epoch \in Nat /\ epoch' = epoch + 1 /\ seqOf' = [i \in Items |-> 0]
      /\ UNCHANGED <<taken, wm>>
  BY Ranges DEF IInv, Core, RestartRebuilt, Forget, peerVars
<1>3. \A p \in Peers : wm[p].epoch < epoch'
  BY <1>2, Ranges DEF IInv, Core, WatermarksBehind, Behind
<1>4. Promise!Rebuild
  BY <1>1, <1>2, <1>3 DEF Promise!Rebuild, Exempt
<1>5. QED
  BY <1>4 DEF Promise!Next

(* A page moves the watermark to a number that is complete, or not at     *)
(* all.                                                                   *)
LEMMA PagePromise ==
    ASSUME IInv, IInv', NEW c \in Conns, PeerTakesPage(c)
    PROVE  [Promise!Next]_(Promise!vars)
<1> TypeOK
  BY DEF IInv, Core
<1> DEFINE p == PeerOf[c]
<1>1. /\ UNCHANGED <<epoch, counter, seqOf, taken, waived, echoed>>
      /\ out[c] # <<>> /\ Head(out[c]).type = "page"
  BY DEF PeerTakesPage, dbVars, ghosts
<1>2. Exempt' = Exempt
  BY <1>1 DEF Exempt, ExemptFor
<1>3. PICK page \in Message : page = Head(out[c]) /\ page.type = "page"
  <2>1. out[c] \in Seq(Message)
    BY Ranges
  <2>2. QED
    BY <1>1, <2>1
<1>4. page.epoch \in Nat /\ page.until \in Nat
  BY <1>3 DEF Message
<1>5. PICK old \in [epoch : Nat, seq : Nat] : old = wm[p]
  BY Ranges
<1>6. PICK new \in [epoch : Nat, seq : Nat] :
         /\ new = AdvancedWatermark(old, page.epoch, page.until)
         /\ wm' = [wm EXCEPT ![p] = new] /\ wm'[p] = new /\ p \in Peers
  <2>1. AdvancedWatermark(old, page.epoch, page.until) \in [epoch : Nat, seq : Nat]
    BY <1>4 DEF AdvancedWatermark
  <2>2. wm' = [wm EXCEPT ![p] = AdvancedWatermark(old, page.epoch, page.until)] /\ p \in Peers
    BY <1>3, <1>5, Ranges DEF PeerTakesPage
  <2>3. QED
    BY <2>1, <2>2 DEF TypeOK, PeerType
<1>7. CASE new = old
  <2>1. wm' = wm
    BY <1>5, <1>6, <1>7 DEF TypeOK, PeerType
  <2>2. QED
    BY <1>1, <1>2, <2>1 DEF Promise!vars, Exempt
<1>8. CASE new # old
  <2>1. new.epoch = old.epoch => new.seq > old.seq
    BY <1>4, <1>6, <1>8 DEF AdvancedWatermark
  <2>2. new.epoch <= epoch
    BY <1>1, <1>6 DEF IInv, Core, WatermarksBehind, Behind
  <2>3. new.epoch = epoch => Promise!CompleteUpTo(p, new.seq)
    <3>1. ASSUME new.epoch = epoch, NEW i \in Items, i \notin ExemptFor(p), 0 < seqOf[i], seqOf[i] <= new.seq
          PROVE  i \in taken[p]
      <4>1. WatermarkSound'
        BY DEF IInv, Core, WatermarksHold, WatermarkSound, Owed, Due, ExemptFor, Wanted, Excused
      <4>2. Due(p, i)'
        BY <1>1, <3>1 DEF Due, ExemptFor
      <4>3. QED
        BY <1>1, <1>6, <3>1, <4>1, <4>2 DEF WatermarkSound
    <3>2. QED
      BY <1>6, <3>1 DEF Promise!CompleteUpTo
  <2>4. Promise!MoveWatermark(p)
    BY <1>1, <1>2, <1>5, <1>6, <2>1, <2>2, <2>3 DEF Promise!MoveWatermark, Promise!Watermark, Exempt
  <2>5. QED
    BY <1>6, <2>4 DEF Promise!Next
<1>9. QED
  BY <1>7, <1>8

(* Every step of the protocol is one of the promise, or a stutter.        *)
LEMMA StepPromise == IInv /\ IInv' /\ [Next]_vars => [Promise!Next]_(Promise!vars)
<1> SUFFICES ASSUME IInv, IInv', [Next]_vars PROVE [Promise!Next]_(Promise!vars)
  OBVIOUS
<1> TypeOK /\ TypeOK'
  BY DEF IInv, Core
<1>1. ASSUME NEW i \in Items, StoreCapture(i) \/ NumberFails(i) \/ AgeRow(i)
      PROVE  [Promise!Next]_(Promise!vars)
  BY <1>1, ExcuseStep DEF StoreCapture, NumberFails, AgeRow, dbVars, peerVars, ghosts
<1>2. CASE CaptureStep
  <2>1. ASSUME NEW p \in Peers, NEW i \in Items, TakeFromPeer(p, i) PROVE [Promise!Next]_(Promise!vars)
    BY <2>1, TakePromise DEF TakeFromPeer, ghosts
  <2>2. QED
    BY <1>1, <1>2, <2>1, NumberPromise, DeletePromise DEF CaptureStep
<1>3. CASE SendStep
  <2>1. /\ UNCHANGED <<epoch, seqOf, taken, wm, waived>>
        /\ echoed \subseteq echoed'
    BY <1>3 DEF SendStep, OnLocalCapture, Deliver, DeliverFailed, dbVars, peerVars, ghosts
  <2>2. QED
    BY <2>1, ExcuseStep
<1>4. ASSUME NEW c \in Conns, TaskStepOf(c) PROVE [Promise!Next]_(Promise!vars)
  <2>1. CASE ReadPage(c)
    <3>1. /\ UNCHANGED <<epoch, seqOf, taken, wm, echoed>>
          /\ \A p \in Peers : waived[p] \subseteq waived'[p]
      BY <2>1 DEF ReadPage, dbVars, peerVars, TypeOK, GhostType
    <3>2. QED
      BY <3>1, ExcuseStep
  <2>2. CASE ~ReadPage(c)
    BY <1>4, <2>2, ExcuseStep DEF TaskStepOf, ReadCounter, CollectFails, SendRow, SendPage, SendFails,
       ConfirmCatchUp, ReleaseTask, dbVars, peerVars, ghosts
  <2>3. QED
    BY <2>1, <2>2
<1>5. ASSUME NEW c \in Conns, SourceStep(c) PROVE [Promise!Next]_(Promise!vars)
  BY <1>5, ExcuseStep DEF SourceStep, SourceOpens, SourceCloses, SourceTakesRequest, dbVars, peerVars, ghosts
<1>6. ASSUME NEW c \in Conns, PeerStep(c) PROVE [Promise!Next]_(Promise!vars)
  <2>1. CASE PeerTakesPush(c)
    <3>1. out[c] \in Seq(Message) /\ out[c] # <<>> /\ Head(out[c]).type = "push" /\ PeerOf[c] \in Peers
      BY <2>1, Ranges DEF PeerTakesPush
    <3>2. Head(out[c]).item \in Items
      BY <3>1 DEF Message
    <3>3. QED
      BY <2>1, <3>1, <3>2, TakePromise DEF PeerTakesPush, dbVars, ghosts
  <2>2. CASE PeerOpens(c) \/ PeerCloses(c) \/ PeerFailsPush(c)
    BY <2>2, ExcuseStep DEF PeerOpens, PeerCloses, PeerFailsPush, dbVars, ghosts
  <2>3. QED
    BY <1>6, <2>1, <2>2, PagePromise DEF PeerStep
<1>7. CASE Restart \/ UNCHANGED vars
  BY <1>7, ExcuseStep DEF Restart, Forget, vars, dbVars, peerVars, ghosts
<1>8. QED
  BY <1>2, <1>3, <1>4, <1>5, <1>6, <1>7, RebuildPromise DEF Next

(* For every value of the constants, LAN sync as coded implements the      *)
(* promise of WatermarkSync.                                               *)
THEOREM ImplementsPromise == Spec => KeepsPromise
BY InitPromise, StepPromise, InvariantHolds, PTL DEF Spec, KeepsPromise, Promise!Spec
=============================================================================
