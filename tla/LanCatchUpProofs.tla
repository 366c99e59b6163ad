-------------------------- MODULE LanCatchUpProofs --------------------------
(***************************************************************************)
(* The variables of LanCatchUp keep their types, and what its cursor       *)
(* operators return.                                                       *)
(***************************************************************************)
EXTENDS LanCatchUp, SequenceTheorems, FiniteSetTheorems, TLAPS

(***************************************************************************)
(* LiveCursor                                                              *)
(***************************************************************************)

(* The run ends at or after `until`, and every number it passed is handled. *)
LEMMA RunEndProperties ==
    ASSUME NEW until \in Nat, NEW handled \in SUBSET Nat
    PROVE  /\ RunEnd(until, handled) \in Nat
           /\ RunEnd(until, handled) >= until
           /\ (until + 1) .. RunEnd(until, handled) \subseteq handled
           /\ RunEnd(until, handled) \in handled \cup {until}
<1> DEFINE ends == {n \in handled \cup {until} :
                       n >= until /\ (until + 1) .. n \subseteq handled /\ n + 1 \notin handled}
<1>1. CASE ends = {}
  BY <1>1 DEF RunEnd
<1>2. CASE ends # {}
  <2>1. RunEnd(until, handled) \in ends
    BY <1>2 DEF RunEnd
  <2>2. QED
    BY <2>1
<1>3. QED
  BY <1>1, <1>2

(* Advancing keeps the epoch, never goes back, and passes only numbers that *)
(* were handled; a broken cursor stays where it is.                        *)
LEMMA AdvanceProperties ==
    ASSUME NEW cur \in Cursor
    PROVE  /\ Advance(cur) \in Cursor
           /\ Advance(cur).known = cur.known
           /\ Advance(cur).epoch = cur.epoch
           /\ Advance(cur).broken = cur.broken
           /\ Advance(cur).until >= cur.until
           /\ Advance(cur).handled \subseteq cur.handled
           /\ Advance(cur).until \in cur.handled \cup {cur.until}
           /\ (Advance(cur).until # cur.until) =>
                 /\ cur.known /\ ~cur.broken
                 /\ (cur.until + 1) .. Advance(cur).until \subseteq cur.handled
<1> cur.until \in Nat /\ cur.handled \in SUBSET Nat /\ cur.known \in BOOLEAN /\ cur.broken \in BOOLEAN
  BY DEF Cursor
<1>1. CASE cur.broken \/ ~cur.known
  BY <1>1 DEF Advance
<1>2. CASE ~(cur.broken \/ ~cur.known)
  <2> DEFINE end == RunEnd(cur.until, cur.handled)
  <2>1. /\ end \in Nat /\ end >= cur.until
        /\ (cur.until + 1) .. end \subseteq cur.handled
        /\ end \in cur.handled \cup {cur.until}
    BY RunEndProperties
  <2> HIDE DEF end
  <2>2. Advance(cur) = [cur EXCEPT !.until = end, !.handled = {n \in @ : n > end}]
    BY <1>2 DEF Advance, end
  <2>3. QED
    BY <2>1, <2>2, <1>2 DEF Cursor
<1>3. QED
  BY <1>1, <1>2

(* Handling a number leaves a cursor.                                     *)
LEMMA HandleType ==
    ASSUME NEW cur \in Cursor, NEW n \in Nat
    PROVE  Handle(cur, n) \in Cursor
BY DEF Handle, Cursor

(* Confirming a catch-up leaves a cursor.                                 *)
LEMMA ConfirmType ==
    ASSUME NEW cur \in Cursor, NEW e \in Nat, NEW n \in Nat
    PROVE  Confirm(cur, e, n) \in Cursor
BY DEF Confirm, Cursor, Larger

(* Pushes and pages are messages.                                         *)
LEMMA MessageTypes ==
    /\ \A i \in Items : Push(i) \in Message
    /\ \A e, n \in Nat : \A more \in BOOLEAN : Page(e, n, more) \in Message
BY DEF Push, Page, Message

(* A queue with or without a checkpoint is a queue of messages.           *)
LEMMA CheckpointType ==
    ASSUME NEW queue \in Seq(Message), NEW cur \in Cursor
    PROVE  WithCheckpoint(queue, cur) \in Seq(Message)
<1>1. /\ cur.epoch \in Nat /\ Advance(cur).until \in Nat
  BY AdvanceProperties DEF Cursor
<1> DEFINE page == Page(cur.epoch, Advance(cur).until, FALSE)
<1>2. page \in Message
  BY <1>1, MessageTypes
<1> HIDE DEF page
<1>3. Append(queue, page) \in Seq(Message)
  BY <1>2
<1>4. WithCheckpoint(queue, cur) \in {queue, Append(queue, page)}
  BY DEF WithCheckpoint, page
<1>5. QED
  BY <1>3, <1>4

(* What deliver leaves of a cursor and a queue keeps its type.            *)
LEMMA DeliveredTypes ==
    ASSUME TypeOK, NEW c \in Conns, NEW cap \in Capture
    PROVE  /\ DeliveredCursor(c, cap) \in Cursor
           /\ DeliveredOut(c, cap) \in Seq(Message)
<1>1. /\ cap.item \in Items /\ cap.seq \in Nat /\ cursor[c] \in Cursor /\ out[c] \in Seq(Message)
  BY DEF Capture, TypeOK, CursorType, QueueType
<1>2. Marked(c, cap) \in Cursor
  BY <1>1 DEF Marked, Dropped, Travels, Cursor
<1>3. Handle(Marked(c, cap), cap.seq) \in Cursor
  BY <1>1, <1>2, HandleType
<1>4. PushedOut(c, cap) \in Seq(Message)
  BY <1>1, MessageTypes DEF PushedOut
<1>5. QED
  BY <1>2, <1>3, <1>4, AdvanceProperties, CheckpointType DEF DeliveredCursor, DeliveredOut

(* The initial states are well typed.                                     *)
LEMMA InitType == Init => TypeOK
<1> SUFFICES ASSUME Init PROVE TypeOK
  OBVIOUS
<1>1. FreshCursor \in Cursor /\ IdleTask \in Task
  BY DEF FreshCursor, Cursor, IdleTask, Task, TaskStep
<1>2. DatabaseType /\ CaptureType /\ PeerType /\ GhostType
  BY DEF Init, DatabaseType, CaptureType, PeerType, GhostType, EndState
<1>3. RegistryType /\ CursorType /\ TaskType /\ QueueType
  BY <1>1 DEF Init, RegistryType, CursorType, TaskType, QueueType, EndState
<1>4. QED
  BY <1>2, <1>3 DEF TypeOK

(* A fresh cursor and the idle and released task are well typed.          *)
LEMMA ConstantTypes ==
    /\ FreshCursor \in Cursor
    /\ IdleTask \in Task /\ ReleasedTask \in Task
<1>1. FreshCursor \in Cursor
  BY DEF FreshCursor, Cursor
<1>2. IdleTask \in Task
  BY DEF IdleTask, Task, TaskStep
<1>3. ReleasedTask \in Task
  BY <1>2 DEF ReleasedTask, Task, TaskStep
<1>4. QED
  BY <1>1, <1>2, <1>3

(* deliver_failed keeps the types of registry and cursors.                *)
LEMMA BreakType ==
    ASSUME RegistryType, CursorType, BreakRegistered, UNCHANGED <<src, registered>>
    PROVE  RegistryType' /\ CursorType'
<1>1. \A c \in Conns : [cursor[c] EXCEPT !.broken = TRUE] \in Cursor
  BY DEF CursorType, Cursor
<1>2. CursorType'
  BY <1>1 DEF CursorType, BreakRegistered
<1>3. RegistryType'
  BY DEF RegistryType, BreakRegistered
<1>4. QED
  BY <1>2, <1>3

(***************************************************************************)
(* Types                                                                   *)
(***************************************************************************)

(* A group of variables that does not change keeps its type.               *)
LEMMA SameTypes ==
    ASSUME TypeOK
    PROVE  /\ UNCHANGED dbVars => DatabaseType'
           /\ UNCHANGED capVars => CaptureType'
           /\ UNCHANGED <<src, registered, cursor>> => RegistryType'
           /\ UNCHANGED cursor => CursorType'
           /\ UNCHANGED task => TaskType'
           /\ UNCHANGED <<out, inn>> => QueueType'
           /\ UNCHANGED <<rcv, taken, wm>> => PeerType'
           /\ UNCHANGED ghosts => GhostType'
BY DEF TypeOK, DatabaseType, CaptureType, RegistryType, CursorType, TaskType, QueueType, PeerType,
       GhostType, dbVars, capVars, ghosts

(* What ReadPage leaves in the task.                                       *)
LEMMA PageStep ==
    ASSUME TypeOK, NEW c \in Conns, ReadPage(c)
    PROVE  \E t \in Task : task' = [task EXCEPT ![c] = t]
<1> DEFINE after == task[c].after
           more == PageRows(after) # Window(after)
           todo == {[item |-> i, seq |-> seqOf[i]] : i \in {j \in PageRows(after) : Kind[j] = "plain"}}
<1>1. PICK last \in 0 .. Larger(counter, after) :
          LET until == IF more THEN last ELSE Larger(task[c].counter, last)
          IN  task' = [task EXCEPT ![c] = [IdleTask EXCEPT !.pc = "send", !.epoch = task[c].epoch,
                                                          !.todo = todo, !.until = until, !.more = more]]
  BY DEF ReadPage
<1> DEFINE until == IF more THEN last ELSE Larger(task[c].counter, last)
<1>2. task[c] \in Task
  BY DEF TypeOK, TaskType
<1>3. until \in Nat /\ more \in BOOLEAN /\ task[c].epoch \in Nat
  BY <1>2 DEF Task, Larger
<1>4. \A i \in PageRows(after) : i \in Items
  BY DEF PageRows, Oldest, Window, Newest, Candidates, TypeOK, DatabaseType
<1>5. todo \in SUBSET TodoRow
  BY <1>4 DEF TodoRow, TypeOK, DatabaseType
<1> HIDE DEF more, todo, until
<1> DEFINE t == [IdleTask EXCEPT !.pc = "send", !.epoch = task[c].epoch,
                                 !.todo = todo, !.until = until, !.more = more]
<1>6. t \in Task
  BY <1>3, <1>5 DEF IdleTask, Task, TaskStep
<1>7. task' = [task EXCEPT ![c] = t]
  BY <1>1 DEF until
<1> HIDE DEF t
<1>8. QED
  BY <1>6, <1>7

(* Every step keeps the types.                                            *)
LEMMA TypeStep == TypeOK /\ [Next]_vars => TypeOK'
<1> SUFFICES ASSUME TypeOK, [Next]_vars PROVE TypeOK'
  OBVIOUS
<1> USE DEF dbVars, capVars, srcVars, peerVars, ghosts
<1>1. ASSUME NEW i \in Items, StoreCapture(i) PROVE TypeOK'
  <2>1. DatabaseType'
    BY <1>1 DEF TypeOK, DatabaseType, StoreCapture
  <2>2. CaptureType'
    BY <1>1 DEF TypeOK, CaptureType, StoreCapture
  <2>3. QED
    BY <1>1, SameTypes, <2>1, <2>2 DEF TypeOK, StoreCapture
<1>2. ASSUME NEW i \in Items, NumberCapture(i) PROVE TypeOK'
  <2>1. DatabaseType'
    BY <1>2 DEF TypeOK, DatabaseType, NumberCapture
  <2>2. CaptureType'
    <3>1. [item |-> i, seq |-> counter + 1, send |-> FALSE] \in Capture
      BY DEF TypeOK, DatabaseType, Capture
    <3>2. QED
      BY <1>2, <3>1 DEF TypeOK, CaptureType, NumberCapture
  <2>3. GhostType'
    BY <1>2 DEF TypeOK, GhostType, NumberCapture
  <2>4. QED
    BY <1>2, SameTypes, <2>1, <2>2, <2>3 DEF TypeOK, NumberCapture
<1>3. ASSUME NEW i \in Items, NumberFails(i) PROVE TypeOK'
  <2>1. CaptureType'
    <3>1. [item |-> i, seq |-> 0, send |-> FALSE] \in Capture
      BY DEF Capture
    <3>2. QED
      BY <1>3, <3>1 DEF TypeOK, CaptureType, NumberFails
  <2>2. QED
    BY <1>3, SameTypes, <2>1 DEF TypeOK, NumberFails
<1>4. ASSUME NEW i \in Items, DeleteRow(i) PROVE TypeOK'
  <2>1. DatabaseType'
    BY <1>4 DEF TypeOK, DatabaseType, DeleteRow
  <2>2. QED
    BY <1>4, SameTypes, <2>1 DEF TypeOK, DeleteRow
<1>5. ASSUME NEW i \in Items, AgeRow(i) PROVE TypeOK'
  <2>1. DatabaseType'
    BY <1>5 DEF TypeOK, DatabaseType, AgeRow
  <2>2. QED
    BY <1>5, SameTypes, <2>1 DEF TypeOK, AgeRow
<1>6. ASSUME NEW p \in Peers, NEW i \in Items, TakeFromPeer(p, i) PROVE TypeOK'
  <2>1. DatabaseType'
    BY <1>6 DEF TypeOK, DatabaseType, TakeFromPeer
  <2>2. CaptureType'
    BY <1>6 DEF TypeOK, CaptureType, TakeFromPeer
  <2>3. PeerType'
    BY <1>6 DEF TypeOK, PeerType, TakeFromPeer
  <2>4. QED
    BY <1>6, SameTypes, <2>1, <2>2, <2>3 DEF TypeOK, TakeFromPeer
<1>7. ASSUME NEW cap \in numbered, OnLocalCapture(cap) PROVE TypeOK'
  <2>1. CaptureType'
    <3>1. cap \in Capture /\ captures \in Seq(Capture) /\ lastSynced \subseteq Items
      BY <1>7 DEF TypeOK, CaptureType
    <3>2. \A send \in BOOLEAN : [cap EXCEPT !.send = send] \in Capture
      BY <3>1 DEF Capture
    <3>3. \A send \in BOOLEAN : Append(captures, [cap EXCEPT !.send = send]) \in Seq(Capture)
      BY <3>1, <3>2
    <3>4. captures' \in Seq(Capture)
      <4>1. CASE registered = {}
        BY <1>7, <3>1, <4>1 DEF OnLocalCapture
      <4>2. CASE registered # {}
        BY <1>7, <3>1, <3>3, <4>2 DEF OnLocalCapture, Enqueue, Syncable
      <4>3. QED
        BY <4>1, <4>2
    <3>5. lastSynced' \subseteq Items
      BY <1>7, <3>1 DEF OnLocalCapture, Capture
    <3>6. stored' = stored /\ numbered' \subseteq numbered
      BY <1>7 DEF OnLocalCapture
    <3>7. QED
      BY <3>4, <3>5, <3>6 DEF TypeOK, CaptureType
  <2>2. RegistryType' /\ CursorType'
    <3>1. UNCHANGED <<src, registered>> /\ (BreakRegistered \/ UNCHANGED cursor)
      BY <1>7 DEF OnLocalCapture, Enqueue
    <3>2. QED
      BY <3>1, BreakType DEF TypeOK, RegistryType, CursorType
  <2>3. GhostType'
    BY <1>7 DEF TypeOK, CaptureType, GhostType, Capture, OnLocalCapture
  <2>4. QED
    BY <1>7, SameTypes, <2>1, <2>2, <2>3 DEF TypeOK, OnLocalCapture
<1>8. CASE Deliver
  <2>1. CaptureType'
    BY <1>8 DEF TypeOK, CaptureType, Deliver
  <2>2. RegistryType'
    BY <1>8 DEF TypeOK, RegistryType, Deliver
  <2>3. CursorType'
    <3>1. Head(captures) \in Capture
      BY <1>8 DEF TypeOK, CaptureType, Deliver
    <3>2. \A c \in Conns : DeliveredCursor(c, Head(captures)) \in Cursor /\ DeliveredOut(c, Head(captures)) \in Seq(Message)
      BY <3>1, DeliveredTypes
    <3>3. QED
      BY <1>8, <3>2 DEF TypeOK, CursorType, Deliver
  <2>4. QueueType'
    <3>1. Head(captures) \in Capture
      BY <1>8 DEF TypeOK, CaptureType, Deliver
    <3>2. \A c \in Conns : DeliveredCursor(c, Head(captures)) \in Cursor /\ DeliveredOut(c, Head(captures)) \in Seq(Message)
      BY <3>1, DeliveredTypes
    <3>3. QED
      BY <1>8, <3>2 DEF TypeOK, QueueType, Deliver
  <2>5. QED
    BY <1>8, SameTypes, <2>1, <2>2, <2>3, <2>4 DEF TypeOK, Deliver
<1>9. CASE DeliverFailed
  <2>1. CaptureType'
    BY <1>9 DEF TypeOK, CaptureType, DeliverFailed
  <2>2. RegistryType' /\ CursorType'
    BY <1>9, BreakType DEF TypeOK, DeliverFailed
  <2>3. QED
    BY <1>9, SameTypes, <2>1, <2>2 DEF TypeOK, DeliverFailed
<1>10. ASSUME NEW c \in Conns, SourceOpens(c) PROVE TypeOK'
  <2>1. RegistryType'
    BY <1>10 DEF TypeOK, RegistryType, EndState, SourceOpens
  <2>2. CursorType'
    BY <1>10, ConstantTypes DEF TypeOK, CursorType, SourceOpens
  <2>3. QED
    BY <1>10, SameTypes, <2>1, <2>2 DEF TypeOK, SourceOpens
<1>11. ASSUME NEW c \in Conns, SourceCloses(c) PROVE TypeOK'
  <2>1. RegistryType'
    BY <1>11 DEF TypeOK, RegistryType, CursorType, EndState, SourceCloses
  <2>2. CursorType'
    BY <1>11, ConstantTypes DEF TypeOK, CursorType, SourceCloses
  <2>3. QueueType'
    BY <1>11 DEF TypeOK, QueueType, SourceCloses
  <2>4. QED
    BY <1>11, SameTypes, <2>1, <2>2, <2>3 DEF TypeOK, SourceCloses
<1>12. ASSUME NEW c \in Conns, SourceTakesRequest(c) PROVE TypeOK'
  <2>1. TaskType'
    <3>1. Head(inn[c]) \in Request
      BY <1>12 DEF TypeOK, QueueType, SourceTakesRequest
    <3>2. [IdleTask EXCEPT !.pc = "counter", !.after = Head(inn[c]).after, !.epoch = Head(inn[c]).epoch] \in Task
      BY <3>1 DEF Request, IdleTask, Task, TaskStep
    <3>3. QED
      BY <1>12, <3>2 DEF TypeOK, TaskType, SourceTakesRequest
  <2>2. QueueType'
    BY <1>12 DEF TypeOK, QueueType, SourceTakesRequest
  <2>3. QED
    BY <1>12, SameTypes, <2>1, <2>2 DEF TypeOK, SourceTakesRequest
<1>13. ASSUME NEW c \in Conns, ReadCounter(c) PROVE TypeOK'
  <2>1. TaskType'
    <3>1. task[c] \in Task
      BY DEF TypeOK, TaskType
    <3> DEFINE after == IF task[c].epoch = epoch THEN task[c].after ELSE 0
               t == [IdleTask EXCEPT !.pc = "page", !.after = after, !.epoch = epoch, !.counter = counter]
    <3>2. t \in Task
      BY <3>1 DEF TypeOK, DatabaseType, IdleTask, Task, TaskStep
    <3> HIDE DEF t
    <3>3. QED
      BY <1>13, <3>2 DEF TypeOK, TaskType, ReadCounter, t
  <2>2. QED
    BY <1>13, SameTypes, <2>1 DEF TypeOK, ReadCounter
<1>14. ASSUME NEW c \in Conns, ReadPage(c) PROVE TypeOK'
  <2>1. TaskType'
    BY <1>14, PageStep DEF TypeOK, TaskType
  <2>2. GhostType'
    BY <1>14, PeerOfAssumption DEF TypeOK, GhostType, DatabaseType, ReadPage, PassedOver
  <2>3. QED
    BY <1>14, SameTypes, <2>1, <2>2 DEF TypeOK, ReadPage
<1>15. ASSUME NEW c \in Conns, CollectFails(c) PROVE TypeOK'
  <2>1. TaskType'
    BY <1>15, ConstantTypes DEF TypeOK, TaskType, CollectFails
  <2>2. QED
    BY <1>15, SameTypes, <2>1 DEF TypeOK, CollectFails
<1>16. ASSUME NEW c \in Conns, SendRow(c) PROVE TypeOK'
  <2>1. TaskType'
    <3>1. task[c] \in Task
      BY DEF TypeOK, TaskType
    <3>2. PICK row \in task[c].todo : task' = [task EXCEPT ![c] = [task[c] EXCEPT !.todo = @ \ {row}]]
      BY <1>16 DEF SendRow
    <3> DEFINE t == [task[c] EXCEPT !.todo = @ \ {row}]
    <3>3. task' = [task EXCEPT ![c] = t]
      BY <3>2
    <3>4. t \in Task
      BY <3>1 DEF Task
    <3> HIDE DEF t
    <3>5. QED
      BY <3>3, <3>4 DEF TypeOK, TaskType
  <2>2. QueueType'
    <3>1. task[c] \in Task /\ out[c] \in Seq(Message)
      BY DEF TypeOK, TaskType, QueueType
    <3>2. \A row \in task[c].todo : Append(out[c], Push(row.item)) \in Seq(Message)
      <4>1. \A row \in task[c].todo : Push(row.item) \in Message
        BY <3>1, MessageTypes DEF Task, TodoRow
      <4>2. QED
        BY <3>1, <4>1
    <3>3. QED
      BY <1>16, <3>2 DEF TypeOK, QueueType, SendRow
  <2>3. QED
    BY <1>16, SameTypes, <2>1, <2>2 DEF TypeOK, SendRow
<1>17. ASSUME NEW c \in Conns, SendPage(c) PROVE TypeOK'
  <2>1. TaskType'
    <3>1. task[c] \in Task
      BY DEF TypeOK, TaskType
    <3>2. [task[c] EXCEPT !.pc = "confirm"] \in Task
      BY <3>1 DEF Task, TaskStep
    <3>3. QED
      BY <1>17, <3>2, ConstantTypes DEF TypeOK, TaskType, SendPage
  <2>2. QueueType'
    <3>1. task[c] \in Task /\ out[c] \in Seq(Message)
      BY DEF TypeOK, TaskType, QueueType
    <3>2. Page(task[c].epoch, task[c].until, task[c].more) \in Message
      BY <3>1, MessageTypes DEF Task
    <3>3. Append(out[c], Page(task[c].epoch, task[c].until, task[c].more)) \in Seq(Message)
      BY <3>1, <3>2
    <3>4. QED
      BY <1>17, <3>3 DEF TypeOK, QueueType, SendPage
  <2>3. QED
    BY <1>17, SameTypes, <2>1, <2>2 DEF TypeOK, SendPage
<1>18. ASSUME NEW c \in Conns, SendFails(c) PROVE TypeOK'
  <2>1. TaskType'
    BY <1>18, ConstantTypes DEF TypeOK, TaskType, SendFails
  <2>2. QED
    BY <1>18, SameTypes, <2>1 DEF TypeOK, SendFails
<1>19. ASSUME NEW c \in Conns, ConfirmCatchUp(c) PROVE TypeOK'
  <2>1. RegistryType'
    <3>1. \A d \in Conns \ registered : cursor'[d] = cursor[d]
      BY <1>19 DEF TypeOK, CursorType, ConfirmCatchUp
    <3>2. QED
      BY <1>19, <3>1 DEF TypeOK, RegistryType, ConfirmCatchUp
  <2>2. CursorType'
    <3> DEFINE cur == Confirm(cursor[c], task[c].epoch, task[c].until)
    <3>1. task[c] \in Task /\ cursor[c] \in Cursor /\ out[c] \in Seq(Message)
      BY DEF TypeOK, TaskType, CursorType, QueueType
    <3>2. cur \in Cursor
      BY <3>1, ConfirmType DEF Task
    <3> HIDE DEF cur
    <3>3. Advance(cur) \in Cursor /\ WithCheckpoint(out[c], cur) \in Seq(Message)
      BY <3>1, <3>2, AdvanceProperties, CheckpointType
    <3>4. QED
      BY <1>19, <3>3 DEF TypeOK, CursorType, ConfirmCatchUp, cur
  <2>3. TaskType'
    BY <1>19, ConstantTypes DEF TypeOK, TaskType, ConfirmCatchUp
  <2>4. QueueType'
    <3> DEFINE cur == Confirm(cursor[c], task[c].epoch, task[c].until)
    <3>1. task[c] \in Task /\ cursor[c] \in Cursor /\ out[c] \in Seq(Message)
      BY DEF TypeOK, TaskType, CursorType, QueueType
    <3>2. cur \in Cursor
      BY <3>1, ConfirmType DEF Task
    <3> HIDE DEF cur
    <3>3. Advance(cur) \in Cursor /\ WithCheckpoint(out[c], cur) \in Seq(Message)
      BY <3>1, <3>2, AdvanceProperties, CheckpointType
    <3>4. QED
      BY <1>19, <3>3 DEF TypeOK, QueueType, ConfirmCatchUp, cur
  <2>5. QED
    BY <1>19, SameTypes, <2>1, <2>2, <2>3, <2>4 DEF TypeOK, ConfirmCatchUp
<1>20. ASSUME NEW c \in Conns, ReleaseTask(c) PROVE TypeOK'
  <2>1. TaskType'
    BY <1>20, ConstantTypes DEF TypeOK, TaskType, ReleaseTask
  <2>2. QED
    BY <1>20, SameTypes, <2>1 DEF TypeOK, ReleaseTask
<1>21. CASE Restart
  <2>1. CaptureType'
    BY <1>21 DEF TypeOK, CaptureType, Restart, Forget
  <2>2. RegistryType'
    BY <1>21 DEF TypeOK, RegistryType, EndState, Restart, Forget
  <2>3. CursorType'
    BY <1>21, ConstantTypes DEF TypeOK, CursorType, Restart, Forget
  <2>4. TaskType'
    BY <1>21, ConstantTypes DEF TypeOK, TaskType, Restart, Forget
  <2>5. QED
    BY <1>21, SameTypes, <2>1, <2>2, <2>3, <2>4 DEF TypeOK, Restart, Forget
<1>22. CASE RestartRebuilt
  <2>1. DatabaseType'
    BY <1>22 DEF TypeOK, DatabaseType, RestartRebuilt
  <2>2. CaptureType'
    BY <1>22 DEF TypeOK, CaptureType, RestartRebuilt, Forget
  <2>3. RegistryType'
    BY <1>22 DEF TypeOK, RegistryType, EndState, RestartRebuilt, Forget
  <2>4. CursorType'
    BY <1>22, ConstantTypes DEF TypeOK, CursorType, RestartRebuilt, Forget
  <2>5. TaskType'
    BY <1>22, ConstantTypes DEF TypeOK, TaskType, RestartRebuilt, Forget
  <2>6. QED
    BY <1>22, SameTypes, <2>1, <2>2, <2>3, <2>4, <2>5 DEF TypeOK, RestartRebuilt, Forget
<1>23. ASSUME NEW c \in Conns, PeerOpens(c) PROVE TypeOK'
  <2>1. PeerType'
    BY <1>23 DEF TypeOK, PeerType, EndState, PeerOpens
  <2>2. QueueType'
    <3>1. [after |-> wm[PeerOf[c]].seq, epoch |-> wm[PeerOf[c]].epoch] \in Request
      BY PeerOfAssumption DEF TypeOK, PeerType, Request
    <3>2. Append(inn[c], [after |-> wm[PeerOf[c]].seq, epoch |-> wm[PeerOf[c]].epoch]) \in Seq(Request)
      BY <3>1 DEF TypeOK, QueueType
    <3>3. QED
      BY <1>23, <3>2 DEF TypeOK, QueueType, PeerOpens
  <2>3. QED
    BY <1>23, SameTypes, <2>1, <2>2 DEF TypeOK, PeerOpens
<1>24. ASSUME NEW c \in Conns, PeerCloses(c) PROVE TypeOK'
  <2>1. PeerType'
    BY <1>24 DEF TypeOK, PeerType, EndState, PeerCloses
  <2>2. QueueType'
    BY <1>24 DEF TypeOK, QueueType, PeerCloses
  <2>3. QED
    BY <1>24, SameTypes, <2>1, <2>2 DEF TypeOK, PeerCloses
<1>25. ASSUME NEW c \in Conns, PeerTakesPush(c) PROVE TypeOK'
  <2>1. PeerType'
    <3>1. Head(out[c]) \in Message /\ Head(out[c]).type = "push"
      BY <1>25 DEF TypeOK, QueueType, PeerTakesPush
    <3>2. Head(out[c]).item \in Items
      BY <3>1 DEF Message
    <3>3. QED
      BY <1>25, <3>2, PeerOfAssumption DEF TypeOK, PeerType, PeerTakesPush
  <2>2. QueueType'
    BY <1>25 DEF TypeOK, QueueType, PeerTakesPush
  <2>3. QED
    BY <1>25, SameTypes, <2>1, <2>2 DEF TypeOK, PeerTakesPush
<1>26. ASSUME NEW c \in Conns, PeerFailsPush(c) PROVE TypeOK'
  <2>1. PeerType'
    BY <1>26 DEF TypeOK, PeerType, EndState, PeerFailsPush
  <2>2. QueueType'
    BY <1>26 DEF TypeOK, QueueType, PeerFailsPush
  <2>3. QED
    BY <1>26, SameTypes, <2>1, <2>2 DEF TypeOK, PeerFailsPush
<1>27. ASSUME NEW c \in Conns, PeerTakesPage(c) PROVE TypeOK'
  <2>1. PeerType'
    <3>1. Head(out[c]) \in Message /\ Head(out[c]).type = "page" /\ Tail(out[c]) \in Seq(Message)
      BY <1>27 DEF TypeOK, QueueType, PeerTakesPage
    <3>2. Head(out[c]).epoch \in Nat /\ Head(out[c]).until \in Nat
      BY <3>1 DEF Message
    <3>3. AdvancedWatermark(wm[PeerOf[c]], Head(out[c]).epoch, Head(out[c]).until) \in [epoch : Nat, seq : Nat]
      BY <3>2, PeerOfAssumption DEF TypeOK, PeerType, AdvancedWatermark
    <3>4. QED
      BY <1>27, <3>3 DEF TypeOK, PeerType, PeerTakesPage
  <2>2. QueueType'
    <3>1. Head(out[c]) \in Message /\ Head(out[c]).type = "page" /\ Tail(out[c]) \in Seq(Message)
      BY <1>27 DEF TypeOK, QueueType, PeerTakesPage
    <3>2. Head(out[c]).epoch \in Nat /\ Head(out[c]).until \in Nat
      BY <3>1 DEF Message
    <3> DEFINE request == [after |-> Head(out[c]).until, epoch |-> Head(out[c]).epoch]
    <3>3. request \in Request
      BY <3>2 DEF Request
    <3>4. inn[c] \in Seq(Request)
      BY DEF TypeOK, QueueType
    <3> HIDE DEF request
    <3>5. Append(inn[c], request) \in Seq(Request)
      BY <3>3, <3>4
    <3>6. QED
      BY <1>27, <3>1, <3>5 DEF TypeOK, QueueType, PeerTakesPage, request
  <2>3. QED
    BY <1>27, SameTypes, <2>1, <2>2 DEF TypeOK, PeerTakesPage
<1>28. CASE UNCHANGED vars
  BY <1>28, SameTypes DEF TypeOK, vars
<1>29. QED
  BY <1>1, <1>2, <1>3, <1>4, <1>5, <1>6, <1>7, <1>8, <1>9, <1>10, <1>11, <1>12, <1>13, <1>14, <1>15, <1>16, <1>17, <1>18, <1>19, <1>20, <1>21, <1>22, <1>23, <1>24, <1>25, <1>26, <1>27, <1>28
     DEF Next, CaptureStep, SendStep, TaskStepOf, SourceStep, PeerStep

(* In every behaviour, of any number of contents, peers and connections,   *)
(* the variables keep their types and a peer has one registered connection. *)
THEOREM TypeCorrect == Spec => []TypeOK
BY InitType, TypeStep, PTL DEF Spec
=============================================================================
