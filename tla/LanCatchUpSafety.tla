-------------------------- MODULE LanCatchUpSafety --------------------------
(***************************************************************************)
(* The watermark of LanCatchUp is sound, by the inductive invariant IInv.  *)
(*                                                                         *)
(* Most steps are calm: they take nothing from a peer and owe it no more   *)
(* than before.  The lemmas say what a calm step leaves sound, then what   *)
(* each operation does to the one queue, cursor or task it touches.        *)
(***************************************************************************)
EXTENDS LanCatchUpProofs

(* The numbering goes on in its epoch, what is taken stays taken, and no   *)
(* row with a number already handed out is owed afresh.                    *)
Calm ==
    /\ epoch' = epoch /\ counter <= counter'
    /\ \A p \in Peers : taken[p] \subseteq taken'[p]
    /\ \A p \in Peers, i \in Items :
          (Wanted(p, i)' /\ seqOf'[i] <= counter) => (Wanted(p, i) /\ seqOf'[i] = seqOf[i])

(* What the catch-up of c is going to bring it still brings, or it is safe. *)
KeepsAhead(c) ==
    \A i \in Items : (Wanted(PeerOf[c], i) /\ Ahead(c, i)) => Safe(c, out[c], i)' \/ Ahead(c, i)'

(* What TypeOK says of each variable, entry by entry.                     *)
LEMMA Ranges ==
    ASSUME TypeOK
    PROVE  /\ epoch \in Nat /\ counter \in Nat
           /\ \A i \in Items : seqOf[i] \in Nat
           /\ \A c \in Conns :
                 /\ PeerOf[c] \in Peers
                 /\ out[c] \in Seq(Message) /\ inn[c] \in Seq(Request)
                 /\ \A k \in 1 .. Len(out[c]) : out[c][k] \in Message
                 /\ \A k \in 1 .. Len(inn[c]) : inn[c][k].after \in Nat /\ inn[c][k].epoch \in Nat
                 /\ task[c] \in Task
                 /\ task[c].after \in Nat /\ task[c].epoch \in Nat /\ task[c].until \in Nat
                 /\ task[c].counter \in Nat
                 /\ cursor[c] \in Cursor
                 /\ cursor[c].known \in BOOLEAN /\ cursor[c].broken \in BOOLEAN
                 /\ cursor[c].epoch \in Nat /\ cursor[c].until \in Nat
                 /\ cursor[c].handled \subseteq Nat
           /\ \A p \in Peers : wm[p] \in [epoch : Nat, seq : Nat]
<1>1. epoch \in Nat /\ counter \in Nat /\ \A i \in Items : seqOf[i] \in Nat
  BY DEF TypeOK, DatabaseType
<1>2. \A p \in Peers : wm[p] \in [epoch : Nat, seq : Nat]
  BY DEF TypeOK, PeerType
<1>3. ASSUME NEW c \in Conns
      PROVE  /\ PeerOf[c] \in Peers
             /\ out[c] \in Seq(Message) /\ inn[c] \in Seq(Request)
             /\ \A k \in 1 .. Len(out[c]) : out[c][k] \in Message
             /\ \A k \in 1 .. Len(inn[c]) : inn[c][k].after \in Nat /\ inn[c][k].epoch \in Nat
  <2>1. PeerOf[c] \in Peers /\ out[c] \in Seq(Message) /\ inn[c] \in Seq(Request)
    BY PeerOfAssumption DEF TypeOK, QueueType
  <2>2. \A k \in 1 .. Len(out[c]) : out[c][k] \in Message
    BY <2>1
  <2>3. \A k \in 1 .. Len(inn[c]) : inn[c][k] \in Request
    BY <2>1
  <2>4. QED
    BY <2>1, <2>2, <2>3 DEF Request
<1>4. ASSUME NEW c \in Conns
      PROVE  /\ task[c] \in Task
             /\ task[c].after \in Nat /\ task[c].epoch \in Nat /\ task[c].until \in Nat
             /\ task[c].counter \in Nat
  BY DEF TypeOK, TaskType, Task
<1>5. ASSUME NEW c \in Conns
      PROVE  /\ cursor[c] \in Cursor
             /\ cursor[c].known \in BOOLEAN /\ cursor[c].broken \in BOOLEAN
             /\ cursor[c].epoch \in Nat /\ cursor[c].until \in Nat
             /\ cursor[c].handled \subseteq Nat
  BY DEF TypeOK, CursorType, Cursor
<1>6. QED
  BY <1>1, <1>2, <1>3, <1>4, <1>5

(* After a calm step a peer is owed, up to a number handed out before, no *)
(* more than it was.                                                      *)
LEMMA StillOwed ==
    ASSUME TypeOK, TypeOK', Calm,
           NEW p \in Peers, NEW i \in Items, NEW n \in Nat, n <= counter, Owed(p, i, n)'
    PROVE  Owed(p, i, n)
<1>1. Wanted(p, i)' /\ seqOf'[i] <= n
  BY DEF Owed
<1>2. seqOf'[i] \in Nat /\ counter \in Nat
  BY DEF TypeOK, DatabaseType
<1>3. Wanted(p, i) /\ seqOf'[i] = seqOf[i]
  BY <1>1, <1>2 DEF Calm
<1>4. QED
  BY <1>1, <1>3 DEF Owed

(* A calm step leaves a sound request sound.                              *)
LEMMA KeptRequest ==
    ASSUME TypeOK, TypeOK', Calm,
           NEW p \in Peers, NEW after \in Nat, NEW e \in Nat, RequestSound(p, after, e)
    PROVE  RequestSound(p, after, e)'
<1>1. Behind(e, after)'
  BY Ranges DEF RequestSound, Behind, Calm, TypeOK, DatabaseType
<1>2. ASSUME e = epoch', NEW i \in Items, Owed(p, i, after)' PROVE i \in taken'[p]
  <2>1. e = epoch /\ after <= counter
    BY <1>2 DEF Calm, RequestSound, Behind
  <2>2. Owed(p, i, after)
    BY <1>2, <2>1, StillOwed
  <2>3. QED
    BY <2>1, <2>2 DEF RequestSound, Calm
<1>3. QED
  BY <1>1, <1>2 DEF RequestSound

(* A calm step that moves no watermark leaves them sound.                 *)
LEMMA KeptWatermarks ==
    ASSUME IInv, TypeOK', Calm, wm' = wm
    PROVE  WatermarksBehind' /\ WatermarksHold'
<1> TypeOK
  BY DEF IInv, Core
<1>1. WatermarksBehind'
  BY Ranges DEF IInv, Core, WatermarksBehind, Behind, Calm, TypeOK, DatabaseType
<1>2. ASSUME NEW p \in Peers, wm'[p].epoch = epoch', NEW i \in Items, Wanted(p, i)', seqOf'[i] <= wm'[p].seq
      PROVE  i \in taken'[p]
  <2>1. wm[p].epoch = epoch /\ wm[p].seq \in Nat /\ wm[p].seq <= counter
    BY <1>2, Ranges DEF Calm, IInv, Core, WatermarksBehind, Behind
  <2>2. Owed(p, i, wm[p].seq)
    <3>1. Owed(p, i, wm[p].seq)'
      BY <1>2 DEF Owed
    <3> DEFINE n == wm[p].seq
    <3>2. n' = n
      OBVIOUS
    <3>3. Wanted(p, i) /\ seqOf'[i] = seqOf[i]
      BY <1>2, <2>1 DEF Calm, TypeOK, DatabaseType
    <3>4. QED
      BY <1>2, <3>3 DEF Owed
  <2>3. QED
    BY <2>1, <2>2 DEF IInv, Core, WatermarksHold, Owed, Calm
<1>3. QED
  BY <1>1, <1>2 DEF WatermarksHold, Owed

(* A calm step leaves the requests on their way sound.                    *)
LEMMA KeptAsked ==
    ASSUME IInv, TypeOK', Calm, NEW c \in Conns, inn'[c] = inn[c]
    PROVE  AskedSound(c)'
<1> TypeOK
  BY DEF IInv, Core
<1>1. ASSUME NEW k \in 1 .. Len(inn[c])
      PROVE  RequestSound(PeerOf[c], inn[c][k].after, inn[c][k].epoch)'
  <2> DEFINE a == inn[c][k].after
             e == inn[c][k].epoch
             p == PeerOf[c]
  <2>1. RequestSound(p, a, e) /\ a \in Nat /\ e \in Nat /\ p \in Peers
    BY Ranges DEF IInv, Core, AskedSound
  <2>2. PICK a1 \in Nat, e1 \in Nat : a1 = a /\ e1 = e
    BY <2>1
  <2>3. RequestSound(p, a1, e1)'
    BY <2>1, <2>2, KeptRequest
  <2>4. QED
    BY <2>2, <2>3
<1>2. QED
  BY <1>1 DEF AskedSound

(* A calm step that keeps what is safe leaves an answer under way sound.  *)
LEMMA KeptAnswer ==
    ASSUME IInv, TypeOK', Calm, NEW c \in Conns, task'[c] = task[c], Live(c)' => Live(c),
           Live(c)' => \A i \in Items : Safe(c, out[c], i) => Safe(c, out[c], i)'
    PROVE  AnswerSound(c)'
<1> TypeOK
  BY DEF IInv, Core
<1>1. AnswerSound(c) /\ PeerOf[c] \in Peers /\ epoch \in Nat /\ counter \in Nat /\ counter' \in Nat
  BY Ranges DEF IInv, Core, TypeOK, DatabaseType
<1>2. PICK t \in Task : t = task[c]
  BY Ranges
<1>3. /\ t.after \in Nat /\ t.epoch \in Nat /\ t.until \in Nat /\ t.counter \in Nat
  BY DEF Task
<1>4. t.pc \in {"counter", "page"} => RequestSound(PeerOf[c], t.after, t.epoch)'
  BY <1>1, <1>2, <1>3, KeptRequest DEF AnswerSound
<1>5. /\ t.pc \in {"page", "send", "confirm"} => t.epoch = epoch'
      /\ t.pc = "page" => t.counter <= counter'
      /\ t.pc = "confirm" => ~t.more
      /\ t.pc \in {"send", "confirm"} => t.until <= counter'
  BY <1>1, <1>2, <1>3 DEF AnswerSound, Calm
<1>6. ASSUME t.pc \in {"send", "confirm"}, Live(c)', NEW i \in Items, Owed(PeerOf[c], i, t.until)'
      PROVE  Safe(c, out[c], i)' \/ ToSend(c, i)'
  <2>1. t.until <= counter
    BY <1>1, <1>2, <1>6 DEF AnswerSound
  <2>2. Owed(PeerOf[c], i, t.until)
    BY <1>1, <1>3, <1>6, <2>1, StillOwed
  <2>3. Safe(c, out[c], i) \/ ToSend(c, i)
    BY <1>1, <1>2, <1>6, <2>2 DEF AnswerSound
  <2>4. QED
    BY <1>6, <2>3 DEF ToSend
<1>7. QED
  BY <1>2, <1>4, <1>5, <1>6 DEF AnswerSound

(***************************************************************************)
(* The queue of a connection                                               *)
(***************************************************************************)

(* What is on its way stays so when a message joins the queue.             *)
LEMMA AppendKeeps ==
    ASSUME NEW queue \in Seq(Message), NEW m \in Message
    PROVE  /\ Append(queue, m) \in Seq(Message)
           /\ Len(queue) \in Nat
           /\ Len(Append(queue, m)) = Len(queue) + 1
           /\ \A k \in 1 .. Len(queue) : Append(queue, m)[k] = queue[k]
           /\ Append(queue, m)[Len(queue) + 1] = m
           /\ \A i \in Items : OnItsWay(queue, i) => OnItsWay(Append(queue, m), i)
           /\ \A i \in Items : m = Push(i) => OnItsWay(Append(queue, m), i)
<1>1. /\ Len(queue) \in Nat /\ Append(queue, m) \in Seq(Message)
      /\ Len(Append(queue, m)) = Len(queue) + 1
      /\ \A k \in 1 .. Len(queue) : Append(queue, m)[k] = queue[k]
      /\ Append(queue, m)[Len(queue) + 1] = m
  OBVIOUS
<1> DEFINE longer == Append(queue, m)
<1> HIDE DEF longer
<1>2. \A i \in Items : OnItsWay(queue, i) => OnItsWay(longer, i)
  BY <1>1 DEF OnItsWay, longer
<1>3. \A i \in Items : m = Push(i) => OnItsWay(longer, i)
  BY <1>1 DEF OnItsWay, longer
<1>4. QED
  BY <1>1, <1>2, <1>3 DEF longer

(* A push behind the others, or a page that covers what is safe there,     *)
(* leaves the queue sound.                                                 *)
LEMMA PushSound ==
    ASSUME NEW c \in Conns, NEW queue \in Seq(Message), QueueSound(c, queue), NEW x \in Items
    PROVE  QueueSound(c, Append(queue, Push(x)))
<1> DEFINE m == Push(x)
<1>1. m \in Message /\ m.type # "page"
  BY MessageTypes DEF Push
<1> HIDE DEF m
<1> DEFINE longer == Append(queue, m)
<1>2. /\ Len(queue) \in Nat /\ Len(longer) = Len(queue) + 1
      /\ \A k \in 1 .. Len(queue) : longer[k] = queue[k]
      /\ longer[Len(queue) + 1] = m
  BY <1>1, AppendKeeps
<1> HIDE DEF longer
<1>3. ASSUME NEW k \in 1 .. Len(longer) PROVE PageSound(c, longer, k)
  <2>1. CASE k = Len(queue) + 1
    BY <1>1, <1>2, <2>1 DEF PageSound
  <2>2. CASE k # Len(queue) + 1
    <3>1. k \in 1 .. Len(queue) /\ \A j \in 1 .. k : longer[j] = queue[j]
      BY <1>2, <2>2
    <3>2. QED
      BY <3>1 DEF QueueSound, PageSound
  <2>3. QED
    BY <2>1, <2>2
<1>4. QED
  BY <1>3 DEF QueueSound, longer, m

(* A page that covers only what is safe leaves the queue it joins sound.  *)
LEMMA CoveringPageSound ==
    ASSUME NEW c \in Conns, NEW queue \in Seq(Message), QueueSound(c, queue),
           NEW e \in Nat, NEW n \in Nat, NEW more \in BOOLEAN, Behind(e, n),
           (Live(c) /\ e = epoch) => \A i \in Items : Owed(PeerOf[c], i, n) => Safe(c, queue, i)
    PROVE  QueueSound(c, Append(queue, Page(e, n, more)))
<1> DEFINE m == Page(e, n, more)
<1>1. m \in Message /\ m.type = "page" /\ m.epoch = e /\ m.until = n
  BY MessageTypes DEF Page
<1> HIDE DEF m
<1> DEFINE longer == Append(queue, m)
<1>2. /\ Len(queue) \in Nat /\ Len(longer) = Len(queue) + 1
      /\ \A k \in 1 .. Len(queue) : longer[k] = queue[k]
      /\ longer[Len(queue) + 1] = m
  BY <1>1, AppendKeeps
<1> HIDE DEF longer
<1>3. ASSUME NEW k \in 1 .. Len(longer) PROVE PageSound(c, longer, k)
  <2>1. CASE k = Len(queue) + 1
    <3>1. longer[k] = m /\ k - 1 = Len(queue)
      BY <1>2, <2>1
    <3>2. \A i \in Items : Safe(c, queue, i) =>
              i \in taken[PeerOf[c]] \/ \E j \in 1 .. (k - 1) : longer[j] = Push(i)
      BY <1>2, <3>1 DEF Safe, OnItsWay
    <3>3. QED
      BY <1>1, <3>1, <3>2 DEF PageSound
  <2>2. CASE k # Len(queue) + 1
    <3>1. k \in 1 .. Len(queue) /\ \A j \in 1 .. k : longer[j] = queue[j]
      BY <1>2, <2>2
    <3>2. QED
      BY <3>1 DEF QueueSound, PageSound
  <2>3. QED
    BY <2>1, <2>2
<1>4. QED
  BY <1>3 DEF QueueSound, longer, m

(***************************************************************************)
(* The live cursor                                                         *)
(***************************************************************************)
LEMMA LongerQueueKeepsCursor ==
    ASSUME NEW c \in Conns, NEW cur \in Cursor, NEW queue, NEW longer,
           \A i \in Items : OnItsWay(queue, i) => OnItsWay(longer, i),
           LiveCursorSound(c, queue, cur)
    PROVE  LiveCursorSound(c, longer, cur)
BY DEF LiveCursorSound, Safe, Brings

(* Running on over numbers that are handled covers nothing that is not safe. *)
LEMMA AdvanceSound ==
    ASSUME TypeOK, NEW c \in Conns, NEW cur \in Cursor, NEW queue, LiveCursorSound(c, queue, cur)
    PROVE  LiveCursorSound(c, queue, Advance(cur))
<1> DEFINE adv == Advance(cur)
<1>1. /\ adv \in Cursor /\ adv.known = cur.known /\ adv.epoch = cur.epoch /\ adv.broken = cur.broken
      /\ adv.until >= cur.until /\ adv.handled \subseteq cur.handled
      /\ adv.until \in cur.handled \cup {cur.until}
      /\ adv.until # cur.until => /\ cur.known /\ ~cur.broken
                                 /\ (cur.until + 1) .. adv.until \subseteq cur.handled
  BY AdvanceProperties
<1> HIDE DEF adv
<1>2. cur.until \in Nat /\ adv.until \in Nat /\ cur.handled \subseteq Nat /\ counter \in Nat
  BY <1>1, Ranges DEF Cursor
<1>3. cur.known => adv.until <= counter
  BY <1>1, <1>2 DEF LiveCursorSound
<1>4. ASSUME cur.known, Live(c), NEW i \in Items, Owed(PeerOf[c], i, adv.until)
      PROVE  Safe(c, queue, i)
  <2>1. seqOf[i] \in Nat /\ Wanted(PeerOf[c], i) /\ seqOf[i] <= adv.until
    BY <1>4, Ranges DEF Owed
  <2>2. CASE seqOf[i] <= cur.until
    BY <1>4, <2>1, <2>2 DEF LiveCursorSound, Owed
  <2>3. CASE ~(seqOf[i] <= cur.until)
    <3>1. adv.until # cur.until /\ seqOf[i] \in (cur.until + 1) .. adv.until
      BY <1>2, <2>1, <2>3
    <3>2. ~cur.broken /\ seqOf[i] \in cur.handled
      BY <1>1, <3>1
    <3>3. QED
      BY <1>4, <2>1, <3>2 DEF LiveCursorSound, Brings
  <2>4. QED
    BY <2>2, <2>3
<1>5. QED
  BY <1>1, <1>3, <1>4 DEF LiveCursorSound, adv

(* The checkpoint an advance sends covers what is safe in its queue.       *)
LEMMA CheckpointSound ==
    ASSUME TypeOK, NEW c \in Conns, NEW queue \in Seq(Message), NEW cur \in Cursor,
           QueueSound(c, queue), LiveCursorSound(c, queue, cur)
    PROVE  /\ WithCheckpoint(queue, cur) \in Seq(Message)
           /\ QueueSound(c, WithCheckpoint(queue, cur))
           /\ LiveCursorSound(c, WithCheckpoint(queue, cur), Advance(cur))
           /\ \A i \in Items : OnItsWay(queue, i) => OnItsWay(WithCheckpoint(queue, cur), i)
<1>1. LiveCursorSound(c, queue, Advance(cur)) /\ Advance(cur) \in Cursor
  BY AdvanceSound, AdvanceProperties
<1>2. CASE Advance(cur).until > cur.until /\ Len(queue) < QueueCap
  <2> DEFINE e == cur.epoch
             n == Advance(cur).until
             page == Page(e, n, FALSE)
             longer == Append(queue, page)
  <2>1. WithCheckpoint(queue, cur) = longer
    BY <1>2 DEF WithCheckpoint
  <2>2. e \in Nat /\ n \in Nat /\ page \in Message /\ cur.until \in Nat
    BY <1>1, MessageTypes DEF Cursor
  <2>3. Advance(cur).known /\ Advance(cur).epoch = e
    BY <1>2, <2>2, AdvanceProperties
  <2>4. /\ Behind(e, n)
        /\ (Live(c) /\ e = epoch) => \A i \in Items : Owed(PeerOf[c], i, n) => Safe(c, queue, i)
    BY <1>1, <2>3, Ranges DEF LiveCursorSound, Behind
  <2> HIDE DEF e, n
  <2>5. QueueSound(c, longer)
    BY <2>2, <2>4, CoveringPageSound
  <2> HIDE DEF page
  <2>6. longer \in Seq(Message) /\ \A i \in Items : OnItsWay(queue, i) => OnItsWay(longer, i)
    BY <2>2, AppendKeeps
  <2>7. LiveCursorSound(c, longer, Advance(cur))
    BY <1>1, <2>6, LongerQueueKeepsCursor
  <2>8. QED
    BY <2>1, <2>5, <2>6, <2>7
<1>3. CASE ~(Advance(cur).until > cur.until /\ Len(queue) < QueueCap)
  <2>1. WithCheckpoint(queue, cur) = queue
    BY <1>3 DEF WithCheckpoint
  <2>2. QED
    BY <1>1, <2>1
<1>4. QED
  BY <1>2, <1>3

(***************************************************************************)
(* What a calm step makes of a connection whose queue and cursor are known *)
(***************************************************************************)
LEMMA CarriedQueue ==
    ASSUME TypeOK, TypeOK', Calm, NEW c \in Conns, Live(c)' => Live(c),
           NEW queue \in Seq(Message), QueueSound(c, queue), out'[c] = queue
    PROVE  QueueSound(c, out[c])'
<1>1. PeerOf[c] \in Peers /\ epoch \in Nat /\ counter \in Nat /\ counter' \in Nat
  BY Ranges DEF TypeOK, DatabaseType
<1>2. ASSUME NEW k \in 1 .. Len(queue) PROVE PageSound(c, queue, k)'
  <2>1. PageSound(c, queue, k)
    BY DEF QueueSound
  <2>2. PICK m \in Message : m = queue[k]
    OBVIOUS
  <2>3. CASE m.type # "page"
    BY <2>2, <2>3 DEF PageSound
  <2>4. CASE m.type = "page"
    <3>1. m.epoch \in Nat /\ m.until \in Nat
      BY <2>4 DEF Message
    <3>2. Behind(m.epoch, m.until)
      BY <2>1, <2>2, <2>4 DEF PageSound
    <3>3. Behind(m.epoch, m.until)'
      BY <1>1, <3>1, <3>2 DEF Behind, Calm
    <3>4. ASSUME Live(c)', m.epoch = epoch', NEW i \in Items, Owed(PeerOf[c], i, m.until)'
          PROVE  i \in taken'[PeerOf[c]] \/ \E j \in 1 .. (k - 1) : queue[j] = Push(i)
      <4>1. m.until <= counter /\ m.epoch = epoch
        BY <3>2, <3>4 DEF Behind, Calm
      <4>2. Owed(PeerOf[c], i, m.until)
        BY <1>1, <3>1, <3>4, <4>1, StillOwed
      <4>3. i \in taken[PeerOf[c]] \/ \E j \in 1 .. (k - 1) : queue[j] = Push(i)
        BY <2>1, <2>2, <2>4, <3>4, <4>1, <4>2 DEF PageSound
      <4>4. QED
        BY <1>1, <4>3 DEF Calm
    <3>5. QED
      BY <2>2, <3>3, <3>4 DEF PageSound
  <2>5. QED
    BY <2>3, <2>4
<1>3. QED
  BY <1>2 DEF QueueSound, PageSound

(* A task that does not move still brings what it was going to bring.      *)
LEMMA SameAhead ==
    ASSUME NEW c \in Conns, task'[c] = task[c]
    PROVE  KeepsAhead(c) /\ \A i \in Items : Ahead(c, i)' <=> Ahead(c, i)
BY DEF KeepsAhead, Ahead, LastPageAhead, ToSend

(* A task that has not read its last page may still bring anything.        *)
LEMMA AnyAhead ==
    ASSUME NEW c \in Conns, task'[c].pc \in {"send", "confirm"} => task'[c].more
    PROVE  KeepsAhead(c) /\ \A i \in Items : Ahead(c, i) => Ahead(c, i)'
BY DEF KeepsAhead, Ahead, LastPageAhead, ToSend

(* A cursor that is sound for the queue stays so over a calm step that    *)
(* keeps what is safe.                                                    *)
LEMMA CarriedCursor ==
    ASSUME TypeOK, TypeOK', Calm, NEW c \in Conns, Live(c)' => Live(c),
           NEW queue, NEW cur \in Cursor, LiveCursorSound(c, queue, cur),
           cursor'[c] = cur,
           KeepsAhead(c),
           Live(c)' => \A i \in Items : Safe(c, queue, i) => Safe(c, out[c], i)'
    PROVE  LiveCursorSound(c, out[c], cursor[c])'
<1>1. PeerOf[c] \in Peers /\ epoch \in Nat /\ counter \in Nat /\ counter' \in Nat
  BY Ranges DEF TypeOK, DatabaseType
<1>3. cur.until \in Nat
  BY DEF Cursor
<1>4. cur.handled \subseteq 1 .. counter'
  BY <1>1 DEF LiveCursorSound, Calm
<1>5. cur.known => cur.epoch = epoch' /\ cur.until <= counter'
  BY <1>1, <1>3 DEF LiveCursorSound, Calm
<1>6. ASSUME cur.known, Live(c)', NEW i \in Items, Owed(PeerOf[c], i, cur.until)'
      PROVE  Safe(c, out[c], i)'
  <2>1. cur.until <= counter
    BY <1>6 DEF LiveCursorSound
  <2>2. Owed(PeerOf[c], i, cur.until)
    BY <1>1, <1>3, <1>6, <2>1, StillOwed
  <2>3. QED
    BY <1>6, <2>2 DEF LiveCursorSound
<1>7. ASSUME Live(c)', ~cur.broken, NEW i \in Items, Wanted(PeerOf[c], i)', seqOf'[i] \in cur.handled
      PROVE  Brings(c, out[c], cur.known, i)'
  <2>1. seqOf'[i] <= counter
    BY <1>1, <1>7 DEF LiveCursorSound
  <2>2. Wanted(PeerOf[c], i) /\ seqOf[i] = seqOf'[i]
    BY <1>1, <1>7, <2>1 DEF Calm
  <2>3. Brings(c, queue, cur.known, i)
    BY <1>7, <2>2 DEF LiveCursorSound
  <2>4. QED
    BY <1>7, <2>2, <2>3 DEF Brings, KeepsAhead
<1>8. QED
  BY <1>4, <1>5, <1>6, <1>7 DEF LiveCursorSound

(* What was taken or on its way stays so while the queue only grows.      *)
LEMMA KeptSafe ==
    ASSUME TypeOK, Calm, NEW c \in Conns, NEW queue,
           \A i \in Items : OnItsWay(queue, i) => OnItsWay(out'[c], i)
    PROVE  \A i \in Items : Safe(c, queue, i) => Safe(c, out[c], i)'
<1>1. PeerOf[c] \in Peers
  BY PeerOfAssumption
<1>2. \A i \in Items : OnItsWay(out'[c], i) => OnItsWay(out[c], i)'
  BY DEF OnItsWay
<1>3. QED
  BY <1>1, <1>2 DEF Safe, Calm

(* A connection whose queue and cursor are sound before and after.         *)
LEMMA CarriedConnection ==
    ASSUME IInv, TypeOK', Calm, NEW c \in Conns, Live(c)' => Live(c),
           NEW queue \in Seq(Message), QueueSound(c, queue), out'[c] = queue,
           NEW cur \in Cursor, LiveCursorSound(c, queue, cur), cursor'[c] = cur,
           \A i \in Items : OnItsWay(out[c], i) => OnItsWay(queue, i),
           task'[c] = task[c] \/ KeepsAhead(c)
    PROVE  /\ QueueSound(c, out[c])'
           /\ LiveCursorSound(c, out[c], cursor[c])'
           /\ inn'[c] = inn[c] => AskedSound(c)'
           /\ task'[c] = task[c] => AnswerSound(c)'
           /\ \A i \in Items : Safe(c, queue, i) => Safe(c, out[c], i)'
           /\ \A i \in Items : Safe(c, out[c], i) => Safe(c, out[c], i)'
<1> TypeOK
  BY DEF IInv, Core
<1>1. /\ \A i \in Items : Safe(c, queue, i) => Safe(c, out[c], i)'
      /\ \A i \in Items : Safe(c, out[c], i) => Safe(c, out[c], i)'
  BY KeptSafe
<1>2. QueueSound(c, out[c])'
  BY CarriedQueue
<1>3. LiveCursorSound(c, out[c], cursor[c])'
  <2>1. task'[c] = task[c] => KeepsAhead(c)
    BY SameAhead
  <2>2. QED
    BY <1>1, <2>1, CarriedCursor
<1>4. /\ inn'[c] = inn[c] => AskedSound(c)'
      /\ task'[c] = task[c] => AnswerSound(c)'
  BY <1>1, KeptAsked, KeptAnswer
<1>5. QED
  BY <1>1, <1>2, <1>3, <1>4

(* A connection that the step leaves alone stays sound.                    *)
LEMMA KeptConnection ==
    ASSUME IInv, TypeOK', Calm, NEW c \in Conns, Live(c)' => Live(c), out'[c] = out[c],
           cursor'[c] \in {cursor[c], FreshCursor, [cursor[c] EXCEPT !.broken = TRUE]},
           task'[c] = task[c] \/ KeepsAhead(c)
    PROVE  /\ QueueSound(c, out[c])'
           /\ LiveCursorSound(c, out[c], cursor[c])'
           /\ inn'[c] = inn[c] => AskedSound(c)'
           /\ task'[c] = task[c] => AnswerSound(c)'
           /\ \A i \in Items : Safe(c, out[c], i) => Safe(c, out[c], i)'
<1>1. PICK queue \in Seq(Message), cur \in Cursor : queue = out[c] /\ cur = cursor[c]
  BY Ranges DEF IInv, Core
<1>2. QueueSound(c, queue) /\ LiveCursorSound(c, queue, cur)
  BY <1>1 DEF IInv, Core
<1>3. LiveCursorSound(c, queue, FreshCursor) /\ FreshCursor \in Cursor
  BY ConstantTypes DEF LiveCursorSound, FreshCursor
<1>4. /\ [cur EXCEPT !.broken = TRUE] \in Cursor
      /\ LiveCursorSound(c, queue, [cur EXCEPT !.broken = TRUE])
  BY <1>2 DEF LiveCursorSound, Cursor
<1>5. PICK next \in Cursor : cursor'[c] = next /\ LiveCursorSound(c, queue, next)
  BY <1>1, <1>2, <1>3, <1>4
<1>6. QED
  BY <1>1, <1>2, <1>5, CarriedConnection

(* The peer takes the first message: a push, which it then has, or a page. *)
LEMMA TailSound ==
    ASSUME IInv, TypeOK', Calm, NEW c \in Conns, Live(c)' => Live(c), out[c] # <<>>,
           out'[c] = Tail(out[c]),
           \A i \in Items : Head(out[c]) = Push(i) => i \in taken'[PeerOf[c]]
    PROVE  /\ QueueSound(c, out[c])'
           /\ \A i \in Items : Safe(c, out[c], i) => Safe(c, out[c], i)'
<1> TypeOK
  BY DEF IInv, Core
<1>1. /\ PeerOf[c] \in Peers /\ counter \in Nat /\ counter' \in Nat /\ epoch \in Nat
      /\ QueueSound(c, out[c])
  BY Ranges DEF IInv, Core, TypeOK, DatabaseType
<1>2. out[c] \in Seq(Message) /\ Tail(out[c]) \in Seq(Message)
  <2>1. out[c] \in Seq(Message)
    BY Ranges
  <2>2. QED
    BY <2>1
<1>3. PICK old \in Seq(Message), new \in Seq(Message) : old = out[c] /\ new = Tail(out[c])
  BY <1>2
<1>9. /\ Len(old) \in Nat \ {0} /\ Len(new) = Len(old) - 1
      /\ \A k \in 1 .. Len(new) : new[k] = old[k + 1]
      /\ Head(old) = old[1]
  BY <1>3
<1>4. ASSUME NEW i \in Items, NEW k \in 1 .. Len(old), \E j \in 1 .. k : old[j] = Push(i)
      PROVE  i \in taken'[PeerOf[c]] \/ \E j \in 1 .. (k - 1) : new[j] = Push(i)
  <2>1. PICK j \in 1 .. k : old[j] = Push(i)
    BY <1>4
  <2>2. CASE j = 1
    BY <1>9, <1>3, <2>1, <2>2
  <2>3. CASE j # 1
    <3>1. j - 1 \in 1 .. (k - 1) /\ j - 1 \in 1 .. Len(new) /\ (j - 1) + 1 = j
      BY <1>9, <2>3
    <3>2. new[j - 1] = old[j]
      BY <1>9, <3>1
    <3>3. QED
      BY <2>1, <3>1, <3>2
  <2>4. QED
    BY <2>2, <2>3
<1>5. ASSUME NEW i \in Items, Safe(c, old, i) PROVE i \in taken'[PeerOf[c]] \/ OnItsWay(new, i)
  <2>1. CASE i \in taken[PeerOf[c]]
    BY <1>1, <2>1 DEF Calm
  <2>2. CASE OnItsWay(old, i)
    <3>1. Len(old) \in 1 .. Len(old) /\ Len(old) - 1 = Len(new)
      BY <1>9
    <3>2. QED
      BY <1>4, <2>2, <3>1 DEF OnItsWay
  <2>3. QED
    BY <1>5, <2>1, <2>2 DEF Safe
<1>6. ASSUME NEW k \in 1 .. Len(new) PROVE PageSound(c, new, k)'
  <2>1. k + 1 \in 1 .. Len(old) /\ new[k] = old[k + 1] /\ (k + 1) - 1 = k /\ k \in 1 .. Len(old)
    BY <1>9
  <2>2. PageSound(c, old, k + 1)
    BY <1>1, <1>3, <2>1 DEF QueueSound
  <2>3. PICK m \in Message : m = old[k + 1]
    BY <1>9, <2>1
  <2>4. CASE m.type # "page"
    BY <2>1, <2>3, <2>4, <1>3 DEF PageSound
  <2>5. CASE m.type = "page"
    <3>1. m.epoch \in Nat /\ m.until \in Nat
      BY <2>5 DEF Message
    <3>2. Behind(m.epoch, m.until)
      BY <2>2, <2>3, <2>5 DEF PageSound
    <3>3. Behind(m.epoch, m.until)'
      BY <1>1, <3>1, <3>2 DEF Behind, Calm
    <3>4. ASSUME Live(c)', m.epoch = epoch', NEW i \in Items, Owed(PeerOf[c], i, m.until)'
          PROVE  i \in taken'[PeerOf[c]] \/ \E j \in 1 .. (k - 1) : new[j] = Push(i)
      <4>1. m.until <= counter /\ m.epoch = epoch
        BY <3>2, <3>4 DEF Behind, Calm
      <4>2. Owed(PeerOf[c], i, m.until)
        BY <1>1, <3>1, <3>4, <4>1, StillOwed
      <4>3. i \in taken[PeerOf[c]] \/ \E j \in 1 .. k : old[j] = Push(i)
        BY <2>1, <2>2, <2>3, <2>5, <3>4, <4>1, <4>2 DEF PageSound, Live
      <4>4. QED
        BY <1>1, <1>4, <2>1, <4>3 DEF Calm
    <3>5. QED
      BY <2>1, <2>3, <3>3, <3>4, <1>3 DEF PageSound
  <2>6. QED
    BY <2>4, <2>5
<1>7. QED
  BY <1>3, <1>5, <1>6 DEF QueueSound, PageSound, Safe, OnItsWay

(***************************************************************************)
(* Steps                                                                   *)
(***************************************************************************)
LEMMA SameRows ==
    ASSUME TypeOK, UNCHANGED <<epoch, counter, seqOf>>,
           \A p \in Peers : taken[p] \subseteq taken'[p] /\ waived[p] \subseteq waived'[p],
           echoed \subseteq echoed'
    PROVE  Calm
BY Ranges DEF Calm, Wanted, Excused, TypeOK, DatabaseType

(* The parts of the invariant, put together after a calm step.            *)
LEMMA CalmStep ==
    ASSUME IInv, TypeOK', Calm, NumbersSound', CapturesSound',
           wm' = wm \/ (WatermarksBehind' /\ WatermarksHold'),
           \A c \in Conns : /\ QueueSound(c, out[c])' /\ AskedSound(c)'
                            /\ AnswerSound(c)' /\ LiveCursorSound(c, out[c], cursor[c])'
    PROVE  Core'
<1>1. WatermarksBehind' /\ WatermarksHold'
  BY KeptWatermarks
<1>2. (epoch > 0)'
  BY DEF IInv, Core, Calm
<1>3. QED
  BY <1>1, <1>2 DEF IInv, Core

(* A step that leaves all connections alone.                               *)
LEMMA QuietStep ==
    ASSUME IInv, TypeOK', Calm, NumbersSound', CapturesSound',
           UNCHANGED <<wm, rcv, out, inn, task, cursor>>
    PROVE  Core'
<1>1. \A c \in Conns : /\ QueueSound(c, out[c])' /\ AskedSound(c)'
                       /\ AnswerSound(c)' /\ LiveCursorSound(c, out[c], cursor[c])'
  BY KeptConnection DEF Live
<1>2. QED
  BY <1>1, CalmStep

(* Numbers and captures stay sound while nothing they speak of changes.   *)
LEMMA SameNumbers ==
    ASSUME IInv
    PROVE  /\ (UNCHANGED <<counter, seqOf>> /\ rows \subseteq rows') => NumbersSound'
           /\ UNCHANGED <<counter, seqOf, numbered, captures, echoed>> => CapturesSound'
BY DEF IInv, Core, NumbersSound, CapturesSound, EntrySound, HeldBack

(* A step of one connection.                                               *)
LEMMA LocalStep ==
    ASSUME IInv, TypeOK', UNCHANGED <<dbVars, numbered, captures, echoed>>, Calm,
           wm' = wm \/ (WatermarksBehind' /\ WatermarksHold'),
           NEW c \in Conns,
           \A d \in Conns \ {c} : /\ rcv'[d] = rcv[d] /\ out'[d] = out[d] /\ inn'[d] = inn[d]
                                  /\ task'[d] = task[d] /\ cursor'[d] = cursor[d],
           QueueSound(c, out[c])', AskedSound(c)', AnswerSound(c)', LiveCursorSound(c, out[c], cursor[c])'
    PROVE  Core'
<1>1. NumbersSound' /\ CapturesSound'
  BY SameNumbers DEF dbVars
<1>2. ASSUME NEW d \in Conns
      PROVE  /\ QueueSound(d, out[d])' /\ AskedSound(d)'
             /\ AnswerSound(d)' /\ LiveCursorSound(d, out[d], cursor[d])'
  <2>1. CASE d = c
    BY <2>1
  <2>2. CASE d # c
    BY <2>2, KeptConnection DEF Live
  <2>3. QED
    BY <2>1, <2>2
<1>3. QED
  BY <1>1, <1>2, CalmStep

(* Storing a row gives it no number and disturbs no connection.           *)
LEMMA SoundStore ==
    ASSUME IInv, TypeOK', NEW x \in Items, StoreCapture(x)
    PROVE  Core'
<1>1. Calm
  BY SameRows DEF IInv, Core, StoreCapture, peerVars, ghosts
<1>2. NumbersSound' /\ CapturesSound'
  BY SameNumbers DEF StoreCapture, ghosts
<1>3. QED
  BY <1>1, <1>2, QuietStep DEF StoreCapture, srcVars, peerVars

(* assign_sync_seq: the new number is above everything covered so far.    *)
LEMMA SoundNumber ==
    ASSUME IInv, TypeOK', NEW x \in Items, NumberCapture(x)
    PROVE  Core'
<1> TypeOK
  BY DEF IInv, Core
<1> USE DEF NumberCapture
<1>1. /\ counter \in Nat /\ counter' = counter + 1 /\ epoch' = epoch /\ taken' = taken
      /\ seqOf \in [Items -> Nat] /\ seqOf'[x] = counter + 1
      /\ \A i \in Items \ {x} : seqOf'[i] = seqOf[i]
      /\ \A p \in Peers, i \in Items \ {x} : i \in waived'[p] <=> i \in waived[p]
      /\ \A i \in Items \ {x} : i \in echoed' <=> i \in echoed
  BY DEF TypeOK, DatabaseType, GhostType, peerVars
<1>2. Calm
  <2>1. ASSUME NEW p \in Peers, NEW i \in Items, Wanted(p, i)', seqOf'[i] <= counter
        PROVE  Wanted(p, i) /\ seqOf'[i] = seqOf[i]
    <3>1. i # x
      BY <1>1, <2>1
    <3>2. QED
      BY <1>1, <2>1, <3>1 DEF Wanted, Excused
  <2>2. QED
    BY <1>1, <2>1 DEF Calm
<1>3. NumbersSound'
  BY <1>1 DEF IInv, Core, NumbersSound, TypeOK, CaptureType
<1>4. CapturesSound'
  <2>1. ASSUME NEW e \in Capture, EntrySound(e) PROVE EntrySound(e)'
    <3>1. e.seq \in Nat
      BY DEF Capture
    <3>2. QED
      BY <1>1, <2>1, <3>1 DEF EntrySound
  <2>2. ASSUME NEW e \in numbered' PROVE EntrySound(e)'
    <3>1. CASE e \in numbered
      BY <2>1, <3>1 DEF IInv, Core, TypeOK, CaptureType, CapturesSound
    <3>2. CASE e = [item |-> x, seq |-> counter + 1, send |-> FALSE]
      <4>1. \A j \in Items \ {x} : seqOf[j] <= counter
        BY DEF IInv, Core, NumbersSound
      <4>2. QED
        BY <1>1, <3>2, <4>1 DEF EntrySound
    <3>3. QED
      BY <3>1, <3>2
  <2>3. ASSUME NEW k \in 1 .. Len(captures)
        PROVE  /\ EntrySound(captures[k])'
               /\ (HeldBack(captures[k])' /\ ~Steady) => captures[k].item \in echoed'
    <3>1. PICK e \in Capture : e = captures[k]
      BY DEF TypeOK, CaptureType
    <3>2. EntrySound(e) /\ e.seq \in Nat /\ e.item \in Items /\ e.seq <= counter
      BY <3>1 DEF IInv, Core, CapturesSound, EntrySound, Capture
    <3>3. EntrySound(e)'
      BY <2>1, <3>2
    <3>4. ASSUME HeldBack(e)', ~Steady PROVE e.item \in echoed'
      <4>1. e.item # x
        BY <1>1, <3>2, <3>4 DEF HeldBack
      <4>2. HeldBack(e)
        BY <1>1, <3>2, <3>4, <4>1 DEF HeldBack
      <4>3. QED
        BY <1>1, <3>1, <3>2, <3>4, <4>1, <4>2 DEF IInv, Core, CapturesSound
    <3>5. QED
      BY <3>1, <3>3, <3>4
  <2>4. captures' = captures
    OBVIOUS
  <2>5. QED
    BY <2>2, <2>3, <2>4 DEF CapturesSound
<1>5. QED
  BY <1>2, <1>3, <1>4, QuietStep DEF srcVars, peerVars

(* A capture without a number promises nothing.                           *)
LEMMA SoundNumberFails ==
    ASSUME IInv, TypeOK', NEW x \in Items, NumberFails(x)
    PROVE  Core'
<1>1. Calm
  BY SameRows DEF IInv, Core, NumberFails, dbVars, peerVars, ghosts
<1>2. NumbersSound'
  BY SameNumbers DEF NumberFails, dbVars
<1>3. CapturesSound'
  BY Ranges DEF IInv, Core, NumberFails, dbVars, ghosts, CapturesSound, EntrySound, HeldBack
<1>4. QED
  BY <1>1, <1>2, <1>3, QuietStep DEF NumberFails, srcVars, peerVars

(* A deleted row is owed to nobody.                                       *)
LEMMA SoundDelete ==
    ASSUME IInv, TypeOK', NEW x \in Items, DeleteRow(x)
    PROVE  Core'
<1> TypeOK
  BY DEF IInv, Core
<1>1. /\ counter' = counter /\ counter \in Nat /\ epoch' = epoch /\ taken' = taken
      /\ waived' = waived /\ echoed' = echoed
      /\ seqOf \in [Items -> Nat] /\ seqOf'[x] = 0
      /\ \A i \in Items \ {x} : seqOf'[i] = seqOf[i]
  BY DEF DeleteRow, TypeOK, DatabaseType, peerVars, ghosts
<1>2. Calm
  BY <1>1 DEF Calm, Wanted, Excused
<1>3. NumbersSound'
  BY <1>1 DEF DeleteRow, IInv, Core, NumbersSound
<1>4. CapturesSound'
  <2>1. ASSUME NEW e \in Capture, EntrySound(e) PROVE EntrySound(e)'
    <3>1. e.seq \in Nat
      BY DEF Capture
    <3>2. QED
      BY <1>1, <2>1, <3>1 DEF EntrySound
  <2>2. captures' = captures /\ numbered' = numbered
    BY DEF DeleteRow, capVars
  <2>3. \A k \in 1 .. Len(captures) : captures[k] \in Capture /\ captures[k].item \in Items
    <3>1. \A k \in 1 .. Len(captures) : captures[k] \in Capture
      BY DEF TypeOK, CaptureType
    <3>2. QED
      BY <3>1 DEF Capture
  <2>4. \A e \in numbered : EntrySound(e)'
    BY <2>1 DEF IInv, Core, CapturesSound, TypeOK, CaptureType
  <2>5. \A k \in 1 .. Len(captures) : EntrySound(captures[k])'
    <3>1. ASSUME NEW k \in 1 .. Len(captures) PROVE EntrySound(captures[k])'
      <4>1. PICK e \in Capture : e = captures[k]
        BY <2>3
      <4>2. EntrySound(e)'
        BY <2>1, <4>1 DEF IInv, Core, CapturesSound
      <4>3. QED
        BY <2>2, <4>1, <4>2
    <3>2. QED
      BY <3>1
  <2>6. QED
    BY <1>1, <2>2, <2>3, <2>4, <2>5 DEF IInv, Core, CapturesSound, HeldBack
<1>5. QED
  BY <1>2, <1>3, <1>4, QuietStep DEF DeleteRow, srcVars, peerVars

(* Aging changes only what later pages select.                            *)
LEMMA SoundAge ==
    ASSUME IInv, TypeOK', NEW x \in Items, AgeRow(x)
    PROVE  Core'
<1>1. Calm
  BY SameRows DEF IInv, Core, AgeRow, peerVars, ghosts
<1>2. NumbersSound' /\ CapturesSound'
  BY SameNumbers DEF AgeRow, capVars, ghosts
<1>3. QED
  BY <1>1, <1>2, QuietStep DEF AgeRow, srcVars, peerVars

(* What is taken in from a peer has no number here.                       *)
LEMMA SoundTakeFromPeer ==
    ASSUME IInv, TypeOK', NEW p \in Peers, NEW x \in Items, TakeFromPeer(p, x)
    PROVE  Core'
<1>1. Calm
  BY SameRows DEF IInv, Core, TakeFromPeer, TypeOK, PeerType, ghosts
<1>2. NumbersSound' /\ CapturesSound'
  BY SameNumbers DEF TakeFromPeer, ghosts
<1>3. QED
  BY <1>1, <1>2, QuietStep DEF TakeFromPeer, srcVars

(* on_local_capture: an echo is remembered as one, a capture without room *)
(* breaks the cursors.                                                    *)
LEMMA SoundOnLocalCapture ==
    ASSUME IInv, TypeOK', NEW cap \in numbered, OnLocalCapture(cap)
    PROVE  Core'
<1> TypeOK
  BY DEF IInv, Core
<1>1. /\ UNCHANGED <<dbVars, out, rcv, inn, taken, wm, task, waived>>
      /\ numbered' \subseteq numbered /\ echoed \subseteq echoed'
      /\ cursor' = cursor \/ BreakRegistered
  BY DEF OnLocalCapture, Enqueue, peerVars
<1>2. Calm
  BY <1>1, SameRows DEF dbVars
<1>3. NumbersSound'
  BY <1>1, SameNumbers DEF dbVars
<1>4. cap \in Capture /\ EntrySound(cap) /\ captures \in Seq(Capture)
  BY DEF IInv, Core, TypeOK, CaptureType, CapturesSound
<1>5. CapturesSound'
  <2>1. \A e \in numbered' : EntrySound(e)'
    BY <1>1 DEF IInv, Core, CapturesSound, EntrySound, dbVars
  <2>2. ASSUME NEW k \in 1 .. Len(captures), k \in 1 .. Len(captures'), captures'[k] = captures[k]
        PROVE  /\ EntrySound(captures[k])'
               /\ (HeldBack(captures[k])' /\ ~Steady) => captures'[k].item \in echoed'
    BY <1>1, <2>2 DEF IInv, Core, CapturesSound, EntrySound, HeldBack, dbVars
  <2>3. CASE captures' = captures
    BY <2>1, <2>2, <2>3 DEF CapturesSound
  <2>4. CASE captures' # captures
    <3>1. PICK send \in BOOLEAN :
             /\ captures' = Append(captures, [cap EXCEPT !.send = send])
             /\ (~send /\ seqOf[cap.item] = cap.seq) => (Kind[cap.item] # "plain" \/ cap.item \in echoed')
      BY <2>4 DEF OnLocalCapture, Enqueue, Syncable
    <3> DEFINE e == [cap EXCEPT !.send = send]
    <3>2. e \in Capture /\ e.item = cap.item /\ e.seq = cap.seq /\ e.send = send
      BY <1>4 DEF Capture
    <3>3. EntrySound(e)'
      BY <1>1, <1>4, <3>2 DEF EntrySound, dbVars
    <3>4. PICK f \in Capture : f = e
      BY <3>2
    <3> HIDE DEF e
    <3>5. captures' = Append(captures, f) /\ EntrySound(f)'
      BY <3>1, <3>3, <3>4 DEF e
    <3>6. HeldBack(f)' => f.item \in echoed'
      BY <1>1, <3>1, <3>2, <3>4 DEF dbVars, HeldBack
    <3>7. /\ Len(captures') = Len(captures) + 1 /\ Len(captures) \in Nat
          /\ \A k \in 1 .. Len(captures) : captures'[k] = captures[k]
          /\ captures'[Len(captures) + 1] = f
      BY <1>4, <3>5
    <3>8. ASSUME NEW k \in 1 .. Len(captures')
          PROVE  /\ EntrySound(captures[k])'
                 /\ (HeldBack(captures[k])' /\ ~Steady) => captures'[k].item \in echoed'
      <4>1. CASE k = Len(captures) + 1
        BY <3>5, <3>6, <3>7, <4>1
      <4>2. CASE k # Len(captures) + 1
        <5>1. k \in 1 .. Len(captures)
          BY <3>7, <4>2
        <5>2. QED
          BY <2>2, <3>7, <5>1
      <4>3. QED
        BY <4>1, <4>2
    <3>9. QED
      BY <2>1, <3>8 DEF CapturesSound
  <2>5. QED
    BY <2>3, <2>4
<1>6. ASSUME NEW c \in Conns
      PROVE  /\ QueueSound(c, out[c])' /\ AskedSound(c)'
             /\ AnswerSound(c)' /\ LiveCursorSound(c, out[c], cursor[c])'
  <2>1. cursor'[c] \in {cursor[c], FreshCursor, [cursor[c] EXCEPT !.broken = TRUE]}
    BY <1>1 DEF BreakRegistered
  <2>2. QED
    BY <1>1, <1>2, <2>1, KeptConnection DEF Live
<1>7. QED
  BY <1>1, <1>2, <1>3, <1>5, <1>6, CalmStep

(* deliver: a push joins the queue or the cursor is broken, and only then  *)
(* the number counts as handled.                                           *)
LEMMA DeliveredSound ==
    ASSUME IInv, captures # <<>>, NEW c \in registered, NEW cap \in Capture, cap = Head(captures)
    PROVE  /\ DeliveredOut(c, cap) \in Seq(Message)
           /\ DeliveredCursor(c, cap) \in Cursor
           /\ QueueSound(c, DeliveredOut(c, cap))
           /\ LiveCursorSound(c, DeliveredOut(c, cap), DeliveredCursor(c, cap))
           /\ \A i \in Items : OnItsWay(out[c], i) => OnItsWay(DeliveredOut(c, cap), i)
<1> TypeOK
  BY DEF IInv, Core
<1> c \in Conns
  BY DEF TypeOK, RegistryType
<1>1. PICK queue \in Seq(Message), cur \in Cursor : queue = out[c] /\ cur = cursor[c]
  BY Ranges
<1>2. QueueSound(c, queue) /\ LiveCursorSound(c, queue, cur)
  BY <1>1 DEF IInv, Core
<1>3. cap.item \in Items /\ cap.seq \in Nat /\ cap.send \in BOOLEAN /\ counter \in Nat
  BY Ranges DEF Capture
<1>4. /\ EntrySound(cap)
      /\ (HeldBack(cap) /\ ~Steady) => cap.item \in echoed
      /\ (HeldBack(cap) /\ Steady) => \A d \in registered : Carries(d, cap.item)
  <2>1. captures \in Seq(Capture)
    BY DEF TypeOK, CaptureType
  <2>2. 1 \in 1 .. Len(captures) /\ captures[1] = cap
    BY <2>1
  <2>3. (HeldBack(cap) /\ Steady) => Promised(cap.item, 1)
    BY <2>2 DEF IInv, EchoesSound
  <2>4. QED
    BY <2>2, <2>3 DEF IInv, Core, CapturesSound, Promised
<1> DEFINE pushed == PushedOut(c, cap)
           marked == Marked(c, cap)
<1>5. /\ pushed \in Seq(Message) /\ QueueSound(c, pushed)
      /\ \A i \in Items : OnItsWay(queue, i) => OnItsWay(pushed, i)
      /\ (Travels(cap) /\ ~Dropped(c, cap)) => OnItsWay(pushed, cap.item)
  <2> DEFINE push == Push(cap.item)
  <2>1. push \in Message /\ push = Push(cap.item)
    BY <1>3, MessageTypes
  <2>2. QueueSound(c, Append(queue, push))
    BY <1>2, <1>3, PushSound
  <2> HIDE DEF push
  <2>3. /\ Append(queue, push) \in Seq(Message)
        /\ \A i \in Items : OnItsWay(queue, i) => OnItsWay(Append(queue, push), i)
        /\ OnItsWay(Append(queue, push), cap.item)
    BY <1>3, <2>1, AppendKeeps
  <2>4. CASE Travels(cap) /\ ~Dropped(c, cap)
    <3>1. pushed = Append(queue, push)
      BY <1>1, <2>1, <2>4 DEF PushedOut
    <3>2. QED
      BY <2>2, <2>3, <3>1
  <2>5. CASE ~(Travels(cap) /\ ~Dropped(c, cap))
    <3>1. pushed = queue
      BY <1>1, <2>5 DEF PushedOut
    <3>2. QED
      BY <1>2, <2>5, <3>1
  <2>6. QED
    BY <2>4, <2>5
<1>6. /\ marked \in Cursor /\ marked.known = cur.known /\ marked.epoch = cur.epoch
      /\ marked.until = cur.until /\ marked.handled = cur.handled
      /\ ~marked.broken => ~cur.broken /\ ~Dropped(c, cap)
  BY <1>1 DEF Marked, Dropped, Travels, Cursor
<1> HIDE DEF pushed, marked
<1>7. LiveCursorSound(c, pushed, cur)
  BY <1>2, <1>5, LongerQueueKeepsCursor
<1>8. LiveCursorSound(c, pushed, marked)
  BY <1>6, <1>7 DEF LiveCursorSound
<1>9. CASE cap.seq = 0
  <2>1. DeliveredOut(c, cap) = pushed /\ DeliveredCursor(c, cap) = marked
    BY <1>9 DEF DeliveredOut, DeliveredCursor, pushed, marked
  <2>2. QED
    BY <1>1, <1>5, <1>6, <1>8, <2>1
<1>10. CASE cap.seq # 0
  <2> DEFINE handled == Handle(marked, cap.seq)
  <2>1. /\ handled \in Cursor /\ handled.known = marked.known /\ handled.epoch = marked.epoch
        /\ handled.until = marked.until /\ handled.broken = marked.broken
        /\ handled.handled = marked.handled \cup {cap.seq}
    BY <1>3, <1>6, HandleType DEF Handle, Cursor
  <2> HIDE DEF handled
  <2>2. ASSUME Live(c), ~handled.broken, NEW i \in Items, Wanted(PeerOf[c], i), seqOf[i] \in handled.handled
        PROVE  Brings(c, pushed, handled.known, i)
    <3>1. CASE seqOf[i] \in marked.handled
      BY <1>8, <2>1, <2>2, <3>1 DEF LiveCursorSound
    <3>2. CASE seqOf[i] = cap.seq
      <4>1. cap.seq > 0 /\ i = cap.item
        BY <1>3, <1>4, <1>10, <3>2 DEF EntrySound
      <4>2. Kind[i] = "plain" /\ (~Steady => i \notin echoed)
        BY <2>2 DEF Wanted, Excused
      <4>3. CASE cap.send
        <5>1. Travels(cap)
          BY <4>1, <4>2, <4>3 DEF Travels
        <5>2. QED
          BY <1>5, <1>6, <2>1, <2>2, <4>1, <5>1 DEF Safe, Brings
      <4>4. CASE ~cap.send
        <5>1. HeldBack(cap)
          BY <3>2, <4>1, <4>2, <4>4 DEF HeldBack
        <5>2. Carries(c, i)
          BY <1>4, <4>1, <4>2, <5>1
        <5>3. Brings(c, queue, cur.known, i)
          BY <1>1, <1>6, <2>1, <2>2, <5>2 DEF Carries
        <5>4. QED
          BY <1>5, <1>6, <2>1, <5>3 DEF Brings, Safe
      <4>5. QED
        BY <1>3, <4>3, <4>4
    <3>3. QED
      BY <2>1, <2>2, <3>1, <3>2
  <2>3. cap.seq \in 1 .. counter
    BY <1>3, <1>4, <1>10 DEF EntrySound
  <2>4. LiveCursorSound(c, pushed, handled)
    BY <1>8, <2>1, <2>2, <2>3 DEF LiveCursorSound
  <2>5. DeliveredOut(c, cap) = WithCheckpoint(pushed, handled) /\ DeliveredCursor(c, cap) = Advance(handled)
    BY <1>3, <1>10 DEF DeliveredOut, DeliveredCursor, pushed, marked, handled
  <2>6. Advance(handled) \in Cursor
    BY <2>1, AdvanceProperties
  <2>7. QED
    BY <1>1, <1>5, <2>1, <2>4, <2>5, <2>6, CheckpointSound
<1>11. QED
  BY <1>9, <1>10

(* Taking the first capture off the queue leaves the others sound.        *)
LEMMA TailCaptures ==
    ASSUME IInv, captures # <<>>, captures' = Tail(captures), UNCHANGED <<dbVars, numbered, echoed>>
    PROVE  CapturesSound'
<1>1. captures \in Seq(Capture)
  BY DEF IInv, Core, TypeOK, CaptureType
<1>2. /\ Len(captures') = Len(captures) - 1 /\ Len(captures) \in Nat
      /\ \A k \in 1 .. Len(captures') : k + 1 \in 1 .. Len(captures) /\ captures'[k] = captures[k + 1]
  BY <1>1
<1>3. QED
  BY <1>2 DEF IInv, Core, CapturesSound, EntrySound, HeldBack, dbVars

(* deliver keeps the invariant on every connection, registered or not.    *)
LEMMA SoundDeliver ==
    ASSUME IInv, TypeOK', Deliver
    PROVE  Core'
<1> TypeOK
  BY DEF IInv, Core
<1>1. /\ UNCHANGED <<dbVars, numbered, rcv, inn, taken, wm, task, waived, echoed>>
      /\ captures # <<>> /\ captures' = Tail(captures)
  BY DEF Deliver, peerVars, ghosts
<1>2. Calm
  BY <1>1, SameRows DEF dbVars
<1>3. NumbersSound' /\ CapturesSound'
  BY <1>1, SameNumbers, TailCaptures DEF dbVars
<1>4. PICK cap \in Capture : cap = Head(captures)
  BY <1>1 DEF TypeOK, CaptureType
<1>5. ASSUME NEW c \in Conns
      PROVE  /\ QueueSound(c, out[c])' /\ AskedSound(c)'
             /\ AnswerSound(c)' /\ LiveCursorSound(c, out[c], cursor[c])'
  <2>1. CASE c \notin registered
    <3>1. out'[c] = out[c] /\ cursor'[c] = cursor[c]
      BY <2>1 DEF Deliver
    <3>2. QED
      BY <1>1, <1>2, <3>1, KeptConnection DEF Live
  <2>2. CASE c \in registered
    <3>1. out'[c] = DeliveredOut(c, cap) /\ cursor'[c] = DeliveredCursor(c, cap)
      BY <1>4, <2>2 DEF Deliver
    <3>2. PICK queue \in Seq(Message), cur \in Cursor :
             queue = DeliveredOut(c, cap) /\ cur = DeliveredCursor(c, cap)
      BY <1>1, <1>4, <2>2, DeliveredSound
    <3>3. /\ QueueSound(c, queue) /\ LiveCursorSound(c, queue, cur)
          /\ \A i \in Items : OnItsWay(out[c], i) => OnItsWay(queue, i)
      BY <1>1, <1>4, <2>2, <3>2, DeliveredSound
    <3>4. Live(c)' => Live(c)
      BY <1>1 DEF Live
    <3>5. out'[c] = queue /\ cursor'[c] = cur
      BY <3>1, <3>2
    <3>6. QED
      BY <1>1, <1>2, <3>3, <3>4, <3>5, CarriedConnection
  <2>3. QED
    BY <2>1, <2>2
<1>6. QED
  BY <1>1, <1>2, <1>3, <1>5, CalmStep

(* deliver_failed breaks the cursors, which then cover nothing more.      *)
LEMMA SoundDeliverFailed ==
    ASSUME IInv, TypeOK', DeliverFailed
    PROVE  Core'
<1> TypeOK
  BY DEF IInv, Core
<1>1. /\ UNCHANGED <<dbVars, numbered, out, rcv, inn, taken, wm, task, waived, echoed>>
      /\ captures # <<>> /\ captures' = Tail(captures)
  BY DEF DeliverFailed, peerVars, ghosts
<1>2. Calm
  BY <1>1, SameRows DEF dbVars
<1>3. NumbersSound' /\ CapturesSound'
  BY <1>1, SameNumbers, TailCaptures DEF dbVars
<1>4. ASSUME NEW c \in Conns
      PROVE  /\ QueueSound(c, out[c])' /\ AskedSound(c)'
             /\ AnswerSound(c)' /\ LiveCursorSound(c, out[c], cursor[c])'
  <2>1. cursor'[c] \in {cursor[c], FreshCursor, [cursor[c] EXCEPT !.broken = TRUE]}
    BY DEF DeliverFailed, BreakRegistered
  <2>2. QED
    BY <1>1, <1>2, <2>1, KeptConnection DEF Live
<1>5. QED
  BY <1>1, <1>2, <1>3, <1>4, CalmStep

(* A new connection starts with a fresh cursor, and so does the one it    *)
(* replaces.                                                              *)
LEMMA SoundSourceOpens ==
    ASSUME IInv, TypeOK', NEW x \in Conns, SourceOpens(x)
    PROVE  Core'
<1> TypeOK
  BY DEF IInv, Core
<1>1. /\ UNCHANGED <<dbVars, numbered, captures, out, rcv, inn, taken, wm, task, waived, echoed>>
      /\ \A c \in Conns : cursor'[c] \in {cursor[c], FreshCursor}
  BY DEF SourceOpens, capVars, peerVars, ghosts
<1>2. Calm
  BY <1>1, SameRows DEF dbVars
<1>3. NumbersSound' /\ CapturesSound'
  BY <1>1, SameNumbers DEF dbVars
<1>4. ASSUME NEW c \in Conns
      PROVE  /\ QueueSound(c, out[c])' /\ AskedSound(c)'
             /\ AnswerSound(c)' /\ LiveCursorSound(c, out[c], cursor[c])'
  BY <1>1, <1>2, KeptConnection DEF Live
<1>5. QED
  BY <1>1, <1>2, <1>3, <1>4, CalmStep

(* A closed connection forgets its cursor and its requests.               *)
LEMMA SoundSourceCloses ==
    ASSUME IInv, TypeOK', NEW c \in Conns, SourceCloses(c)
    PROVE  Core'
<1> TypeOK
  BY DEF IInv, Core
<1>1. /\ UNCHANGED <<dbVars, numbered, captures, out, rcv, taken, wm, task, waived, echoed>>
      /\ inn'[c] = <<>> /\ cursor'[c] = FreshCursor
      /\ \A d \in Conns \ {c} : inn'[d] = inn[d] /\ cursor'[d] = cursor[d]
  BY DEF SourceCloses, capVars, ghosts, TypeOK, CursorType, QueueType
<1>2. Calm
  BY <1>1, SameRows DEF dbVars
<1>3. QueueSound(c, out[c])' /\ AnswerSound(c)' /\ LiveCursorSound(c, out[c], cursor[c])'
  BY <1>1, <1>2, KeptConnection DEF Live
<1>4. AskedSound(c)'
  BY <1>1 DEF AskedSound
<1>5. QED
  BY <1>1, <1>2, <1>3, <1>4, LocalStep

(* The request taken up was sound on its way, so the answer starts sound. *)
LEMMA SoundSourceTakesRequest ==
    ASSUME IInv, TypeOK', NEW c \in Conns, SourceTakesRequest(c)
    PROVE  Core'
<1> TypeOK
  BY DEF IInv, Core
<1>1. /\ UNCHANGED <<dbVars, numbered, captures, out, rcv, cursor, taken, wm, waived, echoed>>
      /\ inn[c] # <<>> /\ inn'[c] = Tail(inn[c])
      /\ \A d \in Conns \ {c} : inn'[d] = inn[d] /\ task'[d] = task[d]
  BY DEF SourceTakesRequest, capVars, ghosts, TypeOK, TaskType, QueueType
<1>2. Calm
  BY <1>1, SameRows DEF dbVars
<1>11. task'[c] = task[c] \/ task'[c].pc = "counter"
  BY DEF SourceTakesRequest, TypeOK, TaskType, IdleTask
<1>3. /\ QueueSound(c, out[c])' /\ LiveCursorSound(c, out[c], cursor[c])'
      /\ task'[c] = task[c] => AnswerSound(c)'
  BY <1>1, <1>2, <1>11, AnyAhead, KeptConnection DEF Live
<1>4. PICK asked \in Seq(Request) : asked = inn[c]
  BY Ranges
<1>5. /\ Len(asked) \in Nat \ {0} /\ Len(Tail(asked)) = Len(asked) - 1
      /\ \A k \in 1 .. Len(Tail(asked)) : k + 1 \in 1 .. Len(asked) /\ Tail(asked)[k] = asked[k + 1]
      /\ Head(asked) = asked[1] /\ 1 \in 1 .. Len(asked)
  BY <1>1, <1>4
<1>6. \A k \in 1 .. Len(asked) :
          /\ asked[k].after \in Nat /\ asked[k].epoch \in Nat
          /\ RequestSound(PeerOf[c], asked[k].after, asked[k].epoch)
  BY <1>4, Ranges DEF IInv, Core, AskedSound
<1>7. \A k \in 1 .. Len(asked) : RequestSound(PeerOf[c], asked[k].after, asked[k].epoch)'
  BY <1>1, <1>6 DEF RequestSound, Behind, Owed, Wanted, Excused, dbVars
<1>8. AskedSound(c)'
  <2>1. inn'[c] = Tail(asked)
    BY <1>1, <1>4
  <2>2. QED
    BY <1>5, <1>7, <2>1 DEF AskedSound
<1>9. AnswerSound(c)'
  <2>1. CASE task[c].pc # "idle"
    <3>1. task'[c] = task[c]
      BY <2>1 DEF SourceTakesRequest
    <3>2. QED
      BY <1>3, <3>1
  <2>2. CASE task[c].pc = "idle"
    <3> DEFINE t == [IdleTask EXCEPT !.pc = "counter", !.after = asked[1].after, !.epoch = asked[1].epoch]
    <3>1. task'[c] = t
      BY <1>4, <1>5, <2>2 DEF SourceTakesRequest, TypeOK, TaskType
    <3>2. t.pc = "counter" /\ t.after = asked[1].after /\ t.epoch = asked[1].epoch
      BY DEF IdleTask
    <3>3. RequestSound(PeerOf[c], asked[1].after, asked[1].epoch)'
      BY <1>5, <1>7
    <3> HIDE DEF t
    <3>4. QED
      BY <3>1, <3>2, <3>3 DEF AnswerSound
  <2>3. QED
    BY <2>1, <2>2
<1>10. QED
  BY <1>1, <1>2, <1>3, <1>8, <1>9, LocalStep

(* A step of the task of one connection that leaves its queue and cursor   *)
(* alone.                                                                  *)
LEMMA TaskOnly ==
    ASSUME IInv, TypeOK', NEW c \in Conns,
           UNCHANGED <<dbVars, numbered, captures, out, rcv, inn, cursor, taken, wm, echoed>>,
           \A p \in Peers : waived[p] \subseteq waived'[p],
           NEW t \in Task, task' = [task EXCEPT ![c] = t], AnswerSound(c)', KeepsAhead(c)
    PROVE  Core'
<1> TypeOK
  BY DEF IInv, Core
<1>1. Calm
  BY SameRows DEF dbVars
<1>2. QueueSound(c, out[c])' /\ AskedSound(c)' /\ LiveCursorSound(c, out[c], cursor[c])'
  BY <1>1, KeptConnection DEF Live
<1>3. \A d \in Conns \ {c} : task'[d] = task[d]
  BY DEF TypeOK, TaskType
<1>4. QED
  BY <1>1, <1>2, <1>3, LocalStep

(* A request of another epoch is answered from the beginning, one of this *)
(* epoch from where it asked.                                             *)
LEMMA SoundReadCounter ==
    ASSUME IInv, TypeOK', NEW c \in Conns, ReadCounter(c)
    PROVE  Core'
<1> TypeOK
  BY DEF IInv, Core
<1> DEFINE after == IF task[c].epoch = epoch THEN task[c].after ELSE 0
           t == [IdleTask EXCEPT !.pc = "page", !.after = after, !.epoch = epoch, !.counter = counter]
<1>1. PICK a \in Nat : a = after
  BY Ranges
<1>2. /\ t \in Task /\ t.pc = "page" /\ t.after = a /\ t.epoch = epoch /\ t.counter = counter
  BY <1>1, Ranges DEF IdleTask, Task, TaskStep
<1>3. RequestSound(PeerOf[c], a, epoch)
  <2>1. CASE task[c].epoch = epoch
    BY <1>1, <2>1 DEF ReadCounter, IInv, Core, AnswerSound
  <2>2. CASE task[c].epoch # epoch
    <3>1. a = 0
      BY <1>1, <2>2
    <3>2. \A i \in Items : ~Owed(PeerOf[c], i, 0)
      BY Ranges DEF Owed, Wanted
    <3>3. QED
      BY <3>1, <3>2, Ranges DEF RequestSound, Behind
  <2>3. QED
    BY <2>1, <2>2
<1>4. /\ UNCHANGED <<dbVars, numbered, captures, out, rcv, inn, cursor, taken, wm, waived, echoed>>
      /\ task' = [task EXCEPT ![c] = t]
  BY DEF ReadCounter, capVars, peerVars, ghosts
<1> HIDE DEF t
<1>5. task'[c] = t
  BY <1>4 DEF TypeOK, TaskType
<1>6. RequestSound(PeerOf[c], a, epoch)'
  BY <1>3, <1>4 DEF RequestSound, Behind, Owed, Wanted, Excused, dbVars
<1>7. AnswerSound(c)'
  BY <1>2, <1>4, <1>5, <1>6, Ranges DEF AnswerSound, dbVars
<1>8. QED
  BY <1>2, <1>4, <1>5, <1>7, AnyAhead, TaskOnly

(* A task that ends, or never read a page, has nothing to answer for.      *)
LEMMA SoundTaskEnds ==
    ASSUME IInv, TypeOK', NEW c \in Conns, CollectFails(c) \/ SendFails(c) \/ ReleaseTask(c)
    PROVE  Core'
<1>1. /\ UNCHANGED <<dbVars, numbered, captures, out, rcv, inn, cursor, taken, wm, waived, echoed>>
      /\ \E t \in {ReleasedTask, IdleTask} : task' = [task EXCEPT ![c] = t]
  BY DEF CollectFails, SendFails, ReleaseTask, capVars, peerVars, ghosts
<1>2. PICK t \in Task : task' = [task EXCEPT ![c] = t] /\ t.pc \in {"idle", "release"}
  BY <1>1, ConstantTypes DEF IdleTask, ReleasedTask
<1>3. task'[c] = t
  BY <1>2 DEF IInv, Core, TypeOK, TaskType
<1>4. AnswerSound(c)'
  BY <1>2, <1>3 DEF AnswerSound
<1>5. QED
  BY <1>1, <1>2, <1>3, <1>4, AnyAhead, TaskOnly

(* Sets of rows by number: fewer rows below, or above, is fewer to count.  *)
LEMMA CountBelow ==
    ASSUME NEW S \in SUBSET Items, NEW T \in SUBSET Items, S \subseteq T,
           NEW n \in Nat, Cardinality(T) < n
    PROVE  Cardinality(S) < n
<1>1. IsFiniteSet(T)
  BY FiniteItems, FS_Subset
<1>2. Cardinality(S) <= Cardinality(T) /\ Cardinality(T) \in Nat /\ Cardinality(S) \in Nat
  BY <1>1, FS_Subset, FS_CardinalityType
<1>3. QED
  BY <1>2

(* Catch-up leaves nothing out up to `until` but what it passed over: a    *)
(* row it owes there is on the page.                                       *)
LEMMA OnThePage ==
    ASSUME TypeOK, NumbersSound, NEW after \in Nat, NEW last \in Nat, NEW until \in Nat,
           IsLast(after, last),
           PageRows(after) # Window(after) => until = last,
           NEW i \in Items, seqOf[i] > after, seqOf[i] <= until, Kind[i] # "private",
           i \notin PassedOver(after, until)
    PROVE  i \in PageRows(after)
<1>1. /\ \A j \in Items : seqOf[j] \in Nat
      /\ rows \in SUBSET Items /\ i \in rows
      /\ Total \in Nat /\ PageSize \in Nat
  BY PageAssumption, Ranges DEF TypeOK, DatabaseType, NumbersSound
<1>2. /\ i \notin stale
      /\ ~(Cardinality({j \in Candidates(0) : seqOf[j] > seqOf[i]}) >= Total)
  BY <1>1 DEF PassedOver
<1> DEFINE newer == {j \in Candidates(after) : seqOf[j] > seqOf[i]}
           newest == {j \in Candidates(0) : seqOf[j] > seqOf[i]}
<1>3. newer \in SUBSET Items /\ newest \in SUBSET Items /\ newer \subseteq newest
  BY <1>1 DEF Candidates
<1>4. Cardinality(newest) < Total
  <2>1. Cardinality(newest) \in Nat
    BY <1>3, FiniteItems, FS_Subset, FS_CardinalityType
  <2>2. QED
    BY <1>1, <1>2, <2>1
<1>5. Cardinality(newer) < Total
  <2> HIDE DEF newer, newest
  <2>1. QED
    BY <1>1, <1>3, <1>4, CountBelow
<1>6. i \in Window(after)
  BY <1>1, <1>2, <1>5 DEF Window, Newest, Candidates
<1>7. CASE PageRows(after) = Window(after)
  BY <1>6, <1>7
<1>8. CASE PageRows(after) # Window(after)
  <2>1. until = last
    BY <1>8
  <2>2. PageRows(after) # {}
    <3>1. PageRows(after) = {} => last = after
      BY DEF IsLast
    <3>2. QED
      BY <1>1, <2>1, <3>1
  <2>3. PICK r \in PageRows(after) : seqOf[r] = last
    BY <2>2 DEF IsLast
  <2> DEFINE W == Window(after)
             belowI == {j \in W : seqOf[j] < seqOf[i]}
             belowR == {j \in W : seqOf[j] < seqOf[r]}
  <2>4. W \in SUBSET Items
    BY <1>1 DEF Window, Newest, Candidates
  <2>5. r \in W /\ Cardinality(belowR) < PageSize
    BY <2>3 DEF PageRows, Oldest
  <2> HIDE DEF W
  <2>6. belowI \in SUBSET Items /\ belowR \in SUBSET Items /\ belowI \subseteq belowR
    BY <1>1, <2>1, <2>3, <2>4, <2>5
  <2>7. Cardinality(belowI) < PageSize
    <3> HIDE DEF belowI, belowR
    <3>1. QED
      BY <1>1, <2>5, <2>6, CountBelow
  <2>8. QED
    BY <1>6, <2>7 DEF PageRows, Oldest, W
<1>9. QED
  BY <1>7, <1>8

(* Where no row grows old and the window holds them all, nothing is passed *)
(* over.                                                                   *)
LEMMA NothingPassedOver ==
    ASSUME TypeOK, stale = {}, Steady, NEW after, NEW until
    PROVE  PassedOver(after, until) = {}
<1> SUFFICES ASSUME NEW i \in rows, Cardinality({j \in Candidates(0) : seqOf[j] > seqOf[i]}) >= Total
             PROVE  FALSE
  BY DEF PassedOver
<1> DEFINE newer == {j \in Candidates(0) : seqOf[j] > seqOf[i]}
<1>1. i \in Items /\ newer \subseteq Items \ {i}
  BY Ranges DEF TypeOK, DatabaseType, Candidates
<1> HIDE DEF newer
<1>2. /\ IsFiniteSet(Items) /\ IsFiniteSet(Items \ {i})
      /\ Cardinality(Items \ {i}) = Cardinality(Items) - 1
      /\ Cardinality(Items) \in Nat
  BY <1>1, FiniteItems, FS_RemoveElement, FS_CardinalityType
<1>3. Cardinality(newer) <= Cardinality(Items \ {i}) /\ Cardinality(newer) \in Nat
  BY <1>1, <1>2, FS_Subset, FS_CardinalityType
<1>4. Cardinality(newer) >= Total
  BY DEF newer
<1>. QED
  BY <1>2, <1>3, <1>4, PageAssumption DEF Steady

(* The last page brings everything that is left.                           *)
LEMMA PageKeepsAhead ==
    ASSUME IInv, TypeOK', NEW c \in Conns, ReadPage(c)
    PROVE  KeepsAhead(c)
<1> TypeOK /\ NumbersSound
  BY DEF IInv, Core
<1> SUFFICES ASSUME Steady, NEW i \in Items, Wanted(PeerOf[c], i)
             PROVE  Safe(c, out[c], i)' \/ Ahead(c, i)'
  BY DEF KeepsAhead, Ahead
<1>1. PICK after \in Nat : after = task[c].after
  BY Ranges
<1> DEFINE more == PageRows(after) # Window(after)
           todo == {[item |-> j, seq |-> seqOf[j]] : j \in {k \in PageRows(after) : Kind[k] = "plain"}}
<1>2. /\ task[c].pc = "page" /\ taken' = taken
      /\ task'[c].pc = "send" /\ task'[c].more = more /\ task'[c].todo = todo
      /\ \E last \in 0 .. Larger(counter, after) : IsLast(after, last)
  BY <1>1 DEF ReadPage, TypeOK, TaskType, IdleTask, peerVars
<1>3. CASE more
  BY <1>2, <1>3 DEF Ahead, LastPageAhead
<1>4. CASE ~more
  <2>1. /\ RequestSound(PeerOf[c], after, epoch) /\ PeerOf[c] \in Peers
        /\ seqOf[i] \in Nat /\ counter \in Nat /\ seqOf[i] <= counter /\ Kind[i] = "plain"
    BY <1>1, <1>2, Ranges DEF IInv, Core, AnswerSound, NumbersSound, Wanted, Excused
  <2>2. CASE seqOf[i] <= after
    <3>1. i \in taken[PeerOf[c]]
      BY <2>1, <2>2 DEF RequestSound, Owed
    <3>2. QED
      BY <1>2, <3>1 DEF Safe
  <2>3. CASE seqOf[i] > after
    <3>1. PICK last \in 0 .. Larger(counter, after) : IsLast(after, last)
      BY <1>2
    <3>2. last \in Nat
      BY <2>1 DEF Larger
    <3>3. i \notin PassedOver(after, counter)
      BY NothingPassedOver DEF IInv, Grounds
    <3>4. i \in PageRows(after)
      BY <1>4, <2>1, <2>3, <3>1, <3>2, <3>3, OnThePage
    <3>5. [item |-> i, seq |-> seqOf[i]] \in todo
      BY <2>1, <3>4
    <3>6. ToSend(c, i)'
      <4> HIDE DEF todo
      <4>1. \E row \in todo : row.item = i
        BY <3>5
      <4>2. QED
        BY <1>2, <4>1 DEF ToSend
    <3>7. QED
      BY <3>6 DEF Ahead
  <2>4. QED
    BY <2>1, <2>2, <2>3
<1>5. QED
  BY <1>3, <1>4

(* The page holds every row owed up to its number that the peer has not   *)
(* taken.                                                                 *)
LEMMA SoundReadPage ==
    ASSUME IInv, TypeOK', NEW c \in Conns, ReadPage(c)
    PROVE  Core'
<1> TypeOK
  BY DEF IInv, Core
<1>1. PICK after \in Nat : after = task[c].after
  BY Ranges
<1> DEFINE more == PageRows(after) # Window(after)
           todo == {[item |-> i, seq |-> seqOf[i]] : i \in {j \in PageRows(after) : Kind[j] = "plain"}}
           Until(last) == IF more THEN last ELSE Larger(task[c].counter, last)
           Answer(last) == [IdleTask EXCEPT !.pc = "send", !.epoch = task[c].epoch,
                                           !.todo = todo, !.until = Until(last), !.more = more]
<1>2. /\ task[c].pc = "page"
      /\ UNCHANGED <<dbVars, numbered, captures, out, rcv, inn, cursor, taken, wm, echoed>>
  BY DEF ReadPage, capVars, peerVars
<1>3. PICK last \in 0 .. Larger(counter, after) :
         /\ IsLast(after, last)
         /\ task' = [task EXCEPT ![c] = Answer(last)]
         /\ waived' = [waived EXCEPT ![PeerOf[c]] = @ \cup PassedOver(after, Until(last))]
  BY <1>1 DEF ReadPage
<1>4. /\ PeerOf[c] \in Peers /\ counter \in Nat /\ epoch \in Nat /\ task[c].counter \in Nat
      /\ \A i \in Items : seqOf[i] \in Nat
  BY Ranges
<1>5. last \in Nat
  BY <1>4 DEF Larger
<1>6. PICK until \in Nat : until = Until(last)
  BY <1>4, <1>5 DEF Larger
<1>7. /\ RequestSound(PeerOf[c], after, epoch) /\ task[c].epoch = epoch
      /\ task[c].counter <= counter /\ after <= counter
      /\ \A i \in Items : seqOf[i] <= counter
  BY <1>1, <1>2 DEF IInv, Core, AnswerSound, NumbersSound, RequestSound, Behind
<1>8. last <= counter
  BY <1>4, <1>5, <1>7 DEF Larger
<1>9. until <= counter /\ (more => until = last)
  BY <1>6, <1>7, <1>8 DEF Larger
<1>10. PICK t \in Task : t = Answer(last)
  <2>1. \A i \in PageRows(after) : i \in Items
    BY DEF PageRows, Oldest, Window, Newest, Candidates, TypeOK, DatabaseType
  <2>2. todo \in SUBSET TodoRow
    BY <1>4, <2>1 DEF TodoRow
  <2>3. more \in BOOLEAN
    OBVIOUS
  <2> HIDE DEF todo, more
  <2>4. Answer(last) \in Task
    BY <1>4, <1>6, <1>7, <2>2, <2>3 DEF IdleTask, Task, TaskStep
  <2>5. QED
    BY <2>4
<1>11. t.pc = "send" /\ t.epoch = epoch /\ t.todo = todo /\ t.until = until
  BY <1>6, <1>7, <1>10 DEF IdleTask
<1>12. task' = [task EXCEPT ![c] = t] /\ task'[c] = t
  BY <1>3, <1>10 DEF TypeOK, TaskType
<1>13. /\ \A p \in Peers : waived[p] \subseteq waived'[p]
       /\ waived'[PeerOf[c]] = waived[PeerOf[c]] \cup PassedOver(after, until)
  BY <1>3, <1>4, <1>6 DEF TypeOK, GhostType
<1>14. ASSUME NEW i \in Items, Owed(PeerOf[c], i, until)'
       PROVE  Safe(c, out[c], i)' \/ \E row \in todo : row.item = i
  <2>1. /\ Kind[i] = "plain" /\ i \notin waived'[PeerOf[c]] /\ Wanted(PeerOf[c], i)'
        /\ seqOf'[i] > 0 /\ seqOf'[i] <= until
    BY <1>14 DEF Owed, Wanted, Excused
  <2>2. Owed(PeerOf[c], i, until) /\ i \notin PassedOver(after, until) /\ seqOf[i] <= until
    BY <1>2, <1>13, <2>1 DEF Owed, Wanted, Excused, dbVars
  <2>3. CASE seqOf[i] <= after
    <3>1. i \in taken[PeerOf[c]]
      BY <1>7, <2>2, <2>3 DEF RequestSound, Owed
    <3>2. QED
      BY <1>2, <3>1 DEF Safe
  <2>4. CASE seqOf[i] > after
    <3>1. i \in PageRows(after)
      <4> NumbersSound
        BY DEF IInv, Core
      <4>1. QED
        BY <1>3, <1>5, <1>9, <2>1, <2>2, <2>4, OnThePage
    <3>2. [item |-> i, seq |-> seqOf[i]] \in todo
      BY <2>1, <3>1
    <3>3. QED
      BY <3>2
  <2>5. QED
    BY <1>4, <2>3, <2>4
<1>15. AnswerSound(c)'
  <2>1. counter' = counter /\ epoch' = epoch
    BY <1>2 DEF dbVars
  <2> HIDE DEF todo, more
  <2>2. \A i \in Items : (\E row \in todo : row.item = i) => ToSend(c, i)'
    BY <1>11, <1>12 DEF ToSend
  <2>3. QED
    BY <1>9, <1>11, <1>12, <1>14, <2>1, <2>2 DEF AnswerSound
<1>16. QED
  BY <1>2, <1>12, <1>13, <1>15, PageKeepsAhead, TaskOnly

(* A row sent is on its way.                                               *)
LEMMA RowKeepsAhead ==
    ASSUME TypeOK, NEW c \in Conns, SendRow(c)
    PROVE  /\ KeepsAhead(c)
           /\ \A i \in Items : Safe(c, out[c], i) => Safe(c, out[c], i)'
           /\ \A i \in Items : (LastPageAhead(c) \/ ToSend(c, i)) =>
                                  \/ Safe(c, out[c], i)'
                                  \/ LastPageAhead(c)' \/ ToSend(c, i)'
<1>1. PICK row \in task[c].todo :
         /\ task[c].pc = "send"
         /\ out' = [out EXCEPT ![c] = Append(out[c], Push(row.item))]
         /\ task' = [task EXCEPT ![c] = [task[c] EXCEPT !.todo = @ \ {row}]]
  BY DEF SendRow
<1>2. PICK t \in Task : t = task[c]
  BY Ranges
<1>3. PICK item \in Items : item = row.item
  BY <1>1, <1>2 DEF Task, TodoRow
<1> DEFINE push == Push(item)
<1>4. PICK old \in Seq(Message) : old = out[c]
  BY Ranges
<1>5. push \in Message /\ push = Push(item)
  BY MessageTypes
<1> HIDE DEF push
<1>6. PICK queue \in Seq(Message) :
         /\ queue = Append(old, push)
         /\ \A i \in Items : OnItsWay(old, i) => OnItsWay(queue, i)
         /\ OnItsWay(queue, item)
  BY <1>5, AppendKeeps
<1>7. /\ out'[c] = queue /\ taken' = taken
      /\ task'[c] = [t EXCEPT !.todo = @ \ {row}]
  BY <1>1, <1>2, <1>3, <1>4, <1>5, <1>6 DEF SendRow, peerVars, TypeOK, TaskType, QueueType
<1>8. task'[c].pc = "send" /\ task'[c].more = t.more /\ task'[c].todo = t.todo \ {row}
  BY <1>1, <1>2, <1>7 DEF Task
<1>9. \A i \in Items : Safe(c, old, i) \/ i = item => Safe(c, out[c], i)'
  BY <1>6, <1>7 DEF Safe, OnItsWay
<1>10. ASSUME NEW i \in Items, LastPageAhead(c) \/ ToSend(c, i), i # item
       PROVE  LastPageAhead(c)' \/ ToSend(c, i)'
  BY <1>1, <1>2, <1>3, <1>8, <1>10 DEF LastPageAhead, ToSend
<1>11. QED
  BY <1>4, <1>9, <1>10 DEF KeepsAhead, Ahead

(* A row sent is on its way, so the answer no longer needs to hold it.    *)
LEMMA SoundSendRow ==
    ASSUME IInv, TypeOK', NEW c \in Conns, SendRow(c)
    PROVE  Core'
<1> TypeOK
  BY DEF IInv, Core
<1>1. /\ UNCHANGED <<dbVars, numbered, captures, rcv, inn, cursor, taken, wm, waived, echoed>>
      /\ task[c].pc = "send"
  BY DEF SendRow, capVars, peerVars, ghosts
<1>2. Calm
  BY <1>1, SameRows DEF dbVars
<1>3. PICK row \in task[c].todo :
         /\ out' = [out EXCEPT ![c] = Append(out[c], Push(row.item))]
         /\ task' = [task EXCEPT ![c] = [task[c] EXCEPT !.todo = @ \ {row}]]
  BY DEF SendRow
<1>4. PICK t \in Task : t = task[c]
  BY Ranges
<1>5. PICK item \in Items : item = row.item
  BY <1>4 DEF Task, TodoRow
<1> DEFINE push == Push(item)
           rest == [t EXCEPT !.todo = @ \ {row}]
<1>6. PICK old \in Seq(Message), cur \in Cursor : old = out[c] /\ cur = cursor[c]
  BY Ranges
<1>7. push \in Message /\ push = Push(item)
  BY MessageTypes
<1>8. QueueSound(c, old) /\ LiveCursorSound(c, old, cur) /\ AnswerSound(c)
  BY <1>6 DEF IInv, Core
<1>9. QueueSound(c, Append(old, push))
  BY <1>8, PushSound
<1>10. rest \in Task /\ rest.pc = t.pc /\ rest.pc # "confirm" /\ rest.until = t.until /\ rest.epoch = t.epoch /\ rest.todo = t.todo \ {row}
  BY <1>1, <1>4 DEF Task
<1> HIDE DEF push, rest
<1>11. PICK queue \in Seq(Message) : queue = Append(old, push)
  BY <1>7, AppendKeeps
<1>12. /\ \A i \in Items : OnItsWay(old, i) => OnItsWay(queue, i)
       /\ OnItsWay(queue, item)
  BY <1>7, <1>11, AppendKeeps
<1>13. /\ out'[c] = queue /\ task'[c] = rest
       /\ \A d \in Conns \ {c} : out'[d] = out[d] /\ task'[d] = task[d]
  BY <1>3, <1>4, <1>5, <1>6, <1>11 DEF TypeOK, TaskType, QueueType, push, rest
<1>14. LiveCursorSound(c, queue, cur)
  BY <1>8, <1>12, LongerQueueKeepsCursor
<1>15. /\ QueueSound(c, out[c])' /\ LiveCursorSound(c, out[c], cursor[c])' /\ AskedSound(c)'
       /\ \A i \in Items : Safe(c, queue, i) => Safe(c, out[c], i)'
       /\ \A i \in Items : Safe(c, out[c], i) => Safe(c, out[c], i)'
  <2>1. Live(c)' => Live(c)
    BY <1>1 DEF Live
  <2>2. cursor'[c] = cur /\ inn'[c] = inn[c]
    BY <1>1, <1>6
  <2>3. QED
    BY <1>2, <1>6, <1>9, <1>11, <1>12, <1>13, <1>14, <2>1, <2>2, RowKeepsAhead, CarriedConnection
<1>16. AnswerSound(c)'
  <2>1. counter' = counter /\ epoch' = epoch /\ Live(c)' = Live(c)
    BY <1>1 DEF dbVars, Live
  <2>2. ASSUME Live(c), NEW i \in Items, Owed(PeerOf[c], i, t.until)'
        PROVE  Safe(c, out[c], i)' \/ ToSend(c, i)'
    <3>1. Owed(PeerOf[c], i, t.until)
      BY <1>1, <2>2 DEF Owed, Wanted, Excused, dbVars
    <3>2. Safe(c, out[c], i) \/ \E r \in t.todo : r.item = i
      BY <1>1, <1>4, <1>8, <2>2, <3>1 DEF AnswerSound, ToSend
    <3>3. CASE i = item
      BY <1>12, <1>15, <3>3 DEF Safe
    <3>4. CASE i # item /\ \E r \in t.todo : r.item = i
      BY <1>1, <1>4, <1>5, <1>10, <1>13, <3>4 DEF ToSend
    <3>5. QED
      BY <1>15, <3>2, <3>3, <3>4
  <2>3. QED
    BY <1>1, <1>4, <1>8, <1>10, <1>13, <2>1, <2>2 DEF AnswerSound
<1>17. QED
  BY <1>1, <1>2, <1>13, <1>15, <1>16, LocalStep

(* The page itself comes when nothing is left to send.                     *)
LEMMA LastKeepsAhead ==
    ASSUME TypeOK, NEW c \in Conns, SendPage(c)
    PROVE  KeepsAhead(c) /\ (task'[c].pc = "confirm" => ~task'[c].more)
<1>1. /\ task[c].pc = "send" /\ task[c].todo = {} /\ task[c] \in Task
      /\ task'[c] = IF task[c].more THEN ReleasedTask ELSE [task[c] EXCEPT !.pc = "confirm"]
  BY Ranges DEF SendPage, TypeOK, TaskType
<1>2. CASE task[c].more
  BY <1>1, <1>2, AnyAhead DEF ReleasedTask, IdleTask
<1>3. CASE ~task[c].more
  <2>1. \A i \in Items : ~Ahead(c, i)
    BY <1>1, <1>3 DEF Ahead, LastPageAhead, ToSend
  <2>2. task'[c].more = FALSE
    BY <1>1, <1>3 DEF Task
  <2>3. QED
    BY <2>1, <2>2 DEF KeepsAhead
<1>4. QED
  BY <1>2, <1>3

(* The page follows its last row, so it covers what lies before it.       *)
LEMMA SoundSendPage ==
    ASSUME IInv, TypeOK', NEW c \in Conns, SendPage(c)
    PROVE  Core'
<1> TypeOK
  BY DEF IInv, Core
<1>1. /\ UNCHANGED <<dbVars, numbered, captures, rcv, inn, cursor, taken, wm, waived, echoed>>
      /\ task[c].pc = "send" /\ task[c].todo = {}
  BY DEF SendPage, capVars, peerVars, ghosts
<1>2. Calm
  BY <1>1, SameRows DEF dbVars
<1>3. PICK t \in Task : t = task[c]
  BY Ranges
<1>4. t.epoch \in Nat /\ t.until \in Nat /\ t.more \in BOOLEAN /\ counter \in Nat /\ epoch \in Nat
  BY Ranges DEF Task
<1>5. PICK old \in Seq(Message), cur \in Cursor : old = out[c] /\ cur = cursor[c]
  BY Ranges
<1>6. QueueSound(c, old) /\ LiveCursorSound(c, old, cur) /\ AnswerSound(c)
  BY <1>5 DEF IInv, Core
<1> DEFINE page == Page(t.epoch, t.until, t.more)
           next == IF t.more THEN ReleasedTask ELSE [t EXCEPT !.pc = "confirm"]
<1>7. page \in Message
  BY <1>4, MessageTypes
<1>8. /\ Behind(t.epoch, t.until)
      /\ (Live(c) /\ t.epoch = epoch) => \A i \in Items : Owed(PeerOf[c], i, t.until) => Safe(c, old, i)
  BY <1>1, <1>3, <1>4, <1>5, <1>6 DEF AnswerSound, Behind, ToSend
<1>9. QueueSound(c, Append(old, page))
  BY <1>4, <1>6, <1>8, CoveringPageSound
<1>10. /\ next.pc \in {"release", "confirm"}
       /\ next.pc = "confirm" => next.until = t.until /\ next.epoch = t.epoch
  BY DEF ReleasedTask, IdleTask, Task
<1> HIDE DEF page, next
<1>11. PICK queue \in Seq(Message) : queue = Append(old, page)
  BY <1>7, AppendKeeps
<1>12. \A i \in Items : OnItsWay(old, i) => OnItsWay(queue, i)
  BY <1>7, <1>11, AppendKeeps
<1>13. /\ out'[c] = queue /\ task'[c] = next
       /\ \A d \in Conns \ {c} : out'[d] = out[d] /\ task'[d] = task[d]
  BY <1>3, <1>5, <1>11 DEF SendPage, TypeOK, TaskType, QueueType, page, next
<1>14. LiveCursorSound(c, queue, cur)
  BY <1>6, <1>12, LongerQueueKeepsCursor
<1>15. /\ QueueSound(c, out[c])' /\ LiveCursorSound(c, out[c], cursor[c])' /\ AskedSound(c)'
       /\ \A i \in Items : Safe(c, out[c], i) => Safe(c, out[c], i)'
  <2>1. Live(c)' => Live(c)
    BY <1>1 DEF Live
  <2>2. cursor'[c] = cur /\ inn'[c] = inn[c]
    BY <1>1, <1>5
  <2>3. QED
    BY <1>2, <1>5, <1>9, <1>11, <1>12, <1>13, <1>14, <2>1, <2>2, LastKeepsAhead, CarriedConnection
<1>16. AnswerSound(c)'
  <2>1. counter' = counter /\ epoch' = epoch /\ Live(c)' = Live(c)
    BY <1>1 DEF dbVars, Live
  <2>2. ASSUME Live(c), NEW i \in Items, Owed(PeerOf[c], i, t.until)' PROVE Safe(c, out[c], i)'
    <3>1. Owed(PeerOf[c], i, t.until)
      BY <1>1, <2>2 DEF Owed, Wanted, Excused, dbVars
    <3>2. QED
      BY <1>1, <1>3, <1>5, <1>6, <1>8, <1>15, <2>2, <3>1 DEF AnswerSound
  <2>3. t.epoch = epoch /\ t.until <= counter
    BY <1>1, <1>3, <1>6 DEF AnswerSound
  <2>4. QED
    BY <1>10, <1>13, <2>1, <2>2, <2>3, LastKeepsAhead DEF AnswerSound
<1>17. QED
  BY <1>1, <1>2, <1>13, <1>15, <1>16, LocalStep

(* confirm_catch_up: the last page has covered everything up to its number. *)
LEMMA SoundConfirm ==
    ASSUME IInv, TypeOK', NEW c \in Conns, ConfirmCatchUp(c)
    PROVE  Core'
<1> TypeOK
  BY DEF IInv, Core
<1>1. /\ UNCHANGED <<dbVars, numbered, captures, rcv, inn, taken, wm, waived, echoed>>
      /\ task[c].pc = "confirm"
      /\ task' = [task EXCEPT ![c] = ReleasedTask]
  BY DEF ConfirmCatchUp, capVars, peerVars, ghosts
<1>2. Calm
  BY <1>1, SameRows DEF dbVars
<1>3. PICK t \in Task : t = task[c]
  BY Ranges
<1>4. t.epoch \in Nat /\ t.until \in Nat /\ counter \in Nat /\ epoch \in Nat
  BY Ranges DEF Task
<1>5. PICK old \in Seq(Message), cur \in Cursor : old = out[c] /\ cur = cursor[c]
  BY Ranges
<1>6. QueueSound(c, old) /\ LiveCursorSound(c, old, cur) /\ AnswerSound(c)
  BY <1>5 DEF IInv, Core
<1> DEFINE confirmed == Confirm(cur, t.epoch, t.until)
<1>7. /\ confirmed \in Cursor /\ confirmed.known /\ confirmed.epoch = t.epoch
      /\ confirmed.broken = cur.broken /\ confirmed.handled = cur.handled
      /\ confirmed.until \in Nat
      /\ \/ confirmed.until = t.until
         \/ confirmed.until = cur.until /\ cur.known
  BY <1>4, ConfirmType DEF Confirm, Cursor, Larger
<1> HIDE DEF confirmed
<1>8. /\ t.epoch = epoch /\ t.until <= counter
      /\ Live(c) => \A i \in Items : Owed(PeerOf[c], i, t.until) => Safe(c, old, i)
  BY <1>1, <1>3, <1>5, <1>6 DEF AnswerSound, ToSend
<1>9. LiveCursorSound(c, old, confirmed)
  <2>1. \A i \in Items : ~Ahead(c, i)
    BY <1>1, <1>6 DEF AnswerSound, Ahead, LastPageAhead, ToSend
  <2>2. QED
    BY <1>6, <1>7, <1>8, <2>1 DEF LiveCursorSound, Brings
<1>10. PICK queue \in Seq(Message), next \in Cursor :
          /\ out'[c] = queue /\ cursor'[c] = next
          /\ QueueSound(c, queue) /\ LiveCursorSound(c, queue, next)
          /\ \A i \in Items : OnItsWay(old, i) => OnItsWay(queue, i)
  <2>1. CASE c \in registered
    <3>1. out'[c] = WithCheckpoint(old, confirmed) /\ cursor'[c] = Advance(confirmed)
      BY <1>3, <1>5, <2>1 DEF ConfirmCatchUp, TypeOK, CursorType, QueueType, confirmed
    <3>2. Advance(confirmed) \in Cursor
      BY <1>7, AdvanceProperties
    <3>3. QED
      BY <1>6, <1>7, <1>9, <3>1, <3>2, CheckpointSound
  <2>2. CASE c \notin registered
    BY <1>5, <1>6, <2>2 DEF ConfirmCatchUp
  <2>3. QED
    BY <2>1, <2>2
<1>11. /\ task'[c] = ReleasedTask
       /\ \A d \in Conns \ {c} : out'[d] = out[d] /\ task'[d] = task[d] /\ cursor'[d] = cursor[d]
  BY <1>1 DEF ConfirmCatchUp, TypeOK, TaskType, QueueType, CursorType
<1>12. QueueSound(c, out[c])' /\ LiveCursorSound(c, out[c], cursor[c])' /\ AskedSound(c)'
  <2>1. Live(c)' => Live(c)
    BY <1>1 DEF Live
  <2>2. inn'[c] = inn[c]
    BY <1>1
  <2>3. QED
    BY <1>2, <1>5, <1>10, <1>11, <2>1, <2>2, AnyAhead, CarriedConnection DEF ReleasedTask, IdleTask
<1>13. AnswerSound(c)'
  BY <1>11 DEF AnswerSound, ReleasedTask, IdleTask
<1>14. QED
  BY <1>1, <1>2, <1>11, <1>12, <1>13, LocalStep

(* A restart forgets cursors and answers; the queues still drain to the   *)
(* peers.                                                                 *)
LEMMA SoundRestart ==
    ASSUME IInv, TypeOK', Restart
    PROVE  Core'
<1> TypeOK
  BY DEF IInv, Core
<1>1. /\ UNCHANGED <<dbVars, out, rcv, inn, taken, wm, waived, echoed>>
      /\ numbered' = {} /\ captures' = <<>>
      /\ \A c \in Conns : cursor'[c] = FreshCursor /\ task'[c] = IdleTask
  BY DEF Restart, Forget, peerVars, ghosts
<1>2. Calm
  BY <1>1, SameRows DEF dbVars
<1>3. NumbersSound' /\ CapturesSound'
  BY <1>1, SameNumbers DEF dbVars, CapturesSound
<1>4. ASSUME NEW c \in Conns
      PROVE  /\ QueueSound(c, out[c])' /\ AskedSound(c)'
             /\ AnswerSound(c)' /\ LiveCursorSound(c, out[c], cursor[c])'
  <2>1. AnswerSound(c)'
    BY <1>1 DEF AnswerSound, IdleTask
  <2>2. KeepsAhead(c)
    BY <1>1, AnyAhead DEF IdleTask
  <2>3. QED
    BY <1>1, <1>2, <2>1, <2>2, KeptConnection DEF Live
<1>5. QED
  BY <1>1, <1>2, <1>3, <1>4, CalmStep

(* A fresh database has an epoch of its own, which nothing names yet.      *)
LEMMA SoundRebuilt ==
    ASSUME IInv, TypeOK', RestartRebuilt
    PROVE  Core'
<1> TypeOK
  BY DEF IInv, Core
<1>1. /\ UNCHANGED <<out, rcv, inn, taken, wm, waived, echoed>>
      /\ epoch' = epoch + 1 /\ counter' = 0 /\ epoch \in Nat
      /\ \A i \in Items : seqOf'[i] = 0
      /\ numbered' = {} /\ captures' = <<>>
      /\ \A c \in Conns : cursor'[c] = FreshCursor /\ task'[c] = IdleTask
  BY Ranges DEF RestartRebuilt, Forget, peerVars, ghosts
<1>2. \A e, n \in Nat : Behind(e, n) => Behind(e, n)' /\ e # epoch'
  BY <1>1 DEF Behind
<1>3. ASSUME NEW c \in Conns
      PROVE  /\ QueueSound(c, out[c])' /\ AskedSound(c)'
             /\ AnswerSound(c)' /\ LiveCursorSound(c, out[c], cursor[c])'
  <2>1. AnswerSound(c)' /\ LiveCursorSound(c, out[c], cursor[c])'
    BY <1>1 DEF AnswerSound, IdleTask, LiveCursorSound, FreshCursor
  <2>2. AskedSound(c)'
    <3>1. ASSUME NEW k \in 1 .. Len(inn[c])
          PROVE  RequestSound(PeerOf[c], inn[c][k].after, inn[c][k].epoch)'
      <4>1. PICK a \in Nat, e \in Nat : a = inn[c][k].after /\ e = inn[c][k].epoch
        BY Ranges
      <4>2. Behind(e, a)
        BY <4>1 DEF IInv, Core, AskedSound, RequestSound
      <4>3. Behind(e, a)' /\ e # epoch'
        BY <1>2, <4>2
      <4>4. QED
        BY <1>1, <4>1, <4>3 DEF RequestSound
    <3>2. QED
      BY <1>1, <3>1 DEF AskedSound
  <2>3. QueueSound(c, out[c])'
    <3>1. ASSUME NEW k \in 1 .. Len(out[c]) PROVE PageSound(c, out[c], k)'
      <4>1. PICK m \in Message : m = out[c][k] /\ out'[c][k] = m
        BY <1>1, Ranges
      <4>2. PageSound(c, out[c], k)
        BY DEF IInv, Core, QueueSound
      <4>3. CASE m.type # "page"
        BY <4>1, <4>3 DEF PageSound
      <4>4. CASE m.type = "page"
        <5>1. m.epoch \in Nat /\ m.until \in Nat
          BY <4>4 DEF Message
        <5>2. Behind(m.epoch, m.until)
          BY <4>1, <4>2, <4>4 DEF PageSound
        <5>3. Behind(m.epoch, m.until)' /\ m.epoch # epoch'
          BY <1>2, <5>1, <5>2
        <5>4. QED
          BY <4>1, <5>3 DEF PageSound
      <4>5. QED
        BY <4>3, <4>4
    <3>2. QED
      BY <1>1, <3>1 DEF QueueSound
  <2>4. QED
    BY <2>1, <2>2, <2>3
<1>4. WatermarksBehind' /\ WatermarksHold'
  <2>1. \A p \in Peers : wm'[p] = wm[p] /\ Behind(wm[p].epoch, wm[p].seq)
    BY <1>1 DEF IInv, Core, WatermarksBehind
  <2>2. \A p \in Peers : Behind(wm[p].epoch, wm[p].seq)' /\ wm[p].epoch # epoch'
    BY <1>2, <2>1, Ranges
  <2>3. QED
    BY <2>1, <2>2 DEF WatermarksBehind, WatermarksHold
<1>5. NumbersSound' /\ CapturesSound' /\ (epoch > 0)'
  BY <1>1 DEF NumbersSound, CapturesSound
<1>6. QED
  BY <1>3, <1>4, <1>5 DEF IInv, Core

(* The peer asks on from its watermark, which is sound.                   *)
LEMMA SoundPeerOpens ==
    ASSUME IInv, TypeOK', NEW c \in Conns, PeerOpens(c)
    PROVE  Core'
<1> TypeOK
  BY DEF IInv, Core
<1>1. /\ UNCHANGED <<dbVars, numbered, captures, out, cursor, task, taken, wm, waived, echoed>>
      /\ rcv[c] = "new"
      /\ \A d \in Conns \ {c} : rcv'[d] = rcv[d] /\ inn'[d] = inn[d]
  BY DEF PeerOpens, capVars, srcVars, ghosts, TypeOK, PeerType, QueueType
<1>2. Calm
  BY <1>1, SameRows DEF dbVars
<1>3. QueueSound(c, out[c])' /\ AnswerSound(c)' /\ LiveCursorSound(c, out[c], cursor[c])'
  BY <1>1, <1>2, KeptConnection DEF Live
<1> DEFINE p == PeerOf[c]
<1>4. p \in Peers /\ wm[p].seq \in Nat /\ wm[p].epoch \in Nat
  BY Ranges
<1>5. RequestSound(p, wm[p].seq, wm[p].epoch)
  BY <1>4 DEF IInv, Core, WatermarksBehind, WatermarksHold, RequestSound, Owed
<1>6. PICK asked \in Seq(Request), r \in Request :
         /\ asked = inn[c]
         /\ r.after = wm[p].seq /\ r.epoch = wm[p].epoch
         /\ inn'[c] = Append(asked, r)
  <2> DEFINE s == [after |-> wm[p].seq, epoch |-> wm[p].epoch]
  <2>1. s \in Request /\ s.after = wm[p].seq /\ s.epoch = wm[p].epoch
    BY <1>4 DEF Request
  <2>2. inn'[c] = Append(inn[c], s)
    BY DEF PeerOpens, TypeOK, QueueType
  <2> HIDE DEF s
  <2>3. QED
    BY <2>1, <2>2, Ranges
<1>7. AskedSound(c)'
  <2>1. /\ Len(inn'[c]) = Len(asked) + 1 /\ Len(asked) \in Nat
        /\ \A k \in 1 .. Len(asked) : inn'[c][k] = asked[k]
        /\ inn'[c][Len(asked) + 1] = r
    BY <1>6
  <2>2. ASSUME NEW k \in 1 .. Len(inn'[c]) PROVE RequestSound(PeerOf[c], inn[c][k].after, inn[c][k].epoch)'
    <3>1. CASE k = Len(asked) + 1
      BY <1>1, <1>5, <1>6, <2>1, <3>1 DEF RequestSound, Behind, Owed, Wanted, Excused, dbVars
    <3>2. CASE k # Len(asked) + 1
      <4>1. k \in 1 .. Len(asked)
        BY <2>1, <3>2
      <4>2. RequestSound(PeerOf[c], asked[k].after, asked[k].epoch)
        BY <1>6, <4>1 DEF IInv, Core, AskedSound
      <4>3. QED
        BY <1>1, <2>1, <4>1, <4>2 DEF RequestSound, Behind, Owed, Wanted, Excused, dbVars
    <3>3. QED
      BY <3>1, <3>2
  <2>3. QED
    BY <2>2 DEF AskedSound
<1>8. QED
  BY <1>1, <1>2, <1>3, <1>7, LocalStep

(* The peer's end is gone: nothing more is promised on this connection.    *)
LEMMA SoundPeerStops ==
    ASSUME IInv, TypeOK', NEW c \in Conns, PeerCloses(c) \/ PeerFailsPush(c)
    PROVE  Core'
<1> TypeOK
  BY DEF IInv, Core
<1>1. /\ UNCHANGED <<dbVars, numbered, captures, inn, cursor, task, taken, wm, waived, echoed>>
      /\ rcv'[c] = "closed" /\ out'[c] = <<>>
      /\ \A d \in Conns \ {c} : rcv'[d] = rcv[d] /\ out'[d] = out[d]
  BY DEF PeerCloses, PeerFailsPush, capVars, ghosts, TypeOK, PeerType, QueueType
<1>2. Calm
  BY <1>1, SameRows DEF dbVars
<1>3. ~Live(c)'
  BY <1>1 DEF Live
<1>4. QueueSound(c, out[c])'
  BY <1>1 DEF QueueSound
<1>5. AskedSound(c)' /\ AnswerSound(c)'
  BY <1>1, <1>2, <1>3, KeptAsked, KeptAnswer
<1>6. LiveCursorSound(c, out[c], cursor[c])'
  <2>1. PICK queue \in Seq(Message), cur \in Cursor : queue = out[c] /\ cur = cursor[c]
    BY Ranges
  <2>2. LiveCursorSound(c, queue, cur) /\ cursor'[c] = cur
    BY <1>1, <2>1 DEF IInv, Core
  <2>3. QED
    BY <1>1, <1>2, <1>3, <2>2, SameAhead, CarriedCursor
<1>7. QED
  BY <1>1, <1>2, <1>4, <1>5, <1>6, LocalStep

(* What was on its way in the push is taken now.                          *)
LEMMA SoundPeerTakesPush ==
    ASSUME IInv, TypeOK', NEW c \in Conns, PeerTakesPush(c)
    PROVE  Core'
<1> TypeOK
  BY DEF IInv, Core
<1>1. /\ UNCHANGED <<dbVars, numbered, captures, inn, cursor, task, rcv, wm, waived, echoed>>
      /\ out[c] # <<>> /\ out'[c] = Tail(out[c])
      /\ \A d \in Conns \ {c} : out'[d] = out[d]
      /\ \A p \in Peers : taken[p] \subseteq taken'[p]
      /\ Head(out[c]).item \in taken'[PeerOf[c]]
  <2>1. PeerOf[c] \in Peers
    BY Ranges
  <2>2. QED
    BY <2>1 DEF PeerTakesPush, capVars, ghosts, TypeOK, PeerType, QueueType
<1>2. Calm
  BY <1>1, SameRows DEF dbVars
<1>3. \A i \in Items : Head(out[c]) = Push(i) => i \in taken'[PeerOf[c]]
  BY <1>1 DEF Push
<1>4. Live(c)' => Live(c)
  BY <1>1 DEF Live
<1>5. QueueSound(c, out[c])' /\ \A i \in Items : Safe(c, out[c], i) => Safe(c, out[c], i)'
  BY <1>1, <1>2, <1>3, <1>4, TailSound
<1>6. AskedSound(c)' /\ AnswerSound(c)'
  BY <1>1, <1>2, <1>4, <1>5, KeptAsked, KeptAnswer
<1>7. LiveCursorSound(c, out[c], cursor[c])'
  <2>1. PICK queue \in Seq(Message), cur \in Cursor : queue = out[c] /\ cur = cursor[c]
    BY Ranges
  <2>2. LiveCursorSound(c, queue, cur) /\ cursor'[c] = cur
    BY <1>1, <2>1 DEF IInv, Core
  <2>3. QED
    BY <1>1, <1>2, <1>4, <1>5, <2>1, <2>2, SameAhead, CarriedCursor
<1>8. QED
  BY <1>1, <1>2, <1>5, <1>6, <1>7, LocalStep

(* A page at the head of the queue covers what the peer has taken in.      *)
LEMMA SoundPeerTakesPage ==
    ASSUME IInv, TypeOK', NEW c \in Conns, PeerTakesPage(c)
    PROVE  Core'
<1> TypeOK
  BY DEF IInv, Core
<1> DEFINE p == PeerOf[c]
<1>1. /\ UNCHANGED <<dbVars, numbered, captures, cursor, task, rcv, taken, waived, echoed>>
      /\ out[c] # <<>> /\ out'[c] = Tail(out[c]) /\ rcv[c] = "open"
      /\ \A d \in Conns \ {c} : out'[d] = out[d] /\ inn'[d] = inn[d]
      /\ Head(out[c]).type = "page"
  BY DEF PeerTakesPage, capVars, ghosts, TypeOK, QueueType
<1>2. Calm
  BY <1>1, SameRows DEF dbVars
<1>3. PICK page \in Message : page = Head(out[c])
  <2>1. out[c] \in Seq(Message)
    BY Ranges
  <2>2. QED
    BY <1>1, <2>1
<1>4. page.epoch \in Nat /\ page.until \in Nat /\ page.type = "page"
  BY <1>1, <1>3 DEF Message
<1>5. RequestSound(p, page.until, page.epoch)
  <2>1. 1 \in 1 .. Len(out[c]) /\ out[c][1] = page
    <3>1. out[c] \in Seq(Message)
      BY Ranges
    <3>2. QED
      BY <1>1, <1>3, <3>1
  <2>2. PageSound(c, out[c], 1)
    BY <2>1 DEF IInv, Core, QueueSound
  <2>3. ~ \E j \in 1 .. (1 - 1) : TRUE
    OBVIOUS
  <2>4. QED
    BY <1>1, <1>4, <2>1, <2>2, <2>3 DEF PageSound, RequestSound, Live
<1>6. \A i \in Items : Head(out[c]) # Push(i)
  BY <1>1 DEF Push
<1>7. Live(c)' => Live(c)
  BY <1>1 DEF Live
<1>8. QueueSound(c, out[c])' /\ \A i \in Items : Safe(c, out[c], i) => Safe(c, out[c], i)'
  BY <1>1, <1>2, <1>6, <1>7, TailSound
<1>9. AnswerSound(c)'
  BY <1>1, <1>2, <1>7, <1>8, KeptAnswer
<1>10. LiveCursorSound(c, out[c], cursor[c])'
  <2>1. PICK queue \in Seq(Message), cur \in Cursor : queue = out[c] /\ cur = cursor[c]
    BY Ranges
  <2>2. LiveCursorSound(c, queue, cur) /\ cursor'[c] = cur
    BY <1>1, <2>1 DEF IInv, Core
  <2>3. QED
    BY <1>1, <1>2, <1>7, <1>8, <2>1, <2>2, SameAhead, CarriedCursor
<1>11. AskedSound(c)'
  <2>1. CASE inn'[c] = inn[c]
    BY <1>2, <2>1, KeptAsked
  <2>2. CASE inn'[c] # inn[c]
    <3> DEFINE s == [after |-> page.until, epoch |-> page.epoch]
    <3>1. s \in Request /\ s.after = page.until /\ s.epoch = page.epoch
      BY <1>4 DEF Request
    <3>2. inn'[c] = Append(inn[c], s)
      BY <1>3, <2>2 DEF PeerTakesPage, TypeOK, QueueType
    <3> HIDE DEF s
    <3>3. PICK asked \in Seq(Request), r \in Request :
             asked = inn[c] /\ r = s /\ inn'[c] = Append(asked, r)
      BY <3>1, <3>2, Ranges
    <3>4. /\ Len(inn'[c]) = Len(asked) + 1 /\ Len(asked) \in Nat
          /\ \A k \in 1 .. Len(asked) : inn'[c][k] = asked[k]
          /\ inn'[c][Len(asked) + 1] = r
      BY <3>3
    <3>5. ASSUME NEW k \in 1 .. Len(inn'[c])
          PROVE  RequestSound(PeerOf[c], inn[c][k].after, inn[c][k].epoch)'
      <4>1. CASE k = Len(asked) + 1
        BY <1>1, <1>5, <3>1, <3>3, <3>4, <4>1 DEF RequestSound, Behind, Owed, Wanted, Excused, dbVars
      <4>2. CASE k # Len(asked) + 1
        <5>1. k \in 1 .. Len(asked)
          BY <3>4, <4>2
        <5>2. RequestSound(PeerOf[c], asked[k].after, asked[k].epoch)
          BY <3>3, <5>1 DEF IInv, Core, AskedSound
        <5>3. QED
          BY <1>1, <3>4, <5>1, <5>2 DEF RequestSound, Behind, Owed, Wanted, Excused, dbVars
      <4>3. QED
        BY <4>1, <4>2
    <3>6. QED
      BY <3>5 DEF AskedSound
  <2>3. QED
    BY <2>1, <2>2
<1>12. WatermarksBehind' /\ WatermarksHold'
  <2>1. PICK mark \in [epoch : Nat, seq : Nat] : mark = wm[p]
    BY Ranges
  <2>2. /\ p \in Peers /\ \A q \in Peers \ {p} : wm'[q] = wm[q]
        /\ wm'[p] = AdvancedWatermark(mark, page.epoch, page.until)
    BY <1>3, <2>1, Ranges DEF PeerTakesPage, TypeOK, PeerType
  <2>3. wm'[p] = mark \/ (wm'[p].epoch = page.epoch /\ wm'[p].seq = page.until)
    BY <2>2 DEF AdvancedWatermark
  <2>4. \A q \in Peers : RequestSound(q, wm[q].seq, wm[q].epoch)
    BY Ranges DEF IInv, Core, WatermarksBehind, WatermarksHold, RequestSound, Owed
  <2>5. \A q \in Peers : RequestSound(q, wm'[q].seq, wm'[q].epoch)
    BY <1>5, <2>1, <2>2, <2>3, <2>4
  <2>6. epoch' = epoch /\ counter' = counter /\ seqOf' = seqOf
    BY <1>1 DEF dbVars
  <2>7. WatermarksBehind'
    BY <2>5, <2>6 DEF WatermarksBehind, RequestSound, Behind
  <2>8. WatermarksHold'
    BY <1>1, <2>5, <2>6 DEF WatermarksHold, RequestSound, Owed, Wanted, Excused
  <2>9. QED
    BY <2>7, <2>8
<1>13. QED
  BY <1>1, <1>2, <1>8, <1>9, <1>10, <1>11, <1>12, LocalStep

(***************************************************************************)
(* The core of the invariant                                               *)
(***************************************************************************)
LEMMA InitSound == Init => Core
<1> SUFFICES ASSUME Init PROVE Core
  OBVIOUS
<1>1. TypeOK
  BY InitType
<1>2. /\ epoch = 1 /\ counter = 0 /\ \A i \in Items : seqOf[i] = 0
      /\ numbered = {} /\ captures = <<>>
      /\ \A c \in Conns : /\ out[c] = <<>> /\ inn[c] = <<>>
                          /\ cursor[c] = FreshCursor /\ task[c] = IdleTask
      /\ \A p \in Peers : wm[p].epoch = 0 /\ wm[p].seq = 0
  BY DEF Init
<1>3. NumbersSound /\ CapturesSound /\ epoch > 0
  BY <1>2 DEF NumbersSound, CapturesSound
<1>4. ASSUME NEW c \in Conns
      PROVE  /\ QueueSound(c, out[c]) /\ AskedSound(c)
             /\ AnswerSound(c) /\ LiveCursorSound(c, out[c], cursor[c])
  BY <1>2 DEF QueueSound, AskedSound, AnswerSound, LiveCursorSound, IdleTask, FreshCursor
<1>5. WatermarksBehind /\ WatermarksHold
  BY <1>2 DEF WatermarksBehind, WatermarksHold, Behind
<1>6. QED
  BY <1>1, <1>3, <1>4, <1>5 DEF IInv, Core

(* Every step of the protocol keeps the core.                             *)
LEMMA CoreStep == IInv /\ [Next]_vars => Core'
<1> SUFFICES ASSUME IInv, [Next]_vars PROVE Core'
  OBVIOUS
<1>1. TypeOK'
  BY TypeStep DEF IInv, Core
<1>2. CASE CaptureStep
  BY <1>1, <1>2, SoundStore, SoundNumber, SoundNumberFails, SoundDelete, SoundAge, SoundTakeFromPeer
     DEF CaptureStep
<1>3. CASE SendStep
  BY <1>1, <1>3, SoundOnLocalCapture, SoundDeliver, SoundDeliverFailed DEF SendStep
<1>4. ASSUME NEW c \in Conns, TaskStepOf(c) PROVE Core'
  BY <1>1, <1>4, SoundReadCounter, SoundReadPage, SoundTaskEnds, SoundSendRow, SoundSendPage, SoundConfirm
     DEF TaskStepOf
<1>5. ASSUME NEW c \in Conns, SourceStep(c) PROVE Core'
  BY <1>1, <1>5, SoundSourceOpens, SoundSourceCloses, SoundSourceTakesRequest DEF SourceStep
<1>6. ASSUME NEW c \in Conns, PeerStep(c) PROVE Core'
  BY <1>1, <1>6, SoundPeerOpens, SoundPeerStops, SoundPeerTakesPush, SoundPeerTakesPage DEF PeerStep
<1>7. CASE UNCHANGED vars
  <2>1. Calm
    BY <1>7, SameRows DEF IInv, Core, vars, dbVars, peerVars, ghosts
  <2>2. NumbersSound' /\ CapturesSound'
    BY <1>7, SameNumbers DEF vars, dbVars, capVars, ghosts
  <2>3. QED
    BY <1>1, <1>7, <2>1, <2>2, QuietStep DEF vars, srcVars, peerVars
<1>8. QED
  BY <1>1, <1>2, <1>3, <1>4, <1>5, <1>6, <1>7, SoundRestart, SoundRebuilt DEF Next

(***************************************************************************)
(* The echo filter, where the rows stay: what it remembers is promised     *)
(***************************************************************************)

(* A content that travels, with a row that catch-up finds, or that every   *)
(* peer has.                                                               *)
Tracked(i) == Kind[i] = "plain" /\ (seqOf[i] > 0 \/ \A p \in Peers : i \in taken[p])

(* Where nothing is waived, what the filter looks after is tracked.        *)
LEMMA TrackedItems ==
    ASSUME IInv, Steady
    PROVE  /\ \A k \in 1 .. Len(captures) :
                 HeldBack(captures[k]) => captures[k].item \in Items /\ Tracked(captures[k].item)
           /\ \A i \in lastSynced : Kind[i] = "plain" => i \in Items /\ Tracked(i)
           /\ \A i \in Items, p \in Peers : Tracked(i) => Wanted(p, i) \/ i \in taken[p]
<1>1. captures \in Seq(Capture) /\ lastSynced \subseteq Items
  BY DEF IInv, Core, TypeOK, CaptureType
<1>2. \A k \in 1 .. Len(captures) : captures[k] \in Capture
  BY <1>1
<1>3. ASSUME NEW k \in 1 .. Len(captures), HeldBack(captures[k])
      PROVE  captures[k].item \in Items /\ Tracked(captures[k].item)
  BY <1>2, <1>3 DEF HeldBack, Tracked, Capture
<1>4. ASSUME NEW i \in lastSynced, Kind[i] = "plain" PROVE i \in Items /\ Tracked(i)
  BY <1>1, <1>4 DEF IInv, EchoesSound, Tracked
<1>5. \A i \in Items, p \in Peers : Tracked(i) => Wanted(p, i) \/ i \in taken[p]
  BY DEF Tracked, Wanted, Excused, IInv, Grounds
<1>6. QED
  BY <1>3, <1>4, <1>5

(* A connection still carries what it carried: it knows no more than       *)
(* before, forgets no break, and keeps what is safe and what is ahead.     *)
LEMMA KeptCarries ==
    ASSUME NEW c \in Conns, NEW i \in Items, Wanted(PeerOf[c], i), Carries(c, i),
           Live(c)' => Live(c), cursor[c].broken => cursor'[c].broken,
           cursor'[c].known => cursor[c].known,
           Safe(c, out[c], i) => Safe(c, out[c], i)',
           task'[c] = task[c] \/ KeepsAhead(c)
    PROVE  Carries(c, i)'
<1>1. KeepsAhead(c)
  BY SameAhead
<1>2. QED
  BY <1>1 DEF Carries, Brings, KeepsAhead

(* What is promised stays so while every registered connection goes on     *)
(* carrying it and the queue of captures stays.                            *)
LEMMA KeptPromise ==
    ASSUME IInv, Steady, captures' = captures,
           \A p \in Peers : taken[p] \subseteq taken'[p],
           \A c \in registered', i \in Items :
              (Wanted(PeerOf[c], i) /\ (c \in registered => Carries(c, i))) => Carries(c, i)',
           registered' \subseteq Conns,
           NEW i \in Items, Tracked(i), NEW k \in Nat, Promised(i, k)
    PROVE  Promised(i, k)'
<1>1. CASE \E j \in 1 .. k - 1 : captures[j].send /\ captures[j].item = i
  BY <1>1 DEF Promised
<1>2. CASE \A c \in registered : Carries(c, i)
  <2>1. ASSUME NEW c \in registered' PROVE Carries(c, i)'
    <3>1. c \in Conns /\ PeerOf[c] \in Peers
      BY PeerOfAssumption
    <3>2. CASE i \in taken[PeerOf[c]]
      BY <3>1, <3>2 DEF Carries, Brings, Safe
    <3>3. CASE i \notin taken[PeerOf[c]]
      BY <1>2, <3>1, <3>3, TrackedItems
    <3>4. QED
      BY <3>2, <3>3
  <2>2. QED
    BY <2>1 DEF Promised
<1>3. QED
  BY <1>1, <1>2 DEF Promised

(* Steps that neither capture, number nor deliver.                         *)
LEMMA EchoesKept ==
    ASSUME IInv, TypeOK', UNCHANGED <<captures, lastSynced, seqOf>>,
           \A p \in Peers : taken[p] \subseteq taken'[p],
           \A c \in registered', i \in Items :
              (Steady /\ Wanted(PeerOf[c], i) /\ (c \in registered => Carries(c, i))) => Carries(c, i)'
    PROVE  EchoesSound'
<1> SUFFICES ASSUME Steady PROVE EchoesSound'
  BY DEF EchoesSound
<1>1. registered' \subseteq Conns /\ Len(captures) \in Nat
  BY DEF IInv, Core, TypeOK, RegistryType, CaptureType
<1>2. ASSUME NEW i \in Items, Tracked(i), NEW k \in Nat, Promised(i, k) PROVE Promised(i, k)'
  BY <1>1, <1>2, KeptPromise
<1>3. ASSUME NEW k \in 1 .. Len(captures), HeldBack(captures[k])
      PROVE  Promised(captures[k].item, k)'
  <2>1. PICK i \in Items : i = captures[k].item /\ Tracked(i)
    BY <1>3, TrackedItems
  <2>2. Promised(i, k)
    BY <1>3, <2>1 DEF IInv, EchoesSound
  <2>3. Promised(i, k)'
    BY <1>1, <1>2, <2>1, <2>2
  <2>4. QED
    BY <2>1, <2>3
<1>4. ASSUME NEW i \in lastSynced, Kind[i] = "plain"
      PROVE  /\ seqOf'[i] > 0 \/ \A p \in Peers : i \in taken'[p]
             /\ Promised(i, Len(captures) + 1)'
  <2>1. i \in Items /\ Tracked(i)
    BY <1>4, TrackedItems
  <2>2. Promised(i, Len(captures) + 1)
    BY <1>4 DEF IInv, EchoesSound
  <2>3. PICK k \in Nat : k = Len(captures) + 1
    BY <1>1
  <2>4. Promised(i, k)'
    BY <1>2, <2>1, <2>2, <2>3
  <2>5. QED
    BY <2>1, <2>3, <2>4 DEF Tracked
<1>5. QED
  BY <1>3, <1>4 DEF EchoesSound, HeldBack

(* The same, where nothing happens but to the tasks and queues of one      *)
(* connection.                                                             *)
LEMMA EchoesOfOne ==
    ASSUME IInv, TypeOK', UNCHANGED <<captures, lastSynced, seqOf, registered>>,
           \A p \in Peers : taken[p] \subseteq taken'[p],
           NEW c \in Conns,
           \A d \in Conns \ {c} : UNCHANGED <<rcv[d], out[d], task[d], cursor[d]>>,
           \A i \in Items : (Steady /\ Wanted(PeerOf[c], i) /\ Carries(c, i)) => Carries(c, i)'
    PROVE  EchoesSound'
<1>1. ASSUME NEW d \in registered, NEW i \in Items, Steady, Wanted(PeerOf[d], i), Carries(d, i)
      PROVE  Carries(d, i)'
  <2>1. d \in Conns /\ PeerOf[d] \in Peers
    BY PeerOfAssumption DEF IInv, Core, TypeOK, RegistryType
  <2>2. CASE d = c
    BY <1>1, <2>2
  <2>3. CASE d # c
    BY <1>1, <2>1, <2>3, KeptCarries DEF Live, Safe
  <2>4. QED
    BY <2>2, <2>3
<1>2. QED
  BY <1>1, EchoesKept

(* Storing and numbering: a fresh number belongs to no capture yet.        *)
LEMMA EchoesCapture ==
    ASSUME IInv, TypeOK', NEW x \in Items, StoreCapture(x) \/ NumberCapture(x) \/ NumberFails(x)
    PROVE  EchoesSound'
<1> TypeOK
  BY DEF IInv, Core
<1>1. UNCHANGED <<captures, lastSynced, registered, rcv, out, task, cursor, taken>>
  BY DEF StoreCapture, NumberCapture, NumberFails, srcVars, peerVars
<1>2. \A i \in Items, k \in Nat : Promised(i, k) => Promised(i, k)'
  BY <1>1 DEF Promised, Carries, Brings, Safe, OnItsWay, Live, Ahead, LastPageAhead, ToSend
<1>3. captures \in Seq(Capture) /\ Len(captures) \in Nat
  BY DEF TypeOK, CaptureType
<1>4. ASSUME NEW k \in 1 .. Len(captures), HeldBack(captures[k])' PROVE HeldBack(captures[k])
  <2>1. PICK e \in Capture : e = captures[k] /\ e.seq <= counter
    BY <1>3 DEF IInv, Core, CapturesSound, EntrySound
  <2>2. e.item \in Items /\ e.seq \in Nat /\ counter \in Nat /\ seqOf'[e.item] = e.seq
    BY <1>1, <1>4, <2>1, Ranges DEF HeldBack, Capture
  <2>3. seqOf'[e.item] = seqOf[e.item] \/ seqOf'[e.item] = counter + 1
    BY <2>2 DEF StoreCapture, NumberCapture, NumberFails, dbVars, TypeOK, DatabaseType
  <2>4. QED
    BY <1>1, <1>4, <2>1, <2>2, <2>3 DEF HeldBack
<1>5. \A i \in Items : seqOf[i] > 0 => seqOf'[i] > 0
  BY Ranges DEF StoreCapture, NumberCapture, NumberFails, dbVars, TypeOK, DatabaseType
<1>6. ASSUME Steady, NEW k \in 1 .. Len(captures), HeldBack(captures[k])'
      PROVE  Promised(captures[k].item, k)'
  <2>1. HeldBack(captures[k])
    BY <1>4, <1>6
  <2>2. PICK i \in Items : i = captures[k].item
    BY <1>6, <2>1, TrackedItems
  <2>3. Promised(i, k)
    BY <1>6, <2>1, <2>2 DEF IInv, EchoesSound
  <2>4. Promised(i, k)'
    BY <1>2, <1>3, <2>3
  <2>5. QED
    BY <1>1, <2>2, <2>4
<1>7. ASSUME Steady, NEW i \in lastSynced, Kind[i] = "plain"
      PROVE  /\ seqOf'[i] > 0 \/ \A p \in Peers : i \in taken'[p]
             /\ Promised(i, Len(captures) + 1)'
  <2>1. i \in Items
    BY DEF TypeOK, CaptureType
  <2>2. PICK k \in Nat : k = Len(captures) + 1
    BY <1>3
  <2>3. /\ seqOf[i] > 0 \/ \A p \in Peers : i \in taken[p]
        /\ Promised(i, k)
    BY <1>7, <2>2 DEF IInv, EchoesSound
  <2>4. Promised(i, k)'
    BY <1>2, <2>1, <2>3
  <2>5. QED
    BY <1>1, <1>5, <2>1, <2>2, <2>3, <2>4
<1>8. QED
  BY <1>1, <1>6, <1>7 DEF EchoesSound

(* What is taken in from the one peer is a content that peer has.          *)
LEMMA EchoesFromPeer ==
    ASSUME IInv, TypeOK', NEW p \in Peers, NEW x \in Items, TakeFromPeer(p, x)
    PROVE  EchoesSound'
<1> SUFFICES ASSUME Steady PROVE EchoesSound'
  BY DEF EchoesSound
<1> TypeOK
  BY DEF IInv, Core
<1>1. /\ UNCHANGED <<captures, seqOf, registered, rcv, out, task, cursor>>
      /\ lastSynced' = {x}
      /\ \A q \in Peers : taken[q] \subseteq taken'[q] /\ x \in taken'[q]
  BY DEF TakeFromPeer, srcVars, TypeOK, PeerType, Steady
<1>2. registered \subseteq Conns /\ \A c \in Conns : PeerOf[c] \in Peers
  BY PeerOfAssumption DEF TypeOK, RegistryType
<1>3. \A i \in Items, k \in Nat : Promised(i, k) => Promised(i, k)'
  BY <1>1, <1>2 DEF Promised, Carries, Brings, Safe, OnItsWay, Live, Ahead, LastPageAhead, ToSend
<1>4. \A k \in Nat : Promised(x, k)'
  BY <1>1, <1>2 DEF Promised, Carries, Brings, Safe
<1>5. Len(captures) \in Nat
  BY DEF TypeOK, CaptureType
<1>6. ASSUME NEW k \in 1 .. Len(captures), HeldBack(captures[k])'
      PROVE  Promised(captures[k].item, k)'
  <2>1. HeldBack(captures[k])
    BY <1>1, <1>6 DEF HeldBack
  <2>2. PICK i \in Items : i = captures[k].item /\ Promised(i, k)
    BY <2>1, TrackedItems DEF IInv, EchoesSound
  <2>3. Promised(i, k)'
    BY <1>3, <1>5, <2>2
  <2>4. QED
    BY <1>1, <2>2, <2>3
<1>7. Promised(x, Len(captures) + 1)'
  <2>1. PICK k \in Nat : k = Len(captures) + 1
    BY <1>5
  <2>2. QED
    BY <1>4, <2>1
<1>8. QED
  BY <1>1, <1>6, <1>7 DEF EchoesSound

(* Broken cursors promise nothing: whatever is left out, no checkpoint     *)
(* will pass it.                                                           *)
LEMMA BrokenPromises ==
    ASSUME TypeOK, BreakRegistered, registered' = registered
    PROVE  \A i \in Items, k \in Nat : Promised(i, k)'
<1>1. \A c \in registered : cursor'[c].broken
  BY DEF BreakRegistered, TypeOK, RegistryType, CursorType, Cursor
<1>2. QED
  BY <1>1 DEF Promised, Carries

(* A capture is held back only for the content remembered; one that is     *)
(* sent is the content remembered from then on.                            *)
LEMMA EchoesOnLocalCapture ==
    ASSUME IInv, TypeOK', NEW cap \in numbered, OnLocalCapture(cap)
    PROVE  EchoesSound'
<1> SUFFICES ASSUME Steady PROVE EchoesSound'
  BY DEF EchoesSound
<1> TypeOK
  BY DEF IInv, Core
<1>1. /\ UNCHANGED <<seqOf, registered, rcv, out, task, taken>>
      /\ cap \in Capture /\ cap.item \in Items /\ seqOf[cap.item] > 0
      /\ captures \in Seq(Capture) /\ Len(captures) \in Nat
  BY DEF OnLocalCapture, dbVars, peerVars, TypeOK, CaptureType, Capture, IInv, Grounds
<1>2. CASE registered = {}
  <2>1. UNCHANGED <<captures, lastSynced>>
    BY <1>2 DEF OnLocalCapture
  <2>2. QED
    BY <1>1, <1>2, <2>1, EchoesKept
<1>3. CASE registered # {}
  <2>1. PICK send \in BOOLEAN :
           /\ lastSynced' = IF send THEN {cap.item} ELSE lastSynced
           /\ (~send /\ Kind[cap.item] = "plain") => cap.item \in lastSynced
           /\ Enqueue([cap EXCEPT !.send = send])
    BY <1>3 DEF OnLocalCapture, Syncable
  <2>2. PICK e \in Capture : /\ e = [cap EXCEPT !.send = send]
                             /\ e.item = cap.item /\ e.seq = cap.seq /\ e.send = send
    <3> DEFINE r == [cap EXCEPT !.send = send]
    <3>1. r \in Capture /\ r.item = cap.item /\ r.seq = cap.seq /\ r.send = send
      BY <1>1 DEF Capture
    <3> HIDE DEF r
    <3>2. QED
      BY <3>1 DEF r
  <2>3. \A k \in 1 .. Len(captures) :
            HeldBack(captures[k]) => captures[k].item \in Items /\ Promised(captures[k].item, k)
    BY TrackedItems DEF IInv, EchoesSound
  <2>4. \A i \in lastSynced' : i \in Items /\ (Kind[i] = "plain" =>
            (seqOf[i] > 0 \/ \A p \in Peers : i \in taken[p]))
    BY <1>1, <2>1 DEF IInv, EchoesSound, TypeOK, CaptureType
  <2>5. CASE captures' = captures /\ BreakRegistered
    <3>1. \A i \in Items, k \in Nat : Promised(i, k)'
      BY <1>1, <2>5, BrokenPromises
    <3>2. PICK n \in Nat : n = Len(captures) + 1
      BY <1>1
    <3>3. \A i \in lastSynced' : Promised(i, Len(captures) + 1)'
      BY <2>4, <2>5, <3>1, <3>2
    <3>4. ASSUME NEW k \in 1 .. Len(captures), HeldBack(captures[k])
          PROVE  Promised(captures[k].item, k)'
      <4>1. PICK i \in Items : i = captures[k].item
        BY <2>3, <3>4
      <4>2. Promised(i, k)'
        BY <1>1, <3>1
      <4>3. QED
        BY <2>5, <4>1, <4>2
    <3>5. QED
      BY <1>1, <2>4, <2>5, <3>3, <3>4 DEF EchoesSound, HeldBack
  <2>6. CASE captures' = Append(captures, e) /\ cursor' = cursor
    <3>1. /\ Len(captures') = Len(captures) + 1
          /\ \A k \in 1 .. Len(captures) : captures'[k] = captures[k]
          /\ captures'[Len(captures) + 1] = e
      BY <1>1, <2>6
    <3>2. ASSUME NEW i \in Items, NEW k \in Nat, NEW m \in Nat, Promised(i, k), k <= m,
                 k <= Len(captures) + 1
          PROVE  Promised(i, m)'
      <4>1. CASE \E j \in 1 .. k - 1 : captures[j].send /\ captures[j].item = i
        <5>1. PICK j \in 1 .. k - 1 : captures[j].send /\ captures[j].item = i
          BY <4>1
        <5>2. j \in 1 .. m - 1 /\ captures'[j] = captures[j]
          BY <1>1, <3>1, <3>2
        <5>3. QED
          BY <5>1, <5>2 DEF Promised
      <4>2. CASE \A c \in registered : Carries(c, i)
        BY <1>1, <2>6, <4>2
           DEF Promised, Carries, Brings, Safe, OnItsWay, Live, Ahead, LastPageAhead, ToSend
      <4>3. QED
        BY <3>2, <4>1, <4>2 DEF Promised
    <3>3. ASSUME NEW k \in 1 .. Len(captures'), HeldBack(captures'[k])
          PROVE  Promised(captures[k].item, k)'
      <4>1. CASE k = Len(captures) + 1
        <5>1. ~send /\ Kind[cap.item] = "plain"
          BY <2>2, <3>1, <3>3, <4>1 DEF HeldBack
        <5>2. Promised(cap.item, k)
          BY <2>1, <4>1, <5>1 DEF IInv, EchoesSound
        <5>3. PICK i \in Items : i = cap.item
          BY <1>1
        <5>4. Promised(i, k)'
          BY <1>1, <3>2, <4>1, <5>2, <5>3
        <5>5. QED
          BY <2>2, <3>1, <4>1, <5>3, <5>4
      <4>2. CASE k # Len(captures) + 1
        <5>1. k \in 1 .. Len(captures) /\ captures'[k] = captures[k]
          BY <1>1, <3>1, <4>2
        <5>2. PICK i \in Items : i = captures[k].item /\ Promised(i, k)
          BY <2>3, <3>3, <5>1
        <5>3. Promised(i, k)'
          BY <1>1, <3>2, <5>1, <5>2
        <5>4. QED
          BY <5>1, <5>2, <5>3
      <4>3. QED
        BY <4>1, <4>2
    <3>4. ASSUME NEW i \in lastSynced', Kind[i] = "plain" PROVE Promised(i, Len(captures) + 1)'
      <4>1. PICK m \in Nat : m = Len(captures) + 2
        BY <1>1
      <4>2. CASE send
        <5>1. i = e.item /\ e.send
          BY <2>1, <2>2, <4>2
        <5>2. Len(captures) + 1 \in 1 .. m - 1
          BY <1>1, <4>1
        <5>3. Promised(i, m)'
          BY <3>1, <5>1, <5>2 DEF Promised
        <5>4. QED
          BY <1>1, <3>1, <4>1, <5>3
      <4>3. CASE ~send
        <5>1. PICK n \in Nat : n = Len(captures) + 1
          BY <1>1
        <5>2. Promised(i, n)
          BY <2>1, <3>4, <4>3, <5>1 DEF IInv, EchoesSound
        <5>3. n <= m /\ n <= Len(captures) + 1
          BY <1>1, <4>1, <5>1
        <5>4. Promised(i, m)'
          BY <2>4, <3>2, <5>2, <5>3
        <5>5. QED
          BY <1>1, <3>1, <4>1, <5>4
      <4>4. QED
        BY <4>2, <4>3
    <3>5. QED
      BY <1>1, <2>4, <3>3, <3>4 DEF EchoesSound, HeldBack
  <2>7. QED
    BY <2>1, <2>2, <2>5, <2>6 DEF Enqueue
<1>4. QED
  BY <1>2, <1>3

(* deliver leaves a mark on a connection without room for the push, and    *)
(* puts the push on its way on every other.                                *)
LEMMA DeliveredKeeps ==
    ASSUME TypeOK, NEW c \in registered, NEW cap \in Capture
    PROVE  /\ DeliveredCursor(c, cap).known = cursor[c].known
           /\ cursor[c].broken => DeliveredCursor(c, cap).broken
           /\ Travels(cap) => \/ DeliveredCursor(c, cap).broken
                              \/ OnItsWay(DeliveredOut(c, cap), cap.item)
<1> c \in Conns
  BY DEF TypeOK, RegistryType
<1>1. PICK queue \in Seq(Message), cur \in Cursor : queue = out[c] /\ cur = cursor[c]
  BY Ranges
<1>2. cap.item \in Items /\ cap.seq \in Nat
  BY DEF Capture
<1> DEFINE marked == Marked(c, cap)
           pushed == PushedOut(c, cap)
           handled == Handle(marked, cap.seq)
<1>3. /\ marked \in Cursor /\ marked.known = cur.known
      /\ marked.broken = (cur.broken \/ Dropped(c, cap))
  BY <1>1 DEF Marked, Dropped, Travels, Cursor
<1>4. handled \in Cursor /\ handled.known = marked.known /\ handled.broken = marked.broken
  BY <1>2, <1>3, HandleType DEF Handle, Cursor
<1>5. Advance(handled).known = handled.known /\ Advance(handled).broken = handled.broken
  BY <1>4, AdvanceProperties
<1>6. /\ DeliveredCursor(c, cap).known = marked.known
      /\ DeliveredCursor(c, cap).broken = marked.broken
  BY <1>4, <1>5 DEF DeliveredCursor
<1>7. ASSUME Travels(cap), ~Dropped(c, cap) PROVE OnItsWay(DeliveredOut(c, cap), cap.item)
  <2> DEFINE push == Push(cap.item)
  <2>1. push \in Message /\ push = Push(cap.item)
    BY <1>2, MessageTypes
  <2> HIDE DEF push
  <2>2. PICK longer \in Seq(Message) : longer = Append(queue, push) /\ OnItsWay(longer, cap.item)
    BY <1>2, <2>1, AppendKeeps
  <2>3. pushed = longer
    BY <1>1, <1>7, <2>1, <2>2 DEF PushedOut
  <2>4. OnItsWay(WithCheckpoint(longer, handled), cap.item)
    <3> DEFINE page == Page(handled.epoch, Advance(handled).until, FALSE)
    <3>1. page \in Message
      BY <1>4, AdvanceProperties, MessageTypes DEF Cursor
    <3>2. OnItsWay(Append(longer, page), cap.item)
      <4> HIDE DEF page
      <4>1. QED
        BY <1>2, <2>2, <3>1, AppendKeeps
    <3>3. WithCheckpoint(longer, handled) \in {longer, Append(longer, page)}
      BY DEF WithCheckpoint
    <3>4. QED
      BY <2>2, <3>2, <3>3
  <2>5. DeliveredOut(c, cap) \in {longer, WithCheckpoint(longer, handled)}
    BY <2>3 DEF DeliveredOut
  <2>6. QED
    BY <2>2, <2>4, <2>5
<1>8. QED
  BY <1>1, <1>3, <1>6, <1>7

(* Deliver, seen from one connection.                                      *)
LEMMA EachDelivered ==
    ASSUME IInv, Deliver, NEW c \in registered, NEW cap \in Capture, cap = Head(captures)
    PROVE  /\ cursor'[c].known = cursor[c].known
           /\ cursor[c].broken => cursor'[c].broken
           /\ Travels(cap) => cursor'[c].broken \/ Safe(c, out[c], cap.item)'
           /\ \A i \in Items : Safe(c, out[c], i) => Safe(c, out[c], i)'
<1> TypeOK
  BY DEF IInv, Core
<1>1. captures # <<>> /\ taken' = taken
  BY DEF Deliver, peerVars
<1>2. c \in Conns
  BY DEF TypeOK, RegistryType
<1>3. out'[c] = DeliveredOut(c, cap) /\ cursor'[c] = DeliveredCursor(c, cap)
  BY <1>2 DEF Deliver
<1>4. /\ DeliveredCursor(c, cap).known = cursor[c].known
      /\ cursor[c].broken => DeliveredCursor(c, cap).broken
      /\ Travels(cap) => \/ DeliveredCursor(c, cap).broken
                         \/ OnItsWay(DeliveredOut(c, cap), cap.item)
  BY DeliveredKeeps
<1>5. \A i \in Items : OnItsWay(out[c], i) => OnItsWay(DeliveredOut(c, cap), i)
  BY <1>1, DeliveredSound
<1>6. \A i : (OnItsWay(out[c], i)' <=> OnItsWay(DeliveredOut(c, cap), i))
  BY <1>3 DEF OnItsWay
<1>7. Travels(cap) => cursor'[c].broken \/ Safe(c, out[c], cap.item)'
  BY <1>3, <1>4, <1>6 DEF Safe
<1>8. \A i \in Items : Safe(c, out[c], i) => Safe(c, out[c], i)'
  BY <1>1, <1>5, <1>6 DEF Safe
<1>9. QED
  BY <1>3, <1>4, <1>7, <1>8

(* A delivered capture leaves the queue: what it promised, every           *)
(* connection now carries.                                                 *)
LEMMA EchoesDeliver ==
    ASSUME IInv, TypeOK', Deliver
    PROVE  EchoesSound'
<1> SUFFICES ASSUME Steady PROVE EchoesSound'
  BY DEF EchoesSound
<1> TypeOK
  BY DEF IInv, Core
<1>1. /\ UNCHANGED <<seqOf, lastSynced, registered, rcv, task, taken>>
      /\ captures # <<>> /\ captures' = Tail(captures)
  BY DEF Deliver, dbVars, peerVars
<1>2. captures \in Seq(Capture) /\ lastSynced \subseteq Items
  BY DEF TypeOK, CaptureType
<1>3. PICK cap \in Capture : cap = Head(captures)
  BY <1>1, <1>2
<1>4. /\ Len(captures) \in Nat \ {0} /\ Len(captures') = Len(captures) - 1
      /\ \A k \in 1 .. Len(captures') : captures'[k] = captures[k + 1] /\ k + 1 \in 1 .. Len(captures)
      /\ captures[1] = cap
  BY <1>1, <1>2, <1>3
<1>5. ASSUME NEW c \in registered
      PROVE  /\ cursor'[c].known = cursor[c].known
             /\ cursor[c].broken => cursor'[c].broken
             /\ Travels(cap) => cursor'[c].broken \/ Safe(c, out[c], cap.item)'
             /\ \A i \in Items : Safe(c, out[c], i) => Safe(c, out[c], i)'
  BY <1>3, EachDelivered
<1>6. ASSUME NEW c \in registered, NEW i \in Items, Carries(c, i) PROVE Carries(c, i)'
  <2>1. Live(c)' = Live(c) /\ Ahead(c, i)' = Ahead(c, i)
    BY <1>1 DEF Live, Ahead, LastPageAhead, ToSend
  <2>2. QED
    BY <1>5, <1>6, <2>1 DEF Carries, Brings
<1>7. ASSUME NEW i \in Items, Kind[i] = "plain", NEW k \in Nat, Promised(i, k + 1), k <= Len(captures)
      PROVE  Promised(i, k)'
  <2>1. CASE \E j \in 1 .. (k + 1) - 1 : captures[j].send /\ captures[j].item = i
    <3>1. PICK j \in 1 .. k : captures[j].send /\ captures[j].item = i
      BY <2>1
    <3>2. CASE j = 1
      <4>1. Travels(cap) /\ cap.item = i
        BY <1>4, <1>7, <3>1, <3>2 DEF Travels
      <4>2. \A c \in registered : Carries(c, i)'
        BY <1>5, <4>1 DEF Carries, Brings
      <4>3. QED
        BY <1>1, <4>2 DEF Promised
    <3>3. CASE j # 1
      <4>1. j - 1 \in 1 .. k - 1 /\ j - 1 \in 1 .. Len(captures') /\ (j - 1) + 1 = j
        BY <1>4, <1>7, <3>3
      <4>2. captures'[j - 1] = captures[j]
        BY <1>4, <4>1
      <4>3. QED
        BY <3>1, <4>1, <4>2 DEF Promised
    <3>4. QED
      BY <3>2, <3>3
  <2>2. CASE \A c \in registered : Carries(c, i)
    BY <1>1, <1>6, <2>2 DEF Promised
  <2>3. QED
    BY <1>7, <2>1, <2>2 DEF Promised
<1>8. ASSUME NEW k \in 1 .. Len(captures'), HeldBack(captures'[k])
      PROVE  Promised(captures[k].item, k)'
  <2>1. k + 1 \in 1 .. Len(captures) /\ captures'[k] = captures[k + 1] /\ k \in Nat /\ k <= Len(captures)
    BY <1>4
  <2>2. PICK i \in Items : i = captures[k + 1].item /\ Kind[i] = "plain" /\ Promised(i, k + 1)
    BY <1>8, <2>1, TrackedItems DEF IInv, EchoesSound, HeldBack
  <2>3. Promised(i, k)'
    BY <1>7, <2>1, <2>2
  <2>4. QED
    BY <2>1, <2>2, <2>3
<1>9. ASSUME NEW i \in lastSynced, Kind[i] = "plain"
      PROVE  /\ seqOf'[i] > 0 \/ \A p \in Peers : i \in taken'[p]
             /\ Promised(i, Len(captures) + 1)'
  <2>1. PICK n \in Nat : n = Len(captures) /\ n = Len(captures') + 1
    BY <1>4
  <2>2. /\ seqOf[i] > 0 \/ \A p \in Peers : i \in taken[p]
        /\ Promised(i, n + 1)
    BY <1>9, <2>1 DEF IInv, EchoesSound
  <2>3. Promised(i, n)'
    BY <1>2, <1>7, <1>9, <2>1, <2>2
  <2>4. QED
    BY <1>1, <2>1, <2>2, <2>3
<1>10. QED
  BY <1>1, <1>8, <1>9 DEF EchoesSound, HeldBack

(* deliver_failed breaks every registered cursor.                          *)
LEMMA EchoesDeliverFailed ==
    ASSUME IInv, TypeOK', DeliverFailed
    PROVE  EchoesSound'
<1> SUFFICES ASSUME Steady PROVE EchoesSound'
  BY DEF EchoesSound
<1> TypeOK
  BY DEF IInv, Core
<1>1. /\ UNCHANGED <<seqOf, lastSynced, registered, taken>> /\ BreakRegistered
  BY DEF DeliverFailed, dbVars, peerVars
<1>2. \A i \in Items, k \in Nat : Promised(i, k)'
  BY <1>1, BrokenPromises
<1>3. captures' \in Seq(Capture) /\ lastSynced \subseteq Items
  BY DEF TypeOK, CaptureType
<1>4. ASSUME NEW k \in 1 .. Len(captures') PROVE Promised(captures[k].item, k)'
  <2>1. captures'[k] \in Capture /\ k \in Nat
    BY <1>3
  <2>2. PICK i \in Items : i = captures'[k].item
    BY <2>1 DEF Capture
  <2>3. Promised(i, k)'
    BY <1>2, <2>1
  <2>4. QED
    BY <2>2, <2>3
<1>5. ASSUME NEW i \in lastSynced, Kind[i] = "plain"
      PROVE  /\ seqOf'[i] > 0 \/ \A p \in Peers : i \in taken'[p]
             /\ Promised(i, Len(captures) + 1)'
  <2>1. PICK n \in Nat : n = Len(captures') + 1
    BY <1>3
  <2>2. Promised(i, n)'
    BY <1>2, <1>3
  <2>3. QED
    BY <1>1, <1>5, <2>1, <2>2 DEF IInv, EchoesSound
<1>6. QED
  BY <1>1, <1>4, <1>5 DEF EchoesSound

(* A new connection has its whole catch-up ahead; the one it replaces has  *)
(* no promise to keep.                                                     *)
LEMMA EchoesSourceOpens ==
    ASSUME IInv, TypeOK', NEW x \in Conns, SourceOpens(x)
    PROVE  EchoesSound'
<1> TypeOK
  BY DEF IInv, Core
<1>1. /\ UNCHANGED <<captures, lastSynced, seqOf, taken, rcv, out, task>>
      /\ src[x] = "new"
      /\ registered' \subseteq registered \cup {x}
      /\ \A c \in registered' \cap registered : cursor'[c] = cursor[c]
      /\ cursor'[x] \in {cursor[x], FreshCursor}
  BY DEF SourceOpens, dbVars, capVars, peerVars, TypeOK, RegistryType
<1>2. x \notin registered /\ cursor[x] = FreshCursor /\ task[x].pc = "idle"
  BY <1>1 DEF TypeOK, RegistryType, IInv, Grounds
<1>3. ASSUME NEW c \in registered', NEW i \in Items, Steady, Wanted(PeerOf[c], i),
             c \in registered => Carries(c, i)
      PROVE  Carries(c, i)'
  <2>1. CASE c = x
    <3>1. ~cursor'[c].known
      BY <1>1, <1>2, <2>1 DEF FreshCursor
    <3>2. Ahead(c, i)'
      BY <1>1, <1>2, <1>3, <2>1 DEF Ahead, LastPageAhead
    <3>3. QED
      BY <3>1, <3>2 DEF Carries, Brings
  <2>2. CASE c # x
    <3>1. c \in registered /\ c \in Conns /\ cursor'[c] = cursor[c]
      BY <1>1, <2>2 DEF TypeOK, RegistryType
    <3>2. QED
      BY <1>1, <1>3, <3>1, KeptCarries DEF Live, Safe, OnItsWay
  <2>3. QED
    BY <2>1, <2>2
<1>4. QED
  BY <1>1, <1>3, EchoesKept

(* What a closed connection carried is nobody's business any more.         *)
LEMMA EchoesSourceCloses ==
    ASSUME IInv, TypeOK', NEW x \in Conns, SourceCloses(x)
    PROVE  EchoesSound'
<1>1. /\ UNCHANGED <<captures, lastSynced, seqOf, taken, rcv, out, task>>
      /\ registered' = registered \ {x}
      /\ \A c \in Conns \ {x} : cursor'[c] = cursor[c]
  BY DEF SourceCloses, dbVars, capVars, IInv, Core, TypeOK, CursorType
<1>2. ASSUME NEW c \in registered', NEW i \in Items, Wanted(PeerOf[c], i), c \in registered => Carries(c, i)
      PROVE  Carries(c, i)'
  <2>1. c \in registered /\ c \in Conns /\ cursor'[c] = cursor[c]
    BY <1>1 DEF IInv, Core, TypeOK, RegistryType
  <2>2. QED
    BY <1>1, <1>2, <2>1, KeptCarries DEF Live, Safe, OnItsWay
<1>3. QED
  BY <1>1, <1>2, EchoesKept

(* The page goes behind what is on its way.                                *)
LEMMA PageKeepsSafe ==
    ASSUME TypeOK, NEW c \in Conns, SendPage(c)
    PROVE  \A i \in Items : Safe(c, out[c], i) => Safe(c, out[c], i)'
<1> DEFINE page == Page(task[c].epoch, task[c].until, task[c].more)
<1>1. page \in Message /\ out[c] \in Seq(Message)
  <2>1. task[c].epoch \in Nat /\ task[c].until \in Nat /\ task[c].more \in BOOLEAN
    BY Ranges DEF Task
  <2>2. QED
    BY <2>1, MessageTypes, Ranges
<1>2. out'[c] = Append(out[c], page) /\ taken' = taken
  BY DEF SendPage, peerVars, TypeOK, QueueType
<1> HIDE DEF page
<1>3. \A i \in Items : OnItsWay(out[c], i) => OnItsWay(Append(out[c], page), i)
  BY <1>1, AppendKeeps
<1>4. QED
  BY <1>2, <1>3 DEF Safe, OnItsWay

(* A task that is yet to read its last page keeps everything ahead; the    *)
(* rows of that page go from the task to the queue.                        *)
LEMMA EchoesTask ==
    ASSUME IInv, TypeOK', NEW c \in Conns,
           \/ ReadCounter(c) \/ ReadPage(c) \/ CollectFails(c) \/ SendFails(c) \/ ReleaseTask(c)
           \/ SendRow(c) \/ SendPage(c) \/ SourceTakesRequest(c)
    PROVE  EchoesSound'
<1> TypeOK
  BY DEF IInv, Core
<1>1. /\ UNCHANGED <<captures, lastSynced, seqOf, registered, taken, rcv, cursor>>
      /\ \A d \in Conns \ {c} : task'[d] = task[d] /\ out'[d] = out[d]
  BY DEF ReadCounter, ReadPage, CollectFails, SendFails, ReleaseTask, SendRow, SendPage,
         SourceTakesRequest, dbVars, capVars, peerVars, TypeOK, TaskType, QueueType
<1>2. CASE ReadPage(c)
  <2>1. KeepsAhead(c) /\ out' = out
    BY <1>2, PageKeepsAhead DEF ReadPage
  <2>2. ASSUME NEW i \in Items, Wanted(PeerOf[c], i), Carries(c, i) PROVE Carries(c, i)'
    BY <1>1, <2>1, <2>2, KeptCarries DEF Live, Safe, OnItsWay
  <2>3. QED
    BY <1>1, <2>1, <2>2, EchoesOfOne
<1>3. CASE SendRow(c)
  <2>1. KeepsAhead(c) /\ \A i \in Items : Safe(c, out[c], i) => Safe(c, out[c], i)'
    BY <1>3, RowKeepsAhead
  <2>2. ASSUME NEW i \in Items, Wanted(PeerOf[c], i), Carries(c, i) PROVE Carries(c, i)'
    BY <1>1, <2>1, <2>2, KeptCarries DEF Live
  <2>3. QED
    BY <1>1, <2>2, EchoesOfOne
<1>4. CASE SendPage(c)
  <2>1. KeepsAhead(c)
    BY <1>4, LastKeepsAhead
  <2>2. \A i \in Items : Safe(c, out[c], i) => Safe(c, out[c], i)'
    BY <1>4, PageKeepsSafe
  <2>3. ASSUME NEW i \in Items, Wanted(PeerOf[c], i), Carries(c, i) PROVE Carries(c, i)'
    BY <1>1, <2>1, <2>2, <2>3, KeptCarries DEF Live
  <2>4. QED
    BY <1>1, <2>3, EchoesOfOne
<1>5. CASE ReadCounter(c) \/ CollectFails(c) \/ SendFails(c) \/ ReleaseTask(c) \/ SourceTakesRequest(c)
  <2>1. out' = out /\ (task'[c] = task[c] \/ task'[c].pc \in {"idle", "counter", "page", "release"})
    <3>1. CASE ReadCounter(c)
      BY <3>1 DEF ReadCounter, IdleTask, TypeOK, TaskType
    <3>2. CASE CollectFails(c) \/ SendFails(c) \/ ReleaseTask(c)
      BY <3>2 DEF CollectFails, SendFails, ReleaseTask, ReleasedTask, IdleTask, TypeOK, TaskType
    <3>3. CASE SourceTakesRequest(c)
      BY <3>3 DEF SourceTakesRequest, IdleTask, TypeOK, TaskType
    <3>4. QED
      BY <1>5, <3>1, <3>2, <3>3
  <2>2. task'[c] = task[c] \/ KeepsAhead(c)
    BY <2>1, AnyAhead
  <2>3. ASSUME NEW i \in Items, Wanted(PeerOf[c], i), Carries(c, i) PROVE Carries(c, i)'
    BY <1>1, <2>1, <2>2, <2>3, KeptCarries DEF Live, Safe, OnItsWay
  <2>4. QED
    BY <1>1, <2>1, <2>3, EchoesOfOne
<1>6. QED
  BY <1>2, <1>3, <1>4, <1>5

(* A confirmed cursor stays broken if it was, and a checkpoint goes behind *)
(* what is on its way.                                                     *)
LEMMA ConfirmKeeps ==
    ASSUME TypeOK, NEW c \in Conns, ConfirmCatchUp(c)
    PROVE  /\ \A i \in Items : ~ToSend(c, i)
           /\ c \in registered => cursor'[c].broken = cursor[c].broken
           /\ \A i \in Items : Safe(c, out[c], i) => Safe(c, out[c], i)'
<1>1. taken' = taken /\ task[c].pc = "confirm"
  BY DEF ConfirmCatchUp, peerVars
<1>2. PICK cur \in Cursor, queue \in Seq(Message) :
         /\ cur.broken = cursor[c].broken /\ queue = out[c]
         /\ c \in registered => out'[c] = WithCheckpoint(queue, cur) /\ cursor'[c] = Advance(cur)
         /\ c \notin registered => out' = out /\ cursor' = cursor
  <2> DEFINE cur == Confirm(cursor[c], task[c].epoch, task[c].until)
  <2>1. cur \in Cursor /\ cur.broken = cursor[c].broken
    <3>1. PICK before \in Cursor : before = cursor[c]
      BY Ranges
    <3>2. PICK e \in Nat, n \in Nat : e = task[c].epoch /\ n = task[c].until
      BY Ranges
    <3>3. Confirm(before, e, n) \in Cursor /\ Confirm(before, e, n).broken = before.broken
      BY ConfirmType DEF Confirm, Cursor
    <3>4. QED
      BY <3>1, <3>2, <3>3
  <2>2. /\ c \in registered => out'[c] = WithCheckpoint(out[c], cur) /\ cursor'[c] = Advance(cur)
        /\ c \notin registered => out' = out /\ cursor' = cursor
    BY DEF ConfirmCatchUp, TypeOK, QueueType, CursorType
  <2> HIDE DEF cur
  <2>3. QED
    BY <2>1, <2>2, Ranges
<1>3. c \in registered => cursor'[c].broken = cursor[c].broken
  BY <1>2, AdvanceProperties
<1>4. \A i \in Items : OnItsWay(out[c], i) => OnItsWay(out'[c], i)
  <2> DEFINE page == Page(cur.epoch, Advance(cur).until, FALSE)
  <2>1. page \in Message
    BY AdvanceProperties, MessageTypes DEF Cursor
  <2>2. WithCheckpoint(queue, cur) \in {queue, Append(queue, page)}
    BY DEF WithCheckpoint
  <2> HIDE DEF page
  <2>3. \A i \in Items : OnItsWay(queue, i) => OnItsWay(Append(queue, page), i)
    BY <2>1, AppendKeeps
  <2>4. QED
    BY <1>2, <2>2, <2>3
<1>5. QED
  BY <1>1, <1>3, <1>4 DEF Safe, OnItsWay, ToSend

(* A confirmed catch-up has nothing ahead any more: what it was to bring   *)
(* is safe.                                                                *)
LEMMA EchoesConfirm ==
    ASSUME IInv, TypeOK', NEW c \in Conns, ConfirmCatchUp(c)
    PROVE  EchoesSound'
<1> TypeOK
  BY DEF IInv, Core
<1>1. /\ UNCHANGED <<captures, lastSynced, seqOf, registered, taken, rcv>>
      /\ \A d \in Conns \ {c} : task'[d] = task[d] /\ out'[d] = out[d] /\ cursor'[d] = cursor[d]
      /\ task[c].pc = "confirm"
  BY DEF ConfirmCatchUp, dbVars, capVars, peerVars, TypeOK, TaskType, QueueType, CursorType
<1>2. \A i \in Items : ~Ahead(c, i)
  BY <1>1 DEF IInv, Core, AnswerSound, Ahead, LastPageAhead, ToSend
<1>3. ASSUME NEW i \in Items, Carries(c, i) PROVE Carries(c, i)'
  <2>1. cursor'[c].broken = cursor[c].broken
    BY ConfirmKeeps DEF ConfirmCatchUp
  <2>2. QED
    BY <1>1, <1>2, <1>3, <2>1, ConfirmKeeps DEF Carries, Brings, Live
<1>4. QED
  BY <1>1, <1>3, EchoesOfOne

(* A message that the peer takes is taken, or no push.                     *)
LEMMA TakingKeepsSafe ==
    ASSUME IInv, TypeOK', NEW c \in Conns, PeerTakesPush(c) \/ PeerTakesPage(c)
    PROVE  \A i \in Items : Safe(c, out[c], i) => Safe(c, out[c], i)'
<1> TypeOK
  BY DEF IInv, Core
<1>1. /\ out[c] # <<>> /\ out'[c] = Tail(out[c]) /\ rcv' = rcv
      /\ UNCHANGED <<epoch, counter, seqOf, waived, echoed>>
      /\ \A p \in Peers : taken[p] \subseteq taken'[p]
  BY DEF PeerTakesPush, PeerTakesPage, dbVars, ghosts, TypeOK, PeerType, QueueType
<1>2. Calm
  BY <1>1, SameRows
<1>3. \A i \in Items : Head(out[c]) = Push(i) => i \in taken'[PeerOf[c]]
  <2>1. PeerOf[c] \in Peers
    BY Ranges
  <2>2. QED
    BY <2>1 DEF PeerTakesPush, PeerTakesPage, Push, TypeOK, PeerType
<1>4. QED
  BY <1>1, <1>2, <1>3, TailSound DEF Live

(* The peer takes in what was on its way, or is no longer there.           *)
LEMMA EchoesPeer ==
    ASSUME IInv, TypeOK', NEW c \in Conns, PeerStep(c)
    PROVE  EchoesSound'
<1> TypeOK
  BY DEF IInv, Core
<1>1. /\ UNCHANGED <<captures, lastSynced, seqOf, registered, task, cursor>>
      /\ \A d \in Conns \ {c} : rcv'[d] = rcv[d] /\ out'[d] = out[d]
      /\ \A p \in Peers : taken[p] \subseteq taken'[p]
  BY DEF PeerStep, PeerOpens, PeerCloses, PeerTakesPush, PeerFailsPush, PeerTakesPage,
         dbVars, capVars, srcVars, TypeOK, PeerType, QueueType
<1>2. CASE PeerOpens(c) \/ PeerCloses(c) \/ PeerFailsPush(c)
  <2>1. Live(c)' => Live(c) /\ out' = out
    BY <1>2 DEF PeerOpens, PeerCloses, PeerFailsPush, Live, srcVars, TypeOK, PeerType
  <2>2. ASSUME NEW i \in Items, Carries(c, i) PROVE Carries(c, i)'
    <3>1. CASE Live(c)'
      <4>1. Safe(c, out[c], i) => Safe(c, out[c], i)'
        <5>1. PeerOf[c] \in Peers
          BY Ranges
        <5>2. QED
          BY <1>1, <2>1, <3>1, <5>1 DEF Safe, OnItsWay
      <4>2. Ahead(c, i)' = Ahead(c, i)
        BY <1>1 DEF Ahead, LastPageAhead, ToSend
      <4>3. QED
        BY <1>1, <2>1, <2>2, <3>1, <4>1, <4>2 DEF Carries, Brings
    <3>2. CASE ~Live(c)'
      BY <3>2 DEF Carries
    <3>3. QED
      BY <3>1, <3>2
  <2>3. QED
    BY <1>1, <2>2, EchoesOfOne
<1>3. CASE PeerTakesPush(c) \/ PeerTakesPage(c)
  <2>1. rcv' = rcv
    BY <1>3 DEF PeerTakesPush, PeerTakesPage
  <2>2. \A i \in Items : Safe(c, out[c], i) => Safe(c, out[c], i)'
    BY <1>3, TakingKeepsSafe
  <2>3. ASSUME NEW i \in Items, Wanted(PeerOf[c], i), Carries(c, i) PROVE Carries(c, i)'
    BY <1>1, <2>1, <2>2, <2>3, KeptCarries DEF Live
  <2>4. QED
    BY <1>1, <2>3, EchoesOfOne
<1>4. QED
  BY <1>2, <1>3 DEF PeerStep

(* Every step keeps the filter's content promised.                         *)
LEMMA EchoesStep == IInv /\ [Next]_vars => EchoesSound'
<1> SUFFICES ASSUME IInv, [Next]_vars PROVE EchoesSound'
  OBVIOUS
<1>1. TypeOK'
  BY TypeStep DEF IInv, Core
<1>2. CASE CaptureStep
  <2>1. ASSUME NEW i \in Items, DeleteRow(i) \/ AgeRow(i) PROVE EchoesSound'
    BY <2>1 DEF DeleteRow, AgeRow, EchoesSound, Steady
  <2>2. QED
    BY <1>1, <1>2, <2>1, EchoesCapture, EchoesFromPeer DEF CaptureStep
<1>3. CASE SendStep
  BY <1>1, <1>3, EchoesOnLocalCapture, EchoesDeliver, EchoesDeliverFailed DEF SendStep
<1>4. ASSUME NEW c \in Conns, TaskStepOf(c) \/ SourceStep(c) PROVE EchoesSound'
  BY <1>1, <1>4, EchoesTask, EchoesConfirm, EchoesSourceOpens, EchoesSourceCloses
     DEF TaskStepOf, SourceStep
<1>5. CASE Restart \/ RestartRebuilt
  BY <1>5 DEF Restart, RestartRebuilt, Forget, EchoesSound
<1>6. CASE UNCHANGED vars
  <2>1. ASSUME NEW c \in registered', NEW i \in Items, Wanted(PeerOf[c], i), c \in registered => Carries(c, i)
        PROVE  Carries(c, i)'
    BY <1>6, <2>1 DEF vars, srcVars, peerVars, Carries, Brings, Safe, OnItsWay, Live, Ahead,
                      LastPageAhead, ToSend
  <2>2. QED
    BY <1>1, <1>6, <2>1, EchoesKept DEF vars, dbVars, capVars, peerVars
<1>7. QED
  BY <1>1, <1>2, <1>3, <1>4, <1>5, <1>6, EchoesPeer DEF Next

(***************************************************************************)
(* The invariant is inductive                                              *)
(***************************************************************************)

(* A connection that has not begun has no task; where the rows stay, a     *)
(* stored row is there to be numbered and nothing is passed over.          *)
LEMMA GroundsStep == IInv /\ [Next]_vars => Grounds'
<1> SUFFICES ASSUME IInv, [Next]_vars PROVE Grounds'
  OBVIOUS
<1> TypeOK
  BY DEF IInv, Core
<1>1. ASSUME NEW c \in Conns, src'[c] = "new" PROVE task'[c].pc = "idle"
  <2> TypeOK'
    BY TypeStep
  <2>1. src[c] = "new" => task[c].pc = "idle"
    BY DEF IInv, Grounds
  <2>2. CASE CaptureStep
    BY <1>1, <2>1, <2>2 DEF CaptureStep, StoreCapture, NumberCapture, NumberFails, DeleteRow, AgeRow,
       TakeFromPeer, srcVars
  <2>3. CASE SendStep
    BY <1>1, <2>1, <2>3 DEF SendStep, OnLocalCapture, Deliver, DeliverFailed
  <2>4. ASSUME NEW d \in Conns, TaskStepOf(d) PROVE task'[c].pc = "idle"
    <3>1. src' = src /\ (d # c => task'[c] = task[c])
      BY <2>4 DEF TaskStepOf, ReadCounter, ReadPage, CollectFails, SendRow, SendPage, SendFails,
         ConfirmCatchUp, ReleaseTask, TypeOK, TaskType
    <3>2. task[d].pc # "idle"
      BY <2>4 DEF TaskStepOf, ReadCounter, ReadPage, CollectFails, SendRow, SendPage, SendFails,
         ConfirmCatchUp, ReleaseTask
    <3>3. QED
      BY <1>1, <2>1, <3>1, <3>2
  <2>5. ASSUME NEW d \in Conns, SourceStep(d) PROVE task'[c].pc = "idle"
    <3>1. src[c] = "new"
      BY <1>1, <2>5 DEF SourceStep, SourceOpens, SourceCloses, SourceTakesRequest, TypeOK, RegistryType
    <3>2. task'[c] = task[c]
      BY <2>5, <3>1 DEF SourceStep, SourceOpens, SourceCloses, SourceTakesRequest, TypeOK, TaskType
    <3>3. QED
      BY <2>1, <3>1, <3>2
  <2>6. ASSUME NEW d \in Conns, PeerStep(d) PROVE task'[c].pc = "idle"
    BY <1>1, <2>1, <2>6 DEF PeerStep, PeerOpens, PeerCloses, PeerTakesPush, PeerFailsPush, PeerTakesPage,
       srcVars
  <2>7. CASE Restart \/ RestartRebuilt
    BY <2>7 DEF Restart, RestartRebuilt, Forget, IdleTask
  <2>8. CASE UNCHANGED vars
    BY <1>1, <2>1, <2>8 DEF vars, srcVars
  <2>9. QED
    BY <2>2, <2>3, <2>4, <2>5, <2>6, <2>7, <2>8 DEF Next
<1>2. ASSUME Steady
      PROVE  /\ stale' = {} /\ \A p \in Peers : waived'[p] = {}
             /\ stored' \subseteq rows'
             /\ \A e \in numbered' : seqOf'[e.item] > 0
  <2>1. /\ stale = {} /\ \A p \in Peers : waived[p] = {}
        /\ stored \subseteq rows
        /\ \A e \in numbered : seqOf[e.item] > 0
    BY <1>2 DEF IInv, Grounds
  <2>2. CASE CaptureStep
    <3>1. ASSUME NEW x \in Items, StoreCapture(x)
          PROVE  /\ stale' = {} /\ \A p \in Peers : waived'[p] = {}
                 /\ stored' \subseteq rows' /\ \A e \in numbered' : seqOf'[e.item] > 0
      BY <2>1, <3>1 DEF StoreCapture, ghosts
    <3>2. ASSUME NEW x \in Items, NumberCapture(x)
          PROVE  /\ stale' = {} /\ \A p \in Peers : waived'[p] = {}
                 /\ stored' \subseteq rows' /\ \A e \in numbered' : seqOf'[e.item] > 0
      <4>1. /\ seqOf'[x] = counter + 1 /\ \A i \in Items \ {x} : seqOf'[i] = seqOf[i]
            /\ counter \in Nat /\ \A e \in numbered : e.item \in Items
        BY <3>2, Ranges DEF NumberCapture, TypeOK, DatabaseType, CaptureType, Capture
      <4>2. \A e \in numbered' : seqOf'[e.item] > 0
        BY <2>1, <3>2, <4>1 DEF NumberCapture
      <4>3. QED
        BY <2>1, <3>2, <4>2 DEF NumberCapture
    <3>3. ASSUME NEW x \in Items, NumberFails(x) \/ DeleteRow(x) \/ AgeRow(x) PROVE FALSE
      BY <1>2, <2>1, <3>3 DEF NumberFails, DeleteRow, AgeRow, Steady
    <3>4. ASSUME NEW p \in Peers, NEW x \in Items, TakeFromPeer(p, x)
          PROVE  /\ stale' = {} /\ \A q \in Peers : waived'[q] = {}
                 /\ stored' \subseteq rows' /\ \A e \in numbered' : seqOf'[e.item] > 0
      BY <2>1, <3>4 DEF TakeFromPeer, ghosts
    <3>5. QED
      BY <2>2, <3>1, <3>2, <3>3, <3>4 DEF CaptureStep
  <2>3. CASE SendStep
    BY <2>1, <2>3 DEF SendStep, OnLocalCapture, Deliver, DeliverFailed, dbVars, ghosts
  <2>4. ASSUME NEW c \in Conns, ReadPage(c)
        PROVE  /\ stale' = {} /\ \A p \in Peers : waived'[p] = {}
               /\ stored' \subseteq rows' /\ \A e \in numbered' : seqOf'[e.item] > 0
    <3>1. PICK until : waived' = [waived EXCEPT ![PeerOf[c]] = @ \cup PassedOver(task[c].after, until)]
      BY <2>4 DEF ReadPage
    <3>2. PassedOver(task[c].after, until) = {}
      BY <1>2, <2>1, NothingPassedOver
    <3>3. \A p \in Peers : waived'[p] = {}
      BY <2>1, <3>1, <3>2 DEF TypeOK, GhostType
    <3>4. QED
      BY <2>1, <2>4, <3>3 DEF ReadPage, dbVars, capVars
  <2>5. ASSUME NEW c \in Conns, TaskStepOf(c) \/ SourceStep(c) \/ PeerStep(c), ~ReadPage(c)
        PROVE  UNCHANGED <<stale, waived, stored, rows, numbered, seqOf>>
    BY <2>5 DEF TaskStepOf, ReadCounter, CollectFails, SendRow, SendPage, SendFails,
       ConfirmCatchUp, ReleaseTask, SourceStep, SourceOpens, SourceCloses, SourceTakesRequest,
       PeerStep, PeerOpens, PeerCloses, PeerTakesPush, PeerFailsPush, PeerTakesPage,
       dbVars, capVars, ghosts
  <2>6. CASE Restart \/ RestartRebuilt
    BY <2>1, <2>6 DEF Restart, RestartRebuilt, Forget, dbVars, ghosts
  <2>7. CASE UNCHANGED vars
    BY <2>1, <2>7 DEF vars, dbVars, capVars, ghosts
  <2>8. QED
    BY <2>1, <2>2, <2>3, <2>4, <2>5, <2>6, <2>7 DEF Next
<1>3. QED
  BY <1>1, <1>2 DEF Grounds

(* At first there is nothing to remember or to promise.                    *)
LEMMA InitGrounds == Init => Grounds /\ EchoesSound
BY DEF Init, Grounds, EchoesSound, IdleTask

(* Every step of the protocol keeps the whole invariant.                   *)
LEMMA Inductive == IInv /\ [Next]_vars => IInv'
BY CoreStep, GroundsStep, EchoesStep DEF IInv

(* The properties are part of what the invariant says of each watermark    *)
(* and each live cursor.                                                   *)
LEMMA WatermarksKeepPromise == IInv => WatermarkSound
BY DEF IInv, Core, WatermarksHold, WatermarkSound, Owed, Due, ExemptFor, Wanted, Excused

LEMMA CursorsKeepPromise == IInv => CursorSound
BY DEF IInv, Core, LiveCursorSound, CursorSound, Live, Owed, Safe, Due, ExemptFor, Wanted, Excused

(* Within an epoch a watermark never falls.                                *)
LEMMA MonotoneStep ==
    ASSUME TypeOK, [Next]_vars, NEW p \in Peers, wm'[p].epoch = wm[p].epoch
    PROVE  wm'[p].seq >= wm[p].seq
<1>1. wm[p].seq \in Nat
  BY Ranges
<1>2. ASSUME NEW c \in Conns, PeerTakesPage(c) PROVE wm'[p].seq >= wm[p].seq
  <2>1. PICK page \in Message : page = Head(out[c]) /\ page.type = "page"
    <3>1. out[c] \in Seq(Message) /\ out[c] # <<>>
      BY <1>2, Ranges DEF PeerTakesPage
    <3>2. QED
      BY <1>2, <3>1 DEF PeerTakesPage
  <2>2. page.epoch \in Nat /\ page.until \in Nat
    BY <2>1 DEF Message
  <2>3. PICK mark \in [epoch : Nat, seq : Nat] : mark = wm[p]
    BY Ranges
  <2>4. CASE p # PeerOf[c]
    BY <1>1, <1>2, <2>4 DEF PeerTakesPage, TypeOK, PeerType
  <2>5. CASE p = PeerOf[c]
    <3>1. wm'[p] = AdvancedWatermark(mark, page.epoch, page.until)
      BY <1>2, <2>1, <2>3, <2>5 DEF PeerTakesPage, TypeOK, PeerType
    <3>2. QED
      BY <2>2, <2>3, <3>1 DEF AdvancedWatermark
  <2>6. QED
    BY <2>4, <2>5
<1>3. CASE ~ \E c \in Conns : PeerTakesPage(c)
  <2>1. wm' = wm
    BY <1>3 DEF vars, peerVars, Next, CaptureStep, StoreCapture, NumberCapture, NumberFails, DeleteRow,
       AgeRow, TakeFromPeer, SendStep, OnLocalCapture, Deliver, DeliverFailed, TaskStepOf, ReadCounter,
       ReadPage, CollectFails, SendRow, SendPage, SendFails, ConfirmCatchUp, ReleaseTask, SourceStep,
       SourceOpens, SourceCloses, SourceTakesRequest, PeerStep, PeerOpens, PeerCloses, PeerTakesPush,
       PeerFailsPush, Restart, RestartRebuilt, Forget
  <2>2. QED
    BY <1>1, <2>1
<1>4. QED
  BY <1>2, <1>3

(***************************************************************************)
(* Catch-up and live pushes leave no gap between them                      *)
(***************************************************************************)

(* What the properties call due, the invariant calls wanted.               *)
LEMMA DueIsWanted ==
    ASSUME NEW p, NEW i \in Items, Due(p, i)
    PROVE  Wanted(p, i) /\ Kind[i] = "plain" /\ i \notin echoed /\ i \notin waived[p]
BY DEF Due, ExemptFor, Wanted, Excused

(* Where the connections stay as they are, only a row that was due before  *)
(* or has its capture under way may be due.                                *)
LEMMA AttendedByCaptures ==
    ASSUME IInv, AllAttended, UNCHANGED <<registered, rcv, out, task, cursor>>,
           \A p \in Peers : taken[p] \subseteq taken'[p],
           \A p \in Peers, i \in Items : Due(p, i)' =>
              \/ Underway(i)'
              \/ Due(p, i) /\ seqOf'[i] = seqOf[i] /\ (Underway(i) => Underway(i)')
    PROVE  AllAttended'
<1> SUFFICES ASSUME NEW c \in registered, Live(c)', ~cursor'[c].broken, NEW i \in Items,
                    Due(PeerOf[c], i)', ~Underway(i)'
             PROVE  Attended(c, i)'
  BY DEF AllAttended, Attended
<1>1. c \in Conns /\ PeerOf[c] \in Peers
  BY PeerOfAssumption DEF IInv, Core, TypeOK, RegistryType
<1>2. Due(PeerOf[c], i) /\ seqOf'[i] = seqOf[i] /\ ~Underway(i)
  BY <1>1
<1>3. Safe(c, out[c], i) \/ CatchUpBrings(c, i)
  BY <1>2 DEF AllAttended, Attended, Live
<1>4. Safe(c, out[c], i) => Safe(c, out[c], i)'
  BY <1>1 DEF Safe, OnItsWay
<1>5. CatchUpBrings(c, i) => CatchUpBrings(c, i)'
  BY <1>2 DEF CatchUpBrings, LastPageAhead, ToSend
<1>6. QED
  BY <1>3, <1>4, <1>5 DEF Attended

(* Where nothing happens but to one connection, the others go on.          *)
LEMMA AttendedByOne ==
    ASSUME IInv, AllAttended, UNCHANGED <<seqOf, numbered, captures, registered, echoed>>,
           \A p \in Peers : taken[p] \subseteq taken'[p] /\ waived[p] \subseteq waived'[p],
           NEW c \in Conns, Live(c)' => Live(c), cursor[c].broken => cursor'[c].broken,
           \A d \in Conns \ {c} : UNCHANGED <<rcv[d], out[d], task[d], cursor[d]>>,
           \A i \in Items :
              (c \in registered /\ Live(c)' /\ Due(PeerOf[c], i)' /\ Due(PeerOf[c], i)) =>
                 /\ Safe(c, out[c], i) => Safe(c, out[c], i)'
                 /\ CatchUpBrings(c, i) => Safe(c, out[c], i)' \/ CatchUpBrings(c, i)'
    PROVE  AllAttended'
<1> SUFFICES ASSUME NEW d \in registered, Live(d)', ~cursor'[d].broken, NEW i \in Items,
                    Due(PeerOf[d], i)'
             PROVE  Attended(d, i)'
  BY DEF AllAttended
<1>1. d \in Conns /\ PeerOf[d] \in Peers
  BY PeerOfAssumption DEF IInv, Core, TypeOK, RegistryType
<1>2. Due(PeerOf[d], i)
  BY <1>1 DEF Due, ExemptFor
<1>3. Underway(i) => Underway(i)'
  BY DEF Underway
<1>4. CASE d = c
  <2>1. Attended(c, i)
    BY <1>2, <1>4 DEF AllAttended
  <2>2. QED
    BY <1>2, <1>3, <1>4, <2>1 DEF Attended
<1>5. CASE d # c
  <2>1. UNCHANGED <<rcv[d], out[d], task[d], cursor[d]>>
    BY <1>1, <1>5
  <2>2. Attended(d, i)
    BY <1>2, <2>1 DEF AllAttended, Live
  <2>3. Safe(d, out[d], i) => Safe(d, out[d], i)'
    BY <1>1, <2>1 DEF Safe, OnItsWay
  <2>4. CatchUpBrings(d, i) => CatchUpBrings(d, i)'
    BY <2>1 DEF CatchUpBrings, LastPageAhead, ToSend
  <2>5. QED
    BY <1>3, <2>2, <2>3, <2>4 DEF Attended
<1>6. QED
  BY <1>4, <1>5

(* A row that takes a number has its capture under way from then on; the   *)
(* other steps of the database make nothing due.                           *)
LEMMA AttendedDatabase ==
    ASSUME IInv, AllAttended, CaptureStep
    PROVE  AllAttended'
<1> TypeOK
  BY DEF IInv, Core
<1>1. /\ UNCHANGED <<registered, rcv, out, task, cursor, captures>>
      /\ \A p \in Peers : taken[p] \subseteq taken'[p]
  BY DEF CaptureStep, StoreCapture, NumberCapture, NumberFails, DeleteRow, AgeRow, TakeFromPeer,
         capVars, srcVars, peerVars, TypeOK, PeerType
<1>2. CASE \E x \in Items : StoreCapture(x) \/ AgeRow(x) \/ NumberFails(x)
  <2>1. UNCHANGED <<seqOf, waived, echoed>> /\ numbered \subseteq numbered'
    BY <1>2 DEF StoreCapture, AgeRow, NumberFails, dbVars, capVars, ghosts
  <2>2. QED
    BY <1>1, <2>1, AttendedByCaptures DEF Due, ExemptFor, Underway
<1>3. CASE \E p \in Peers, x \in Items : TakeFromPeer(p, x)
  <2>1. UNCHANGED <<seqOf, waived, echoed, numbered>>
    BY <1>3 DEF TakeFromPeer, ghosts
  <2>2. QED
    BY <1>1, <2>1, AttendedByCaptures DEF Due, ExemptFor, Underway
<1>4. ASSUME NEW x \in Items, DeleteRow(x) PROVE AllAttended'
  <2>1. /\ UNCHANGED <<waived, echoed, numbered>>
        /\ seqOf'[x] = 0 /\ \A i \in Items \ {x} : seqOf'[i] = seqOf[i]
    BY <1>4 DEF DeleteRow, capVars, ghosts, TypeOK, DatabaseType
  <2>2. ASSUME NEW p \in Peers, NEW i \in Items, Due(p, i)'
        PROVE  Due(p, i) /\ seqOf'[i] = seqOf[i] /\ (Underway(i) => Underway(i)')
    <3>1. i # x
      BY <2>1, <2>2 DEF Due
    <3>2. QED
      BY <1>1, <2>1, <2>2, <3>1 DEF Due, ExemptFor, Underway
  <2>3. QED
    BY <1>1, <2>2, AttendedByCaptures
<1>5. ASSUME NEW x \in Items, NumberCapture(x) PROVE AllAttended'
  <2> DEFINE e == [item |-> x, seq |-> counter + 1, send |-> FALSE]
  <2>1. /\ seqOf'[x] = counter + 1 /\ numbered' = numbered \cup {e}
        /\ echoed' = echoed \ {x} /\ \A p \in Peers : waived'[p] = waived[p] \ {x}
        /\ \A i \in Items \ {x} : seqOf'[i] = seqOf[i]
    BY <1>5 DEF NumberCapture, TypeOK, DatabaseType
  <2>2. Underway(x)'
    <3>1. e \in numbered' /\ e.item = x /\ e.seq = seqOf'[x]
      BY <2>1
    <3> HIDE DEF e
    <3>2. QED
      BY <3>1 DEF Underway
  <2>3. ASSUME NEW p \in Peers, NEW i \in Items \ {x}, Due(p, i)'
        PROVE  Due(p, i) /\ seqOf'[i] = seqOf[i] /\ (Underway(i) => Underway(i)')
    BY <1>1, <2>1, <2>3 DEF Due, ExemptFor, Underway
  <2>4. QED
    BY <1>1, <2>2, <2>3, AttendedByCaptures
<1>6. QED
  BY <1>2, <1>3, <1>4, <1>5 DEF CaptureStep

(* Where every live cursor is broken nothing is claimed.                   *)
LEMMA BrokenAttended ==
    ASSUME TypeOK, BreakRegistered, registered' = registered
    PROVE  AllAttended'
BY DEF BreakRegistered, AllAttended, TypeOK, RegistryType, CursorType, Cursor

(* A capture goes on to the queue, or is an echo, or breaks the cursors.   *)
LEMMA AttendedOnLocalCapture ==
    ASSUME IInv, AllAttended, NEW cap \in numbered, OnLocalCapture(cap)
    PROVE  AllAttended'
<1> TypeOK
  BY DEF IInv, Core
<1>1. /\ UNCHANGED <<registered, rcv, out, task, seqOf, waived, taken>>
      /\ numbered' = numbered \ {cap} /\ cap \in Capture /\ captures \in Seq(Capture)
  BY DEF OnLocalCapture, dbVars, peerVars, TypeOK, CaptureType
<1>2. CASE registered = {}
  BY <1>1, <1>2 DEF AllAttended
<1>3. CASE registered # {}
  <2>1. PICK echo \in BOOLEAN, send \in BOOLEAN :
           /\ send = (Syncable(cap.item) /\ ~echo)
           /\ echoed' = IF echo /\ seqOf[cap.item] = cap.seq THEN echoed \cup {cap.item} ELSE echoed
           /\ Enqueue([cap EXCEPT !.send = send])
    BY <1>3 DEF OnLocalCapture
  <2>2. PICK e \in Capture : e = [cap EXCEPT !.send = send] /\ e.item = cap.item /\ e.send = send
    <3> DEFINE r == [cap EXCEPT !.send = send]
    <3>1. r \in Capture /\ r.item = cap.item /\ r.send = send
      BY <1>1 DEF Capture
    <3> HIDE DEF r
    <3>2. QED
      BY <3>1 DEF r
  <2>3. CASE BreakRegistered
    BY <1>1, <2>3, BrokenAttended
  <2>4. CASE captures' = Append(captures, e) /\ cursor' = cursor
    <3>1. /\ Len(captures') = Len(captures) + 1
          /\ \A k \in 1 .. Len(captures) : captures'[k] = captures[k] /\ k \in 1 .. Len(captures')
          /\ captures'[Len(captures')] = e /\ Len(captures') \in 1 .. Len(captures')
      BY <1>1, <2>4
    <3>2. ASSUME NEW p \in Peers, NEW i \in Items, Due(p, i)', Underway(i) PROVE Underway(i)'
      <4>1. CASE \E k \in 1 .. Len(captures) : captures[k].send /\ captures[k].item = i
        BY <3>1, <4>1 DEF Underway
      <4>2. CASE \E n \in numbered \ {cap} : n.item = i /\ n.seq = seqOf[i]
        BY <1>1, <4>2 DEF Underway
      <4>3. CASE cap.item = i /\ cap.seq = seqOf[i]
        <5>1. i \notin echoed' /\ Syncable(i)
          BY <3>2 DEF Due, ExemptFor, Syncable
        <5>2. e.send /\ e.item = i
          BY <2>1, <2>2, <4>3, <5>1
        <5>3. QED
          BY <3>1, <5>2 DEF Underway
      <4>4. QED
        BY <3>2, <4>1, <4>2, <4>3 DEF Underway
    <3>3. ASSUME NEW p \in Peers, NEW i \in Items, Due(p, i)' PROVE Due(p, i)
      BY <1>1, <2>1, <3>3 DEF Due, ExemptFor
    <3>4. QED
      BY <1>1, <2>4, <3>2, <3>3, AttendedByCaptures
  <2>5. QED
    BY <2>1, <2>2, <2>3, <2>4 DEF Enqueue
<1>4. QED
  BY <1>2, <1>3

(* A delivered capture is on its way on every connection that did not      *)
(* drop it.                                                                *)
LEMMA AttendedDeliver ==
    ASSUME IInv, AllAttended, Deliver
    PROVE  AllAttended'
<1> TypeOK
  BY DEF IInv, Core
<1>1. /\ UNCHANGED <<seqOf, numbered, registered, rcv, task, waived, echoed>>
      /\ captures # <<>> /\ captures' = Tail(captures) /\ captures \in Seq(Capture)
  BY DEF Deliver, dbVars, peerVars, ghosts, TypeOK, CaptureType
<1>2. PICK cap \in Capture : cap = Head(captures)
  BY <1>1
<1>3. \A k \in 1 .. Len(captures) :
         IF k = 1 THEN captures[k] = cap
                  ELSE k - 1 \in 1 .. Len(captures') /\ captures'[k - 1] = captures[k]
  BY <1>1, <1>2
<1> SUFFICES ASSUME NEW c \in registered, Live(c), ~cursor'[c].broken, NEW i \in Items,
                    Due(PeerOf[c], i)
             PROVE  Attended(c, i)'
  BY <1>1 DEF AllAttended, Live, Due, ExemptFor
<1>4. /\ cursor'[c].known = cursor[c].known /\ ~cursor[c].broken
      /\ Travels(cap) => Safe(c, out[c], cap.item)'
      /\ Safe(c, out[c], i) => Safe(c, out[c], i)'
  BY <1>2, EachDelivered
<1>5. Attended(c, i)
  BY <1>4 DEF AllAttended
<1>6. CASE Safe(c, out[c], i)
  BY <1>4, <1>6 DEF Attended
<1>7. CASE CatchUpBrings(c, i)
  BY <1>1, <1>4, <1>7 DEF Attended, CatchUpBrings, LastPageAhead, ToSend
<1>8. CASE Underway(i)
  <2>1. CASE \E e \in numbered : e.item = i /\ e.seq = seqOf[i]
    BY <1>1, <2>1 DEF Attended, Underway
  <2>2. CASE \E k \in 1 .. Len(captures) : captures[k].send /\ captures[k].item = i
    <3>1. PICK k \in 1 .. Len(captures) : captures[k].send /\ captures[k].item = i
      BY <2>2
    <3>2. CASE k = 1
      <4>1. Travels(cap) /\ cap.item = i
        BY <1>3, <3>1, <3>2, DueIsWanted DEF Travels
      <4>2. QED
        BY <1>4, <4>1 DEF Attended
    <3>3. CASE k # 1
      BY <1>3, <3>1, <3>3 DEF Attended, Underway
    <3>4. QED
      BY <3>2, <3>3
  <2>3. QED
    BY <1>8, <2>1, <2>2 DEF Underway
<1>9. QED
  BY <1>5, <1>6, <1>7, <1>8 DEF Attended

(* A new connection has its whole catch-up ahead; a closed one is nobody's *)
(* business any more.                                                      *)
LEMMA AttendedSource ==
    ASSUME IInv, AllAttended, NEW x \in Conns, SourceOpens(x) \/ SourceCloses(x)
    PROVE  AllAttended'
<1> TypeOK
  BY DEF IInv, Core
<1>1. /\ UNCHANGED <<captures, numbered, seqOf, taken, rcv, out, task, waived, echoed>>
      /\ registered' \subseteq registered \cup {x}
      /\ \A c \in registered' \ {x} : cursor'[c] = cursor[c]
  BY DEF SourceOpens, SourceCloses, dbVars, capVars, peerVars, ghosts, TypeOK, RegistryType, CursorType
<1> SUFFICES ASSUME NEW c \in registered', Live(c), ~cursor'[c].broken, NEW i \in Items,
                    Due(PeerOf[c], i)
             PROVE  Attended(c, i)'
  BY <1>1 DEF AllAttended, Live, Due, ExemptFor
<1>2. CASE c = x
  <2>1. SourceOpens(x) /\ src[x] = "new" /\ x \notin registered
    BY <1>2 DEF SourceOpens, SourceCloses, TypeOK, RegistryType
  <2>2. task'[x].pc = "idle" /\ ~cursor'[x].known
    BY <1>1, <2>1 DEF SourceOpens, IInv, Grounds, FreshCursor, TypeOK, RegistryType
  <2>3. QED
    BY <1>2, <2>2 DEF Attended, CatchUpBrings, LastPageAhead
<1>3. CASE c # x
  <2>1. c \in registered /\ cursor'[c] = cursor[c]
    BY <1>1, <1>3
  <2>2. Attended(c, i)
    BY <2>1 DEF AllAttended
  <2>3. QED
    BY <1>1, <2>1, <2>2 DEF Attended, Safe, OnItsWay, Underway, CatchUpBrings, LastPageAhead, ToSend
<1>4. QED
  BY <1>2, <1>3

(* The last page holds each row due that had its number when the counter   *)
(* was read; the rest are captures under way.                              *)
LEMMA PageBrings ==
    ASSUME IInv, TypeOK', NEW c \in Conns, ReadPage(c),
           NEW i \in Items, Due(PeerOf[c], i)', Due(PeerOf[c], i), CatchUpBrings(c, i)
    PROVE  Safe(c, out[c], i)' \/ CatchUpBrings(c, i)'
<1> TypeOK /\ NumbersSound
  BY DEF IInv, Core
<1>1. PICK after \in Nat, count \in Nat : after = task[c].after /\ count = task[c].counter
  BY Ranges
<1> DEFINE more == PageRows(after) # Window(after)
           todo == {[item |-> j, seq |-> seqOf[j]] : j \in {k \in PageRows(after) : Kind[k] = "plain"}}
<1>2. PeerOf[c] \in Peers /\ counter \in Nat /\ seqOf[i] \in Nat
  BY Ranges
<1>3. PICK last \in Nat :
         /\ IsLast(after, last)
         /\ task'[c].pc = "send" /\ task'[c].more = more /\ task'[c].todo = todo
         /\ waived'[PeerOf[c]] =
               waived[PeerOf[c]] \cup PassedOver(after, IF more THEN last ELSE Larger(count, last))
  <2>1. PICK last \in 0 .. Larger(counter, after) :
           LET until == IF more THEN last ELSE Larger(count, last)
           IN  /\ IsLast(after, last)
               /\ task' = [task EXCEPT ![c] = [IdleTask EXCEPT !.pc = "send", !.epoch = task[c].epoch,
                                                              !.todo = todo, !.until = until,
                                                              !.more = more]]
               /\ waived' = [waived EXCEPT ![PeerOf[c]] = @ \cup PassedOver(after, until)]
    BY <1>1 DEF ReadPage
  <2>2. last \in Nat
    BY <1>2 DEF Larger
  <2> HIDE DEF todo
  <2>3. QED
    BY <1>2, <2>1, <2>2 DEF IdleTask, TypeOK, TaskType, GhostType
<1>4. /\ task[c].pc = "page" /\ UNCHANGED <<taken, out, cursor>>
      /\ RequestSound(PeerOf[c], after, epoch)
      /\ ~cursor[c].known /\ seqOf[i] <= count
  BY <1>1, <1>2 DEF ReadPage, peerVars, CatchUpBrings, IInv, Core, AnswerSound, RequestSound
<1>5. CASE more
  BY <1>3, <1>4, <1>5 DEF CatchUpBrings, LastPageAhead
<1>6. CASE ~more
  <2>1. CASE seqOf[i] <= after
    <3>1. i \in taken[PeerOf[c]]
      BY <1>4, <2>1, DueIsWanted DEF RequestSound, Owed
    <3>2. QED
      BY <1>4, <3>1 DEF Safe
  <2>2. CASE seqOf[i] > after
    <3>1. PICK until \in Nat : until = Larger(count, last) /\ seqOf[i] <= until
      BY <1>2, <1>4 DEF Larger
    <3>2. i \notin PassedOver(after, until) /\ Kind[i] = "plain"
      BY <1>3, <1>6, <3>1 DEF Due, ExemptFor
    <3>3. i \in PageRows(after)
      BY <1>3, <1>6, <2>2, <3>1, <3>2, OnThePage
    <3>4. [item |-> i, seq |-> seqOf[i]] \in todo
      BY <3>2, <3>3
    <3>5. ToSend(c, i)'
      <4> HIDE DEF todo
      <4>1. \E row \in todo : row.item = i
        BY <3>4
      <4>2. QED
        BY <1>3, <4>1 DEF ToSend
    <3>6. QED
      BY <1>3, <1>4, <3>5 DEF CatchUpBrings
  <2>3. QED
    BY <1>2, <2>1, <2>2
<1>7. QED
  BY <1>5, <1>6

(* The steps of an answer.                                                 *)
LEMMA AttendedTask ==
    ASSUME IInv, AllAttended, TypeOK', NEW c \in Conns, TaskStepOf(c) \/ SourceTakesRequest(c)
    PROVE  AllAttended'
<1> TypeOK
  BY DEF IInv, Core
<1>1. /\ UNCHANGED <<seqOf, numbered, captures, registered, taken, rcv, echoed>>
      /\ \A d \in Conns \ {c} : UNCHANGED <<rcv[d], out[d], task[d], cursor[d]>>
      /\ Live(c)' = Live(c)
  BY DEF TaskStepOf, ReadCounter, ReadPage, CollectFails, SendRow, SendPage, SendFails, ConfirmCatchUp,
         ReleaseTask, SourceTakesRequest, dbVars, capVars, peerVars, ghosts, Live,
         TypeOK, TaskType, QueueType, CursorType
<1>2. CASE ReadPage(c)
  <2>1. /\ out' = out /\ cursor' = cursor
        /\ \A p \in Peers : waived[p] \subseteq waived'[p]
    BY <1>2 DEF ReadPage, TypeOK, GhostType
  <2>2. \A i \in Items : (Due(PeerOf[c], i)' /\ Due(PeerOf[c], i)) =>
           /\ Safe(c, out[c], i) => Safe(c, out[c], i)'
           /\ CatchUpBrings(c, i) => Safe(c, out[c], i)' \/ CatchUpBrings(c, i)'
    BY <1>1, <1>2, <2>1, PageBrings DEF Safe, OnItsWay
  <2>3. QED
    BY <1>1, <2>1, <2>2, AttendedByOne
<1>3. CASE SendRow(c)
  <2>1. cursor' = cursor /\ waived' = waived /\ task[c].pc = "send" /\ task'[c].pc = "send"
    BY <1>3 DEF SendRow, ghosts, TypeOK, TaskType, Task
  <2>2. \A i \in Items :
           /\ Safe(c, out[c], i) => Safe(c, out[c], i)'
           /\ CatchUpBrings(c, i) => Safe(c, out[c], i)' \/ CatchUpBrings(c, i)'
    BY <1>3, <2>1, RowKeepsAhead DEF CatchUpBrings
  <2>3. QED
    BY <1>1, <2>1, <2>2, AttendedByOne
<1>4. CASE SendPage(c)
  <2>1. /\ cursor' = cursor /\ waived' = waived
        /\ task[c].pc = "send" /\ task[c].todo = {}
        /\ task[c].more => task'[c].pc = "release"
    BY <1>4 DEF SendPage, ghosts, ReleasedTask, IdleTask, TypeOK, TaskType
  <2>2. \A i \in Items :
           /\ Safe(c, out[c], i) => Safe(c, out[c], i)'
           /\ CatchUpBrings(c, i) => Safe(c, out[c], i)' \/ CatchUpBrings(c, i)'
    BY <1>4, <2>1, PageKeepsSafe DEF CatchUpBrings, LastPageAhead, ToSend
  <2>3. QED
    BY <1>1, <2>1, <2>2, AttendedByOne
<1>5. CASE ConfirmCatchUp(c)
  <2>1. waived' = waived /\ cursor'[c].broken = cursor[c].broken
    BY <1>5, ConfirmKeeps DEF ConfirmCatchUp, ghosts
  <2>2. \A i \in Items : ~CatchUpBrings(c, i)
    BY <1>5, ConfirmKeeps DEF CatchUpBrings, LastPageAhead, ConfirmCatchUp, IInv, Core, AnswerSound
  <2>3. QED
    BY <1>1, <1>5, <2>1, <2>2, ConfirmKeeps, AttendedByOne
<1>6. CASE ReadCounter(c) \/ CollectFails(c) \/ SendFails(c) \/ ReleaseTask(c) \/ SourceTakesRequest(c)
  <2>1. UNCHANGED <<out, cursor, waived>>
    BY <1>6 DEF ReadCounter, CollectFails, SendFails, ReleaseTask, SourceTakesRequest, ghosts
  <2>2. \/ task'[c] = task[c]
        \/ task'[c].pc \in {"idle", "counter", "release"}
        \/ task'[c].pc = "page" /\ task'[c].counter = counter
    <3>1. CASE ReadCounter(c)
      BY <3>1 DEF ReadCounter, IdleTask, TypeOK, TaskType
    <3>2. CASE CollectFails(c) \/ SendFails(c) \/ ReleaseTask(c)
      BY <3>2 DEF CollectFails, SendFails, ReleaseTask, ReleasedTask, IdleTask, TypeOK, TaskType
    <3>3. CASE SourceTakesRequest(c)
      BY <3>3 DEF SourceTakesRequest, IdleTask, TypeOK, TaskType
    <3>4. QED
      BY <1>6, <3>1, <3>2, <3>3
  <2>3. ASSUME NEW i \in Items, CatchUpBrings(c, i) PROVE CatchUpBrings(c, i)'
    <3>1. seqOf[i] <= counter
      BY DEF IInv, Core, NumbersSound
    <3>2. QED
      BY <1>1, <2>1, <2>2, <2>3, <3>1 DEF CatchUpBrings, LastPageAhead, ToSend
  <2>4. \A i \in Items : Safe(c, out[c], i) => Safe(c, out[c], i)'
    BY <1>1, <2>1 DEF Safe, OnItsWay
  <2>5. QED
    BY <1>1, <2>1, <2>3, <2>4, AttendedByOne
<1>7. QED
  BY <1>2, <1>3, <1>4, <1>5, <1>6 DEF TaskStepOf

(* The peer takes in what was on its way, or is no longer there.           *)
LEMMA AttendedPeer ==
    ASSUME IInv, AllAttended, TypeOK', NEW c \in Conns, PeerStep(c)
    PROVE  AllAttended'
<1> TypeOK
  BY DEF IInv, Core
<1>1. /\ UNCHANGED <<seqOf, numbered, captures, registered, task, cursor, waived, echoed>>
      /\ \A d \in Conns \ {c} : UNCHANGED <<rcv[d], out[d], task[d], cursor[d]>>
      /\ \A p \in Peers : taken[p] \subseteq taken'[p]
      /\ Live(c)' => Live(c)
  BY DEF PeerStep, PeerOpens, PeerCloses, PeerTakesPush, PeerFailsPush, PeerTakesPage, Live,
         dbVars, capVars, srcVars, ghosts, TypeOK, PeerType, QueueType
<1>2. ASSUME NEW i \in Items, Live(c)', Safe(c, out[c], i) PROVE Safe(c, out[c], i)'
  <2>1. CASE PeerTakesPush(c) \/ PeerTakesPage(c)
    BY <1>2, <2>1, TakingKeepsSafe
  <2>2. CASE PeerOpens(c) \/ PeerCloses(c) \/ PeerFailsPush(c)
    <3>1. UNCHANGED <<taken, out>>
      BY <1>2, <2>2 DEF PeerOpens, PeerCloses, PeerFailsPush, Live, srcVars, TypeOK, PeerType
    <3>2. QED
      BY <1>2, <3>1 DEF Safe, OnItsWay
  <2>3. QED
    BY <2>1, <2>2 DEF PeerStep
<1>3. \A i \in Items : CatchUpBrings(c, i)' = CatchUpBrings(c, i)
  BY <1>1 DEF CatchUpBrings, LastPageAhead, ToSend
<1>4. QED
  BY <1>1, <1>2, <1>3, AttendedByOne

(* Every step leaves each row that is due in somebody's care.              *)
LEMMA AttendedStep == IInv /\ AllAttended /\ [Next]_vars => AllAttended'
<1> SUFFICES ASSUME IInv, AllAttended, [Next]_vars PROVE AllAttended'
  OBVIOUS
<1>1. TypeOK /\ TypeOK'
  BY TypeStep DEF IInv, Core
<1>2. CASE DeliverFailed
  <2>1. BreakRegistered /\ registered' = registered
    BY <1>2 DEF DeliverFailed
  <2>2. QED
    BY <1>1, <2>1, BrokenAttended
<1>3. CASE CaptureStep \/ SendStep
  BY <1>2, <1>3, AttendedDatabase, AttendedOnLocalCapture, AttendedDeliver DEF SendStep
<1>4. ASSUME NEW c \in Conns, TaskStepOf(c) \/ SourceStep(c) \/ PeerStep(c) PROVE AllAttended'
  BY <1>1, <1>4, AttendedSource, AttendedTask, AttendedPeer DEF SourceStep
<1>5. CASE Restart \/ RestartRebuilt
  BY <1>5 DEF Restart, RestartRebuilt, Forget, AllAttended
<1>6. CASE UNCHANGED vars
  <2>1. UNCHANGED <<registered, rcv, out, task, cursor, taken, seqOf, waived, echoed, numbered, captures>>
    BY <1>6 DEF vars, dbVars, capVars, srcVars, peerVars, ghosts
  <2>2. QED
    BY <2>1, AttendedByCaptures DEF Due, ExemptFor, Underway
<1>7. QED
  BY <1>3, <1>4, <1>5, <1>6 DEF Next

(***************************************************************************)
(* Theorems                                                                *)
(***************************************************************************)

(* The inductive invariant holds in every behaviour.                      *)
LEMMA InvariantHolds == Spec => []IInv
<1>1. Init => IInv
  BY InitSound, InitGrounds DEF IInv
<1>2. QED
  BY <1>1, Inductive, PTL DEF Spec

(* For any number of contents, peers and connections and any page, window  *)
(* and queue size: a peer whose watermark stands at n has taken in every   *)
(* row it is owed up to n.                                                 *)
THEOREM WatermarksAreSound == Spec => []WatermarkSound
BY WatermarksKeepPromise, InvariantHolds, PTL

(* With one paired device, and rows that stay where a catch-up finds them  *)
(* (Steady): whatever is dropped, reordered or restarted on the way, a     *)
(* capture that the echo filter held back and the watermark passed is a    *)
(* content that device holds already.                                      *)
THEOREM EchoesAreHeld == ASSUME Steady PROVE Spec => []EchoHeld
<1>1. IInv => EchoHeld
  BY DEF IInv, Core, WatermarksHold, EchoHeld, Owed, Wanted, Excused
<1>2. QED
  BY <1>1, InvariantHolds, PTL

(* What a confirmed connection is past, it has delivered or holds in its   *)
(* queue.                                                                  *)
THEOREM CursorsAreSound == Spec => []CursorSound
BY CursorsKeepPromise, InvariantHolds, PTL

(* For any number of contents, peers and connections, with every fault of  *)
(* the model: on a connection whose last page is confirmed and that has    *)
(* dropped no push, a row the peer is owed was taken in, is in its queue,  *)
(* or has a capture under way.                                             *)
THEOREM NothingIsForgotten == Spec => []NothingForgotten
<1>1. Init => AllAttended
  BY DEF Init, AllAttended
<1>2. IInv /\ AllAttended /\ [Next]_vars => AllAttended'
  BY AttendedStep
<1>3. AllAttended => NothingForgotten
  BY DEF AllAttended, NothingForgotten, Attended, CatchUpBrings, Safe, Live
<1>4. QED
  BY <1>1, <1>2, <1>3, InvariantHolds, PTL DEF Spec

(* Pages of an old and a new connection may interleave: the watermark of a *)
(* peer never falls within an epoch.                                       *)
THEOREM WatermarksNeverFall == Spec => WatermarkMonotone
<1>1. TypeOK /\ [Next]_vars => [\A p \in Peers : wm'[p].epoch = wm[p].epoch => wm'[p].seq >= wm[p].seq]_wm
  BY MonotoneStep
<1>2. QED
  BY <1>1, TypeCorrect, PTL DEF Spec, WatermarkMonotone
=============================================================================
