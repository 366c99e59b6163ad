---------------------------- MODULE LanCatchUp ----------------------------
(***************************************************************************)
(* LAN sync between one device (the source) and the devices paired with    *)
(* it: catch-up by watermark, live pushes and checkpoints.                 *)
(*                                                                         *)
(*   source   persist_and_notify -> on_local_capture -> captures queue ->  *)
(*            send_captures -> deliver -> a bounded queue per connection   *)
(*            catchUp request -> collect_catch_up -> send_catch_up         *)
(*   peer     run_session sends catchUp(watermark); read_loop takes pushes *)
(*            in and advances the watermark at each catchUpPage            *)
(*                                                                         *)
(* Both directions of a pair are instances of this module.  A connection's *)
(* queue, its socket and the peer's read half are one FIFO.  Payloads are  *)
(* members of Items; what the rules do with one is its Kind.               *)
(***************************************************************************)
EXTENDS Integers, Sequences, FiniteSets

CONSTANTS
    Items,        \* contents, told apart by their content hash
    Kind,         \* how the sync rules treat each content
    Peers,        \* paired devices
    Conns,        \* connections over the life of the system, each used once
    PeerOf,       \* the peer at the far end of a connection
    PageSize,     \* CATCH_UP_PAGE
    Total,        \* CATCH_UP_TOTAL
    QueueCap,     \* OUTGOING_QUEUE, per connection
    CaptureCap,   \* OUTGOING_QUEUE, captures waiting to be sent
    MaxSeq,       \* bound: captures numbered per epoch
    MaxInFlight,  \* bound: captures under way to the connections at one time
    MaxEpoch,     \* bound: rebuilds of the source database
    Events        \* what the environment of an instance may do

Kinds ==
    { "private",  \* sensitive or files: not even a catch-up candidate
      "off",      \* a type the settings do not sync
      "big",      \* over the attachment or header limit
      "plain" }   \* travels

EventKinds == {"drop", "read", "store", "number", "restart", "rebuild", "age", "delete", "mirror"}

ASSUME KindAssumption     == Kind \in [Items -> Kinds]
ASSUME PeerOfAssumption   == PeerOf \in [Conns -> Peers]
ASSUME FiniteItems        == IsFiniteSet(Items)
ASSUME PageAssumption     == PageSize \in Nat \ {0} /\ Total \in Nat \ {0}
ASSUME QueueAssumption    == QueueCap \in Nat \ {0} /\ CaptureCap \in Nat \ {0}
ASSUME BoundAssumption    == MaxSeq \in Nat /\ MaxInFlight \in Nat /\ MaxEpoch \in Nat \ {0}
ASSUME EventAssumption    == Events \subseteq EventKinds

VARIABLES
    \* the source: database
    epoch,        \* sync_counter.created_at
    counter,      \* sync_counter.value
    rows,         \* contents with a row in clipboard_items
    seqOf,        \* clipboard_items.sync_seq of the row, 0 for NULL
    stale,        \* contents last used more than CATCH_UP_DAYS ago
    \* the source: captures on their way out
    stored,       \* stored by persist_and_notify, not numbered yet
    numbered,     \* past assign_sync_seq, on_local_capture not run yet
    captures,     \* the captures queue; its head may be in the hands of send_captures
    lastSynced,   \* EchoFilter.last, if any
    \* the source: connections
    src,          \* state of the source's end
    registered,   \* connections in the registry
    cursor,       \* LiveCursor of each connection
    task,         \* the catch-up task of each connection
    out,          \* messages on their way to the peer
    \* the peers
    rcv,          \* state of the peer's end
    inn,          \* catchUp requests on their way to the source
    taken,        \* contents for which engine::receive has returned Ok
    wm,           \* PeerStore: watermark and epoch
    \* history, read by no action
    waived,       \* contents the 7 day or 500 row window passed over
    echoed        \* contents whose last capture was judged an echo

dbVars   == <<epoch, counter, rows, seqOf, stale>>
capVars  == <<stored, numbered, captures, lastSynced>>
srcVars  == <<src, registered, cursor, task, out>>
peerVars == <<rcv, inn, taken, wm>>
ghosts   == <<waived, echoed>>
vars     == <<dbVars, capVars, srcVars, peerVars, ghosts>>

Larger(m, n) == IF m > n THEN m ELSE n

(***************************************************************************)
(* Data                                                                    *)
(***************************************************************************)
Capture == [item : Items, seq : Nat, send : BOOLEAN]

Push(i)              == [type |-> "push", item |-> i]
Page(e, until, more) == [type |-> "page", epoch |-> e, until |-> until, more |-> more]
Message ==
    [type : {"push"}, item : Items]
      \cup [type : {"page"}, epoch : Nat, until : Nat, more : BOOLEAN]

Request == [after : Nat, epoch : Nat]      \* epoch 0: none yet

EndState == {"new", "open", "closed"}

Cursor == [known : BOOLEAN, epoch : Nat, until : Nat, handled : SUBSET Nat, broken : BOOLEAN]
FreshCursor == [known |-> FALSE, epoch |-> 0, until |-> 0, handled |-> {}, broken |-> FALSE]

TaskStep == {"idle", "counter", "page", "send", "confirm", "release"}
TodoRow == [item : Items, seq : Nat]
Task == [pc : TaskStep, after : Nat, epoch : Nat, counter : Nat,
         todo : SUBSET TodoRow, until : Nat, more : BOOLEAN]
IdleTask == [pc |-> "idle", after |-> 0, epoch |-> 0, counter |-> 0,
             todo |-> {}, until |-> 0, more |-> FALSE]
ReleasedTask == [IdleTask EXCEPT !.pc = "release"]

Syncable(i) == Kind[i] \in {"big", "plain"}          \* is_syncable

(* Mutant: the run jumps over the gaps. *)
RunEnd_Gaps(until, handled) ==
    IF handled = {} THEN until
    ELSE CHOOSE n \in handled \cup {until} : \A m \in handled \cup {until} : m <= n

(***************************************************************************)
(* LiveCursor: from the number the peer is known to have reached, run over *)
(* the consecutive numbers already handled.                                *)
(***************************************************************************)
RunEnd(until, handled) ==
    LET ends == {n \in handled \cup {until} :
                    n >= until /\ (until + 1) .. n \subseteq handled /\ n + 1 \notin handled}
    IN  IF ends = {} THEN until ELSE CHOOSE n \in ends : TRUE

Advance(cur) ==
    IF cur.broken \/ ~cur.known
    THEN cur
    ELSE LET end == RunEnd(cur.until, cur.handled)
         IN  [cur EXCEPT !.until = end, !.handled = {n \in @ : n > end}]

Handle(cur, n) == [cur EXCEPT !.handled = @ \cup {n}]

Confirm(cur, e, n) ==
    [cur EXCEPT !.known = TRUE,
                !.epoch = e,
                !.until = IF cur.known /\ cur.epoch = e THEN Larger(@, n) ELSE n]

(* advance returned a checkpoint: it is sent if the queue has room.        *)
WithCheckpoint(queue, cur) ==
    IF Advance(cur).until > cur.until /\ Len(queue) < QueueCap
    THEN Append(queue, Page(cur.epoch, Advance(cur).until, FALSE))
    ELSE queue

(* deliver, on one registered connection.                                  *)
Travels(cap)       == cap.send /\ Kind[cap.item] = "plain"
Dropped(c, cap)    == Travels(cap) /\ Len(out[c]) >= QueueCap
PushedOut(c, cap)  == IF Travels(cap) /\ ~Dropped(c, cap)
                      THEN Append(out[c], Push(cap.item)) ELSE out[c]
Marked_Forgets(c, cap) == cursor[c]     \* mutant: a dropped push leaves no mark
Marked(c, cap)     == [cursor[c] EXCEPT !.broken = @ \/ Dropped(c, cap)]
DeliveredCursor(c, cap) == IF cap.seq > 0 THEN Advance(Handle(Marked(c, cap), cap.seq))
                                          ELSE Marked(c, cap)
DeliveredOut(c, cap)    == IF cap.seq > 0
                           THEN WithCheckpoint(PushedOut(c, cap), Handle(Marked(c, cap), cap.seq))
                           ELSE PushedOut(c, cap)

BreakRegistered ==      \* deliver_failed
    cursor' = [c \in Conns |-> IF c \in registered THEN [cursor[c] EXCEPT !.broken = TRUE]
                                                   ELSE cursor[c]]

Enqueue(cap) ==         \* captures.try_send; full: deliver_failed
    \/ /\ Len(captures) <= CaptureCap
       /\ captures' = Append(captures, cap)
       /\ UNCHANGED cursor
    \/ /\ Len(captures) >= CaptureCap
       /\ BreakRegistered
       /\ UNCHANGED captures

(***************************************************************************)
(* catch_up_page: the newest Total candidates above `after`, of those the  *)
(* oldest PageSize.                                                        *)
(***************************************************************************)
Candidates(after) == {i \in rows : seqOf[i] > after /\ i \notin stale /\ Kind[i] # "private"}
Newest(n, S) == {i \in S : Cardinality({j \in S : seqOf[j] > seqOf[i]}) < n}
Oldest(n, S) == {i \in S : Cardinality({j \in S : seqOf[j] < seqOf[i]}) < n}
Window(after)   == Newest(Total, Candidates(after))
PageRows(after) == Oldest(PageSize, Window(after))
IsLast(after, last) ==
    IF PageRows(after) = {} THEN last = after
    ELSE /\ \E i \in PageRows(after) : seqOf[i] = last
         /\ \A i \in PageRows(after) : seqOf[i] <= last

(* What the rules of catch-up leave out between after and until: not used  *)
(* for CATCH_UP_DAYS, or with Total newer candidates before it.            *)
PassedOver(after, until) ==
    {i \in rows : /\ after < seqOf[i] /\ seqOf[i] <= until
                  /\ \/ i \in stale
                     \/ Cardinality({j \in Candidates(0) : seqOf[j] > seqOf[i]}) >= Total}

(***************************************************************************)
(* Initial states: nothing copied, no connection yet.                      *)
(***************************************************************************)
Init ==
    /\ epoch = 1 /\ counter = 0
    /\ rows = {} /\ stale = {}
    /\ seqOf = [i \in Items |-> 0]
    /\ stored = {} /\ numbered = {} /\ captures = <<>> /\ lastSynced = {}
    /\ src = [c \in Conns |-> "new"] /\ rcv = [c \in Conns |-> "new"]
    /\ registered = {}
    /\ cursor = [c \in Conns |-> FreshCursor]
    /\ task = [c \in Conns |-> IdleTask]
    /\ out = [c \in Conns |-> <<>>] /\ inn = [c \in Conns |-> <<>>]
    /\ taken = [p \in Peers |-> {}]
    /\ wm = [p \in Peers |-> [epoch |-> 0, seq |-> 0]]
    /\ waived = [p \in Peers |-> {}] /\ echoed = {}

(***************************************************************************)
(* Source: captures                                                        *)
(***************************************************************************)

(* persist_and_notify, store_and_emit: the row is stored; a content that   *)
(* has one already keeps it, with its old number for now.                  *)
StoreCapture(i) ==
    /\ counter + Cardinality(stored) < MaxSeq
    /\ Cardinality(stored) + Cardinality(numbered) + Len(captures) < MaxInFlight
    /\ i \notin stored
    /\ stored' = stored \cup {i}
    /\ rows' = rows \cup {i}
    /\ stale' = stale \ {i}
    /\ UNCHANGED <<epoch, counter, seqOf, numbered, captures, lastSynced, srcVars, peerVars, ghosts>>

(* Mutant: numbers come from the rows instead of a counter of their own. *)
NumberCapture_FromRows(i) ==
    LET next == 1 + CHOOSE n \in {0} \cup {seqOf[j] : j \in Items} : \A j \in Items : seqOf[j] <= n
    IN  /\ i \in stored \cap rows
        /\ stored' = stored \ {i}
        /\ counter' = next
        /\ seqOf' = [seqOf EXCEPT ![i] = next]
        /\ numbered' = numbered \cup {[item |-> i, seq |-> next, send |-> FALSE]}
        /\ waived' = [p \in Peers |-> waived[p] \ {i}]
        /\ echoed' = echoed \ {i}
        /\ UNCHANGED <<epoch, rows, stale, captures, lastSynced, srcVars, peerVars>>

(* persist_and_notify, assign_sync_seq: the row takes the next number, in  *)
(* one transaction.                                                        *)
NumberCapture(i) ==
    /\ i \in stored \cap rows
    /\ stored' = stored \ {i}
    /\ counter' = counter + 1
    /\ seqOf' = [seqOf EXCEPT ![i] = counter + 1]
    /\ numbered' = numbered \cup {[item |-> i, seq |-> counter + 1, send |-> FALSE]}
    /\ waived' = [p \in Peers |-> waived[p] \ {i}]
    /\ echoed' = echoed \ {i}
    /\ UNCHANGED <<epoch, rows, stale, captures, lastSynced, srcVars, peerVars>>

(* The row is gone and the transaction rolled back, or it failed.          *)
NumberFails(i) ==
    /\ i \in stored
    /\ i \notin rows \/ "number" \in Events
    /\ stored' = stored \ {i}
    /\ numbered' = numbered \cup {[item |-> i, seq |-> 0, send |-> FALSE]}
    /\ UNCHANGED <<dbVars, captures, lastSynced, srcVars, peerVars, ghosts>>

(* on_local_capture.  Captures are persisted by separate tasks, so they    *)
(* reach it in any order.  Whether ECHO_WINDOW has passed since the last   *)
(* content was synced is up to the clock.                                  *)
OnLocalCapture(cap) ==
    /\ numbered' = numbered \ {cap}
    /\ \/ /\ registered = {}
          /\ UNCHANGED <<captures, lastSynced, cursor, echoed>>
       \/ /\ registered # {}
          /\ \E inWindow \in BOOLEAN :
                LET echo == inWindow /\ Syncable(cap.item) /\ cap.item \in lastSynced
                    send == Syncable(cap.item) /\ ~echo
                IN  /\ lastSynced' = IF send THEN {cap.item} ELSE lastSynced
                    /\ echoed' = IF echo /\ seqOf[cap.item] = cap.seq
                                 THEN echoed \cup {cap.item} ELSE echoed
                    /\ Enqueue([cap EXCEPT !.send = send])
    /\ UNCHANGED <<dbVars, stored, src, registered, task, out, peerVars, waived>>

(* Mutant: no push before the catch-up of the connection is over. *)
Deliver_AfterCatchUp ==
    /\ captures # <<>>
    /\ captures' = Tail(captures)
    /\ out' = [c \in Conns |-> IF c \in registered /\ cursor[c].known
                               THEN DeliveredOut(c, Head(captures)) ELSE out[c]]
    /\ cursor' = [c \in Conns |-> IF c \in registered THEN DeliveredCursor(c, Head(captures))
                                                      ELSE cursor[c]]
    /\ UNCHANGED <<dbVars, stored, numbered, lastSynced, src, registered, task, peerVars, ghosts>>

(* send_captures prepares the captures in order and delivers each to every *)
(* registered connection.                                                  *)
Deliver ==
    /\ captures # <<>>
    /\ captures' = Tail(captures)
    /\ out' = [c \in Conns |-> IF c \in registered THEN DeliveredOut(c, Head(captures)) ELSE out[c]]
    /\ cursor' = [c \in Conns |-> IF c \in registered THEN DeliveredCursor(c, Head(captures))
                                                      ELSE cursor[c]]
    /\ UNCHANGED <<dbVars, stored, numbered, lastSynced, src, registered, task, peerVars, ghosts>>

(* The image of the capture cannot be read.                                *)
DeliverFailed ==
    /\ "read" \in Events
    /\ captures # <<>> /\ Head(captures).send
    /\ captures' = Tail(captures)
    /\ BreakRegistered
    /\ UNCHANGED <<dbVars, stored, numbered, lastSynced, src, registered, task, out, peerVars, ghosts>>

(* The source takes in a live push of peer p: the row has no number and    *)
(* the content is the last one synced.                                     *)
TakeFromPeer(p, i) ==
    /\ "mirror" \in Events
    /\ Kind[i] = "plain"
    /\ rows' = rows \cup {i}
    /\ stale' = stale \ {i}
    /\ lastSynced' = {i}
    /\ taken' = [taken EXCEPT ![p] = @ \cup {i}]
    /\ UNCHANGED <<epoch, counter, seqOf, stored, numbered, captures,
                   srcVars, rcv, inn, wm, ghosts>>

(* A row is deleted, or has not been used for CATCH_UP_DAYS.               *)
DeleteRow(i) ==
    /\ "delete" \in Events
    /\ i \in rows
    /\ rows' = rows \ {i}
    /\ seqOf' = [seqOf EXCEPT ![i] = 0]
    /\ stale' = stale \ {i}
    /\ UNCHANGED <<epoch, counter, capVars, srcVars, peerVars, ghosts>>

AgeRow(i) ==
    /\ "age" \in Events
    /\ i \in rows \ stale
    /\ stale' = stale \cup {i}
    /\ UNCHANGED <<epoch, counter, rows, seqOf, capVars, srcVars, peerVars, ghosts>>

(***************************************************************************)
(* Source: connections                                                     *)
(***************************************************************************)

(* Mutant: the old connection stays in the registry. *)
SourceOpens_KeepsOld(c) ==
    /\ src[c] = "new"
    /\ src' = [src EXCEPT ![c] = "open"]
    /\ registered' = registered \cup {c}
    /\ UNCHANGED <<dbVars, capVars, cursor, task, out, peerVars, ghosts>>

(* run_session on the source: the connection replaces the peer's old one,  *)
(* which is told to stop but runs on until its loops notice.               *)
SourceOpens(c) ==
    LET former == {d \in registered : PeerOf[d] = PeerOf[c]}
    IN  /\ src[c] = "new"
        /\ src' = [src EXCEPT ![c] = "open"]
        /\ registered' = (registered \ former) \cup {c}
        /\ cursor' = [d \in Conns |-> IF d \in former THEN FreshCursor ELSE cursor[d]]
        /\ UNCHANGED <<dbVars, capVars, task, out, peerVars, ghosts>>

SourceMustClose(c) == rcv[c] = "closed" \/ c \notin registered
(* The source's read loop ends (error, silence, kill) and unregisters.     *)
SourceCloses(c) ==
    /\ src[c] = "open"
    /\ "drop" \in Events \/ SourceMustClose(c)
    /\ src' = [src EXCEPT ![c] = "closed"]
    /\ registered' = registered \ {c}
    /\ cursor' = [cursor EXCEPT ![c] = FreshCursor]
    /\ inn' = [inn EXCEPT ![c] = <<>>]
    /\ UNCHANGED <<dbVars, capVars, task, out, rcv, taken, wm, ghosts>>

(* read_loop, catchUp: one request at a time, others are ignored.          *)
SourceTakesRequest(c) ==
    /\ src[c] = "open" /\ inn[c] # <<>>
    /\ inn' = [inn EXCEPT ![c] = Tail(@)]
    /\ task' = IF task[c].pc = "idle"
               THEN [task EXCEPT ![c] = [IdleTask EXCEPT !.pc = "counter",
                                                         !.after = Head(inn[c]).after,
                                                         !.epoch = Head(inn[c]).epoch]]
               ELSE task
    /\ UNCHANGED <<dbVars, capVars, src, registered, cursor, out, rcv, taken, wm, ghosts>>

(* Mutant: the epoch of the request is not compared. *)
ReadCounter_AnyEpoch(c) ==
    /\ task[c].pc = "counter"
    /\ task' = [task EXCEPT ![c] = [@ EXCEPT !.pc = "page", !.epoch = epoch, !.counter = counter]]
    /\ UNCHANGED <<dbVars, capVars, src, registered, cursor, out, peerVars, ghosts>>

(* collect_catch_up: epoch and counter first, then the page.               *)
ReadCounter(c) ==
    /\ task[c].pc = "counter"
    /\ LET after == IF task[c].epoch = epoch THEN task[c].after ELSE 0
       IN  task' = [task EXCEPT ![c] = [IdleTask EXCEPT !.pc = "page", !.after = after,
                                                       !.epoch = epoch, !.counter = counter]]
    /\ UNCHANGED <<dbVars, capVars, src, registered, cursor, out, peerVars, ghosts>>

(* The rows are read back by id and turned into pushes with the page.      *)
ReadPage(c) ==
    LET after == task[c].after
        more  == PageRows(after) # Window(after)
        todo  == {[item |-> i, seq |-> seqOf[i]] : i \in {j \in PageRows(after) : Kind[j] = "plain"}}
    IN  /\ task[c].pc = "page"
        /\ \E last \in 0 .. Larger(counter, after) :
              LET until == IF more THEN last ELSE Larger(task[c].counter, last)
              IN  /\ IsLast(after, last)
                  /\ task' = [task EXCEPT ![c] = [IdleTask EXCEPT !.pc = "send", !.epoch = task[c].epoch,
                                                                  !.todo = todo, !.until = until,
                                                                  !.more = more]]
                  /\ waived' = [waived EXCEPT ![PeerOf[c]] = @ \cup PassedOver(after, until)]
        /\ UNCHANGED <<dbVars, capVars, src, registered, cursor, out, peerVars, echoed>>

(* Reading the database or an image failed: the request goes unanswered.   *)
CollectFails(c) ==
    /\ "read" \in Events
    /\ task[c].pc \in {"counter", "page"}
    /\ task' = [task EXCEPT ![c] = ReleasedTask]
    /\ UNCHANGED <<dbVars, capVars, src, registered, cursor, out, peerVars, ghosts>>

(* send_catch_up: the pushes in order, each waiting for room in the queue. *)
SendRow(c) ==
    /\ task[c].pc = "send" /\ src[c] = "open" /\ Len(out[c]) < QueueCap
    /\ \E row \in task[c].todo :
          /\ \A other \in task[c].todo : row.seq <= other.seq
          /\ out' = [out EXCEPT ![c] = Append(@, Push(row.item))]
          /\ task' = [task EXCEPT ![c] = [task[c] EXCEPT !.todo = @ \ {row}]]
    /\ UNCHANGED <<dbVars, capVars, src, registered, cursor, peerVars, ghosts>>

(* Mutants: the page does not wait for its rows; it is never confirmed. *)
SendPage_TooEarly(c) ==
    /\ task[c].pc = "send" /\ src[c] = "open" /\ Len(out[c]) < QueueCap
    /\ out' = [out EXCEPT ![c] = Append(@, Page(task[c].epoch, task[c].until, task[c].more))]
    /\ task' = [task EXCEPT ![c] = IF @.more THEN ReleasedTask ELSE [@ EXCEPT !.pc = "confirm"]]
    /\ UNCHANGED <<dbVars, capVars, src, registered, cursor, peerVars, ghosts>>
SendPage_Unconfirmed(c) ==
    /\ task[c].pc = "send" /\ src[c] = "open" /\ Len(out[c]) < QueueCap
    /\ task[c].todo = {}
    /\ out' = [out EXCEPT ![c] = Append(@, Page(task[c].epoch, task[c].until, task[c].more))]
    /\ task' = [task EXCEPT ![c] = ReleasedTask]
    /\ UNCHANGED <<dbVars, capVars, src, registered, cursor, peerVars, ghosts>>

(* Then the page itself.                                                   *)
SendPage(c) ==
    /\ task[c].pc = "send" /\ src[c] = "open" /\ Len(out[c]) < QueueCap
    /\ task[c].todo = {}
    /\ out' = [out EXCEPT ![c] = Append(@, Page(task[c].epoch, task[c].until, task[c].more))]
    /\ task' = [task EXCEPT ![c] = IF @.more THEN ReleasedTask ELSE [@ EXCEPT !.pc = "confirm"]]
    /\ UNCHANGED <<dbVars, capVars, src, registered, cursor, peerVars, ghosts>>

(* Mutant: only the send of the page returns the error. *)
SendFails_PageOnly(c) ==
    /\ task[c].pc = "send" /\ src[c] # "open" /\ task[c].todo = {}
    /\ task' = [task EXCEPT ![c] = ReleasedTask]
    /\ UNCHANGED <<dbVars, capVars, src, registered, cursor, out, peerVars, ghosts>>

(* The queue is gone: the blocked send returns an error.                   *)
SendFails(c) ==
    /\ task[c].pc = "send" /\ src[c] # "open"
    /\ task' = [task EXCEPT ![c] = ReleasedTask]
    /\ UNCHANGED <<dbVars, capVars, src, registered, cursor, out, peerVars, ghosts>>

(* Mutant: the peer's registered connection is confirmed, whichever it is. *)
ConfirmCatchUp_AnyConnection(c) ==
    LET confirmed == {d \in registered : PeerOf[d] = PeerOf[c]}
        Cur(d)    == Confirm(cursor[d], task[c].epoch, task[c].until)
    IN  /\ task[c].pc = "confirm"
        /\ task' = [task EXCEPT ![c] = ReleasedTask]
        /\ out' = [d \in Conns |-> IF d \in confirmed THEN WithCheckpoint(out[d], Cur(d)) ELSE out[d]]
        /\ cursor' = [d \in Conns |-> IF d \in confirmed THEN Advance(Cur(d)) ELSE cursor[d]]
        /\ UNCHANGED <<dbVars, capVars, src, registered, peerVars, ghosts>>

(* confirm_catch_up: only if this connection is still the registered one.  *)
ConfirmCatchUp(c) ==
    LET cur == Confirm(cursor[c], task[c].epoch, task[c].until)
    IN  /\ task[c].pc = "confirm"
        /\ task' = [task EXCEPT ![c] = ReleasedTask]
        /\ IF c \in registered
           THEN /\ out' = [out EXCEPT ![c] = WithCheckpoint(@, cur)]
                /\ cursor' = [cursor EXCEPT ![c] = Advance(cur)]
           ELSE UNCHANGED <<out, cursor>>
        /\ UNCHANGED <<dbVars, capVars, src, registered, peerVars, ghosts>>

(* The request is answered; only now the next one is accepted.             *)
ReleaseTask(c) ==
    /\ task[c].pc = "release"
    /\ task' = [task EXCEPT ![c] = IdleTask]
    /\ UNCHANGED <<dbVars, capVars, src, registered, cursor, out, peerVars, ghosts>>

(* The process dies and starts again: everything but the database is lost. *)
Forget ==
    /\ stored' = {} /\ numbered' = {} /\ captures' = <<>> /\ lastSynced' = {}
    /\ src' = [c \in Conns |-> IF src[c] = "open" THEN "closed" ELSE src[c]]
    /\ registered' = {}
    /\ cursor' = [c \in Conns |-> FreshCursor]
    /\ task' = [c \in Conns |-> IdleTask]
    /\ UNCHANGED <<out, peerVars, ghosts>>

Restart ==
    /\ "restart" \in Events
    /\ \E c \in Conns : src[c] = "open"
    /\ Forget
    /\ UNCHANGED dbVars

(* It comes back with a fresh database (reinstalled, data cleared).        *)
RestartRebuilt ==
    /\ "rebuild" \in Events
    /\ epoch < MaxEpoch
    /\ Forget
    /\ epoch' = epoch + 1
    /\ counter' = 0
    /\ rows' = {} /\ stale' = {}
    /\ seqOf' = [i \in Items |-> 0]

(***************************************************************************)
(* Peer                                                                    *)
(***************************************************************************)

(* run_session on the peer: ask for everything after the watermark.  Its   *)
(* older connection is told to stop but may still take messages in.        *)
PeerOpens(c) ==
    /\ rcv[c] = "new"
    /\ rcv' = [rcv EXCEPT ![c] = "open"]
    /\ inn' = [inn EXCEPT ![c] = Append(@, [after |-> wm[PeerOf[c]].seq, epoch |-> wm[PeerOf[c]].epoch])]
    /\ UNCHANGED <<dbVars, capVars, srcVars, taken, wm, ghosts>>

PeerCloses(c) ==
    /\ rcv[c] = "open"
    /\ "drop" \in Events \/ src[c] = "closed"
    /\ rcv' = [rcv EXCEPT ![c] = "closed"]
    /\ out' = [out EXCEPT ![c] = <<>>]
    /\ UNCHANGED <<dbVars, capVars, src, registered, cursor, task, inn, taken, wm, ghosts>>

(* read_loop, push: engine::receive stores the content.                    *)
PeerTakesPush(c) ==
    /\ rcv[c] = "open" /\ out[c] # <<>>
    /\ Head(out[c]).type = "push"
    /\ taken' = [taken EXCEPT ![PeerOf[c]] = @ \cup {Head(out[c]).item}]
    /\ out' = [out EXCEPT ![c] = Tail(@)]
    /\ UNCHANGED <<dbVars, capVars, src, registered, cursor, task, rcv, inn, wm, ghosts>>

(* Storing it failed: the peer drops the connection.                       *)
PeerFailsPush(c) ==
    /\ "store" \in Events
    /\ rcv[c] = "open" /\ out[c] # <<>>
    /\ Head(out[c]).type = "push"
    /\ rcv' = [rcv EXCEPT ![c] = "closed"]
    /\ out' = [out EXCEPT ![c] = <<>>]
    /\ UNCHANGED <<dbVars, capVars, src, registered, cursor, task, inn, taken, wm, ghosts>>

(* read_loop, catchUpPage: advance_watermark, then ask for the next page.  *)
AdvancedWatermark_Any(mark, e, until) == [epoch |-> e, seq |-> until]    \* mutant
AdvancedWatermark(mark, e, until) ==
    IF mark.epoch = e /\ mark.seq >= until THEN mark ELSE [epoch |-> e, seq |-> until]

PeerTakesPage(c) ==
    /\ rcv[c] = "open" /\ out[c] # <<>>
    /\ Head(out[c]).type = "page"
    /\ LET page == Head(out[c])
       IN  /\ wm' = [wm EXCEPT ![PeerOf[c]] = AdvancedWatermark(@, page.epoch, page.until)]
           /\ inn' = IF page.more
                     THEN [inn EXCEPT ![c] = Append(@, [after |-> page.until, epoch |-> page.epoch])]
                     ELSE inn
    /\ out' = [out EXCEPT ![c] = Tail(@)]
    /\ UNCHANGED <<dbVars, capVars, src, registered, cursor, task, rcv, taken, ghosts>>

(***************************************************************************)
(* The system                                                              *)
(***************************************************************************)
CaptureStep ==
    \/ \E i \in Items : StoreCapture(i) \/ NumberCapture(i) \/ NumberFails(i)
    \/ \E i \in Items : DeleteRow(i) \/ AgeRow(i)
    \/ \E p \in Peers, i \in Items : TakeFromPeer(p, i)
SendStep ==
    \/ \E cap \in numbered : OnLocalCapture(cap)
    \/ Deliver \/ DeliverFailed
TaskStepOf(c) ==
    \/ ReadCounter(c) \/ ReadPage(c) \/ CollectFails(c)
    \/ SendRow(c) \/ SendPage(c) \/ SendFails(c)
    \/ ConfirmCatchUp(c) \/ ReleaseTask(c)
SourceStep(c) == SourceOpens(c) \/ SourceCloses(c) \/ SourceTakesRequest(c)
PeerStep(c) ==
    \/ PeerOpens(c) \/ PeerCloses(c)
    \/ PeerTakesPush(c) \/ PeerFailsPush(c) \/ PeerTakesPage(c)

Next ==
    \/ CaptureStep
    \/ SendStep
    \/ \E c \in Conns : TaskStepOf(c) \/ SourceStep(c) \/ PeerStep(c)
    \/ Restart \/ RestartRebuilt

Spec == Init /\ [][Next]_vars

(* Every spawned task runs on: captures are numbered and handed over,      *)
(* send_captures works its queue off, an answer is sent or given up, both  *)
(* read loops take the messages that arrive, and an end whose other end is *)
(* gone notices.  Captures, connections, drops and faults may never come.  *)
Fairness ==
    /\ WF_vars(\E i \in Items : NumberCapture(i) \/ NumberFails(i))
    /\ WF_vars(SendStep)
    /\ \A c \in Conns :
          /\ WF_vars(TaskStepOf(c))
          /\ WF_vars(SourceTakesRequest(c))
          /\ WF_vars(PeerTakesPush(c) \/ PeerTakesPage(c))
          /\ WF_vars(SourceMustClose(c) /\ SourceCloses(c))
          /\ WF_vars(src[c] = "closed" /\ PeerCloses(c))

FairSpec == Spec /\ Fairness

(***************************************************************************)
(* Properties                                                              *)
(***************************************************************************)

DatabaseType ==
    /\ epoch \in Nat /\ counter \in Nat
    /\ rows \subseteq Items /\ stale \subseteq Items
    /\ seqOf \in [Items -> Nat]
CaptureType ==
    /\ stored \subseteq Items /\ numbered \subseteq Capture
    /\ captures \in Seq(Capture)
    /\ lastSynced \subseteq Items
RegistryType ==
    /\ src \in [Conns -> EndState]
    /\ registered \subseteq {c \in Conns : src[c] = "open"}
    /\ \A c, d \in registered : PeerOf[c] = PeerOf[d] => c = d
    /\ \A c \in Conns \ registered : cursor[c] = FreshCursor
CursorType == cursor \in [Conns -> Cursor]
TaskType == task \in [Conns -> Task]
QueueType == out \in [Conns -> Seq(Message)] /\ inn \in [Conns -> Seq(Request)]
PeerType ==
    /\ rcv \in [Conns -> EndState]
    /\ taken \in [Peers -> SUBSET Items]
    /\ wm \in [Peers -> [epoch : Nat, seq : Nat]]
GhostType == waived \in [Peers -> SUBSET Items] /\ echoed \subseteq Items

(* Every variable holds a value of its type; the registry holds running    *)
(* connections, one per peer, and only they have a live cursor.            *)
TypeOK ==
    /\ DatabaseType /\ CaptureType /\ RegistryType /\ CursorType
    /\ TaskType /\ QueueType /\ PeerType /\ GhostType

(* What peer p is not owed: contents that do not travel, rows the 7 day or *)
(* 500 row window passed over, and captures judged to be echoes.           *)
ExemptFor(p) == {i \in Items : Kind[i] # "plain"} \cup waived[p] \cup echoed
Due(p, i) == i \notin ExemptFor(p) /\ seqOf[i] > 0

(* The watermark is sound: whatever the order of captures, pages, live     *)
(* pushes, checkpoints, drops, reconnects and restarts, a peer whose       *)
(* watermark stands at n in the epoch in use has taken in every row it is  *)
(* owed up to n.  Catch-up never looks below the watermark again, so a row *)
(* missed there is lost to that peer for good.                             *)
WatermarkSound ==
    \A p \in Peers : wm[p].epoch = epoch =>
        \A i \in Items : (Due(p, i) /\ seqOf[i] <= wm[p].seq) => i \in taken[p]

(* deliver and send_catch_up promise a peer nothing they cannot keep: once *)
(* the last page of a connection has been confirmed, every row it is owed  *)
(* up to the confirmed number was taken in or is on its way in the queue   *)
(* of that very connection.                                                *)
OnItsWay(queue, i) == \E k \in 1 .. Len(queue) : queue[k] = Push(i)
CursorSound ==
    \A c \in Conns : (rcv[c] # "closed" /\ cursor[c].known /\ cursor[c].epoch = epoch) =>
        \A i \in Items : (Due(PeerOf[c], i) /\ seqOf[i] <= cursor[c].until)
                            => i \in taken[PeerOf[c]] \/ OnItsWay(out[c], i)

(* A paired device never has to give back ground: within an epoch its      *)
(* watermark only grows, although pages of an old and a new connection     *)
(* interleave.                                                             *)
WatermarkMonotone ==
    [][\A p \in Peers : wm'[p].epoch = wm[p].epoch => wm'[p].seq >= wm[p].seq]_wm

(* Being an echo is a good excuse: with one paired device, a capture that  *)
(* the echo filter held back and the watermark passed is a content that    *)
(* device holds already.  (With several devices the filter is shared, and  *)
(* a content taken from one of them is held back from the others; and the  *)
(* row of a lost push must stay where the next catch-up finds it: Steady.) *)
EchoHeld ==
    \A p \in Peers : wm[p].epoch = epoch =>
        \A i \in Items :
            (/\ i \in echoed \ waived[p] /\ Kind[i] = "plain"
             /\ 0 < seqOf[i] /\ seqOf[i] <= wm[p].seq) => i \in taken[p]

(* Catch-up and live pushes leave no gap between them: on a connection     *)
(* whose last page is confirmed and that has dropped no push, every row    *)
(* the peer is owed, however new, was taken in, is in its queue, or is the *)
(* business of a capture still under way.  A row numbered while the last   *)
(* page is read, sent or confirmed must be found by one of the two.        *)
Underway(i) ==
    \/ \E e \in numbered : e.item = i /\ e.seq = seqOf[i]
    \/ \E k \in 1 .. Len(captures) : captures[k].send /\ captures[k].item = i
NothingForgotten ==
    \A c \in registered : (rcv[c] # "closed" /\ cursor[c].known /\ ~cursor[c].broken) =>
        \A i \in Items : Due(PeerOf[c], i) =>
            i \in taken[PeerOf[c]] \/ OnItsWay(out[c], i) \/ Underway(i)

Online(c) == c \in registered /\ rcv[c] = "open"

(* A catch-up comes to its end: on a connection that stays up, the source  *)
(* gets as far as the last page (PROTOCOL.md 6.2: as long as `more` is     *)
(* set the peer asks on), so that the checkpoints of live pushes start.    *)
CatchUpEnds == \A c \in Conns : Online(c) ~> (cursor[c].known \/ ~Online(c))

(* What is copied while a peer is connected reaches it without waiting for *)
(* the next connection, unless a full queue dropped a push on the way.     *)
Reaches(c, i) == i \in taken[PeerOf[c]] \/ ~Due(PeerOf[c], i)
OnlineDelivery ==
    \A c \in Conns, i \in Items :
        (Online(c) /\ ~Reaches(c, i)) ~> (Reaches(c, i) \/ cursor[c].broken \/ ~Online(c))

(* An answer ends whatever happens to its connection: a task blocked on a  *)
(* full queue does not outlive the queue.                                  *)
AnswerEnds == \A c \in Conns : task[c].pc # "idle" ~> task[c].pc = "idle"

(* The detailed protocol keeps the promise stated in WatermarkSync.        *)
Promise == INSTANCE WatermarkSync WITH exempt <- [p \in Peers |-> ExemptFor(p)]
KeepsPromise == Promise!Spec

(***************************************************************************)
(* The inductive invariant: what the queues, tasks and cursors hold at any *)
(* moment is enough for the watermark to stay sound.  Live(c): the peer's  *)
(* end of c may still take messages in.                                    *)
(*                                                                         *)
(* Steady: one peer, and every row that was sent stays where a catch-up    *)
(* finds it.  Then being an echo is no excuse, and the invariant follows   *)
(* the content that the echo filter remembers, too.                        *)
(***************************************************************************)
Steady ==
    /\ \A p, q \in Peers : p = q
    /\ Events \cap {"delete", "number", "age"} = {}
    /\ Cardinality(Items) <= Total

Excused(p)        == {i \in Items : Kind[i] # "plain"} \cup waived[p]
                       \cup IF Steady THEN {} ELSE echoed
Wanted(p, i)      == i \notin Excused(p) /\ seqOf[i] > 0
Live(c)           == rcv[c] # "closed"
Owed(p, i, n)     == Wanted(p, i) /\ seqOf[i] <= n
Safe(c, queue, i) == i \in taken[PeerOf[c]] \/ OnItsWay(queue, i)
Behind(e, n)      == e <= epoch /\ (e = epoch => n <= counter)

(* Numbers come from the counter, one row each.                            *)
NumbersSound == \A i \in Items : seqOf[i] <= counter /\ (seqOf[i] > 0 => i \in rows)

(* A capture's number belongs to its content or to none any more.          *)
EntrySound(e) == e.seq <= counter /\ (e.seq > 0 => \A j \in Items : seqOf[j] = e.seq => j = e.item)
HeldBack(e)   == ~e.send /\ e.seq > 0 /\ seqOf[e.item] = e.seq /\ Kind[e.item] = "plain"
CapturesSound ==
    /\ \A e \in numbered : EntrySound(e)
    /\ \A k \in 1 .. Len(captures) :
          /\ EntrySound(captures[k])
          /\ (HeldBack(captures[k]) /\ ~Steady) => captures[k].item \in echoed

(* A page in the queue covers what is taken or lies before it.             *)
PageSound(c, queue, k) ==
    queue[k].type = "page" =>
        /\ Behind(queue[k].epoch, queue[k].until)
        /\ (Live(c) /\ queue[k].epoch = epoch) =>
              \A i \in Items : Owed(PeerOf[c], i, queue[k].until) =>
                  \/ i \in taken[PeerOf[c]]
                  \/ \E j \in 1 .. (k - 1) : queue[j] = Push(i)
QueueSound(c, queue) == \A k \in 1 .. Len(queue) : PageSound(c, queue, k)

(* Whoever asks on from `after` has taken what it is owed up to there.     *)
RequestSound(p, after, e) ==
    /\ Behind(e, after)
    /\ e = epoch => \A i \in Items : Owed(p, i, after) => i \in taken[p]
AskedSound(c) ==
    \A k \in 1 .. Len(inn[c]) : RequestSound(PeerOf[c], inn[c][k].after, inn[c][k].epoch)

(* What an answer is about to cover it has sent or still holds.            *)
ToSend(c, i) == task[c].pc = "send" /\ \E row \in task[c].todo : row.item = i
AnswerSound(c) ==
    /\ task[c].pc \in {"counter", "page"} => RequestSound(PeerOf[c], task[c].after, task[c].epoch)
    /\ task[c].pc \in {"page", "send", "confirm"} => task[c].epoch = epoch
    /\ task[c].pc = "page" => task[c].counter <= counter
    /\ task[c].pc = "confirm" => ~task[c].more
    /\ task[c].pc \in {"send", "confirm"} =>
          /\ task[c].until <= counter
          /\ Live(c) => \A i \in Items : Owed(PeerOf[c], i, task[c].until) =>
                            Safe(c, out[c], i) \/ ToSend(c, i)

(* The catch-up of c, as long as it is not confirmed, is going to bring i: *)
(* its last page has not been read yet, or holds i.                        *)
LastPageAhead(c) == task[c].pc \in {"send", "confirm"} => task[c].more
Ahead(c, i)      == Steady /\ (LastPageAhead(c) \/ ToSend(c, i))
Brings(c, queue, known, i) == Safe(c, queue, i) \/ (~known /\ Ahead(c, i))

(* A live cursor covers what is safe, and has handled only what is safe or *)
(* ahead.                                                                  *)
LiveCursorSound(c, queue, cur) ==
    /\ cur.handled \subseteq 1 .. counter
    /\ cur.known =>
          /\ cur.epoch = epoch /\ cur.until <= counter
          /\ Live(c) => \A i \in Items : Owed(PeerOf[c], i, cur.until) => Safe(c, queue, i)
    /\ (Live(c) /\ ~cur.broken) =>
          \A i \in Items : (Wanted(PeerOf[c], i) /\ seqOf[i] \in cur.handled) =>
                              Brings(c, queue, cur.known, i)

WatermarksBehind == \A p \in Peers : Behind(wm[p].epoch, wm[p].seq)
WatermarksHold ==
    \A p \in Peers : wm[p].epoch = epoch =>
        \A i \in Items : Owed(p, i, wm[p].seq) => i \in taken[p]

(* What being steady means for the rows.                                   *)
Grounds ==
    /\ \A c \in Conns : src[c] = "new" => task[c].pc = "idle"
    /\ Steady => /\ stale = {} /\ \A p \in Peers : waived[p] = {}
                 /\ stored \subseteq rows
                 /\ \A e \in numbered : seqOf[e.item] > 0

(* Every registered connection brings i, or is known to miss something; or *)
(* a capture that will send i comes before the k-th of the queue.          *)
Carries(c, i) == (Live(c) /\ ~cursor[c].broken) => Brings(c, out[c], cursor[c].known, i)
Promised(i, k) ==
    \/ \E j \in 1 .. k - 1 : captures[j].send /\ captures[j].item = i
    \/ \A c \in registered : Carries(c, i)

(* The content that the filter remembers is promised, and so is each       *)
(* capture held back for it.                                               *)
EchoesSound == Steady =>
    /\ \A k \in 1 .. Len(captures) : HeldBack(captures[k]) => Promised(captures[k].item, k)
    /\ \A i \in lastSynced : Kind[i] = "plain" =>
          /\ seqOf[i] > 0 \/ \A p \in Peers : i \in taken[p]
          /\ Promised(i, Len(captures) + 1)

(* NothingForgotten, made inductive: until the last page is confirmed, a   *)
(* row may also be one that the catch-up still brings.                     *)
CatchUpBrings(c, i) ==
    /\ ~cursor[c].known
    /\ task[c].pc = "page" => seqOf[i] <= task[c].counter
    /\ LastPageAhead(c) \/ ToSend(c, i)
Attended(c, i) == Safe(c, out[c], i) \/ Underway(i) \/ CatchUpBrings(c, i)
AllAttended ==
    \A c \in registered : (Live(c) /\ ~cursor[c].broken) =>
        \A i \in Items : Due(PeerOf[c], i) => Attended(c, i)

Core ==
    /\ TypeOK
    /\ epoch > 0
    /\ NumbersSound /\ CapturesSound
    /\ \A c \in Conns :
          /\ QueueSound(c, out[c])
          /\ AskedSound(c)
          /\ AnswerSound(c)
          /\ LiveCursorSound(c, out[c], cursor[c])
    /\ WatermarksBehind /\ WatermarksHold

IInv == Core /\ Grounds /\ EchoesSound
=============================================================================
