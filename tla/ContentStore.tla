---------------------------- MODULE ContentStore ----------------------------
(* The history's rows and the image files they name, and the tasks that    *)
(* write both: captures, received records, imports, backups, deletions,    *)
(* the cache sweep and the swap of the whole data directory.               *)
(*                                                                         *)
(* A row and its file are written, and removed, in two steps.  Two locks   *)
(* keep the steps apart: a fair reader-writer lock (cleanup.rs, `running`) *)
(* that everyone who writes an image and then its row holds shared and     *)
(* everyone who removes one holds alone, and `upsert_lock` around "look    *)
(* up, then insert".  A merge import takes the first and not the second.   *)
(*                                                                         *)
(* Records other than images have no file and are left out.  The OCR       *)
(* suspension that precedes an exclusive section is module OcrQueue's.     *)
EXTENDS Naturals, Sequences, Functions

CONSTANTS
    Images,     \* the distinct images: their hash is the row's and the file's
    NoImage,    \* not an image
    Tasks,      \* the slots operations run in, one at a time each
    Work        \* the operations each slot may run

Stores   == {"capture", "receive", "history"}
Removers == {"delete", "sweep", "swap"}
Ops      == Stores \cup Removers \cup {"eco", "merge", "export"}

ASSUME NoImageAssumption == NoImage \notin Images
ASSUME WorkAssumption == Work \in [Tasks -> SUBSET Ops]

VARIABLES
    rows,       \* how many rows name each image
    files,      \* the image files on disk
    paused,     \* the watcher's pause switch
    line,       \* tasks waiting for the reader-writer lock, first come first
    serial,     \* tasks at upsert_lock: the first one holds it
    op, pc,     \* what each task runs and where it stands
    cur,        \* the image a task is storing, if any
    hand,       \* images a task has listed: to import, to pack, to delete, to keep
    was,        \* the pause a swap found and will restore
    bare,       \* ghost: rows a merge committed whose file is not there yet
    raced       \* ghost: images a merge committed between a lookup and its insert

data   == <<rows, files, bare, raced>>
locks  == <<line, serial>>
local  == <<cur, hand, was>>
vars   == <<rows, files, paused, line, serial, op, pc, cur, hand, was, bare, raced>>

Places == {"idle", "ask", "line", "build", "known", "serial", "insert", "kept",
           "next", "check", "merge", "copy", "list", "pack", "rows", "files",
           "refs", "sweep", "leave", "resume"}

\* The places of a task that holds the reader-writer lock.
Inside == Places \ {"idle", "ask", "line", "resume"}

Listed == {i \in Images : rows[i] > 0}

Init ==
    /\ rows  = [i \in Images |-> 0]
    /\ files = {}
    /\ paused = FALSE
    /\ line = <<>>
    /\ serial = <<>>
    /\ op   = [t \in Tasks |-> "none"]
    /\ pc   = [t \in Tasks |-> "idle"]
    /\ cur  = [t \in Tasks |-> NoImage]
    /\ hand = [t \in Tasks |-> {}]
    /\ was  = [t \in Tasks |-> FALSE]
    /\ bare = {}
    /\ raced = {}

Go(t, place) == pc' = [pc EXCEPT ![t] = place]

\* New contents of the database and of the image directory; the ghosts
\* forget an image whose last row is gone, or whose file has come.
Store(newRows, newFiles) ==
    /\ rows' = newRows
    /\ files' = newFiles
    /\ raced' = {i \in raced : newRows[i] > 0}
    /\ bare' = {i \in bare : newRows[i] > 0} \ newFiles

-----------------------------------------------------------------------------
(* Beginning.                                                              *)

Begin(t, o) ==
    /\ pc[t] = "idle"
    /\ o \in Work[t]
    /\ op' = [op EXCEPT ![t] = o]

\* What an operation does before it asks for the lock touches nothing here.
Join(t) ==
    /\ line' = Append(line, t)
    /\ Go(t, "line")

\* The watcher is one thread: the next change is not looked at before the
\* last one has been built and handed to the runtime.
WatcherFree == \A t \in Tasks : op[t] = "capture" => pc[t] \notin {"ask", "line", "build"}

BeginCapture(t, i) ==
    /\ ~paused
    /\ WatcherFree
    /\ Begin(t, "capture")
    /\ Go(t, "ask")
    /\ cur' = [cur EXCEPT ![t] = i]
    /\ UNCHANGED <<data, locks, paused, hand, was>>

\* A record from another device, live or from its history, and the user's
\* "read the clipboard now", which runs like a live one.
BeginReceive(t, i, o) ==
    /\ Begin(t, o)
    /\ Join(t)
    /\ cur' = [cur EXCEPT ![t] = i]
    /\ UNCHANGED <<data, serial, paused, hand, was>>

\* An import of an EcoPaste backup or a merge of one of our own.
BeginImport(t, S, o) ==
    /\ Begin(t, o)
    /\ Join(t)
    /\ hand' = [hand EXCEPT ![t] = S]
    /\ UNCHANGED <<data, serial, paused, cur, was>>

BeginOther(t, o) ==
    /\ Begin(t, o)
    /\ Join(t)
    /\ UNCHANGED <<data, serial, paused, local>>

\* A storage switch or an overwriting import stops the watcher first.
BeginSwap(t) ==
    /\ Begin(t, "swap")
    /\ Go(t, "ask")
    /\ was' = [was EXCEPT ![t] = paused]
    /\ paused' = TRUE
    /\ UNCHANGED <<data, locks, cur, hand>>

-----------------------------------------------------------------------------
(* The locks.                                                              *)

\* A capture has read the clipboard, a swap has suspended OCR.
Ask(t) ==
    /\ pc[t] = "ask"
    /\ Join(t)
    /\ UNCHANGED <<data, serial, paused, op, local>>

(* Mutants: the sweep, or deleting, shares the lock; packing lets it go.   *)
Exclusive_NotSweep(t)  == op[t] \in Removers \ {"sweep"}
Exclusive_NotDelete(t) == op[t] \in Removers \ {"delete"}
Exclusive(t) == op[t] \in Removers

Admits_Packing(t) ==
    \A u \in Tasks : pc[u] \in Inside \ {"pack"} => ~Exclusive(t) /\ ~Exclusive(u)
Admits(t) ==
    \A u \in Tasks : pc[u] \in Inside => ~Exclusive(t) /\ ~Exclusive(u)

MayEnter(t) ==
    /\ pc[t] = "line"
    /\ line # <<>> /\ Head(line) = t
    /\ Admits(t)

First == [o \in Ops |->
    CASE o \in Stores      -> "build"
      [] o \in {"eco", "swap"} -> "serial"
      [] o = "merge"       -> "merge"
      [] o = "export"      -> "list"
      [] o = "delete"      -> "rows"
      [] o = "sweep"       -> "refs"]

(* Mutant: a reader does not wait behind a waiting writer.                 *)
Enter_ReadersFirst(t) ==
    /\ pc[t] = "line"
    /\ \/ Head(line) = t
       \/ ~Exclusive(t)
    /\ Admits(t)
    /\ line' = SelectSeq(line, LAMBDA u : u # t)
    /\ Go(t, First[op[t]])
    /\ serial' = IF First[op[t]] = "serial" THEN Append(serial, t) ELSE serial
    /\ UNCHANGED <<data, paused, op, local>>
Enter(t) ==
    /\ MayEnter(t)
    /\ line' = Tail(line)
    /\ Go(t, First[op[t]])
    /\ serial' = IF First[op[t]] = "serial" THEN Append(serial, t) ELSE serial
    /\ UNCHANGED <<data, paused, op, local>>

(* Mutant: a task does not wait for upsert_lock.                           *)
Serial_NoWait(t) == t \in Range(serial)
Serial(t) == serial # <<>> /\ Head(serial) = t

-----------------------------------------------------------------------------
(* Storing one record.                                                     *)

\* The image is written before its row.  A repeated notification, the
\* program's own write-back or a refused record ends here, file and all.
Build(t) ==
    /\ pc[t] = "build"
    /\ \/ /\ Store(rows, files \cup {cur[t]})
          /\ \/ Go(t, "leave") /\ UNCHANGED serial
             \/ /\ op[t] = "history"
                /\ Go(t, "known")
                /\ UNCHANGED serial
             \/ /\ op[t] # "history"
                /\ Go(t, "serial")
                /\ serial' = Append(serial, t)
       \/ Go(t, "leave") /\ UNCHANGED <<data, serial>>
    /\ UNCHANGED <<line, paused, op, local>>

\* A record of another device's history is not stored over one's own.
Known(t) ==
    /\ pc[t] = "known"
    /\ \/ /\ cur[t] \in Listed
          /\ Go(t, "leave")
          /\ UNCHANGED serial
       \/ /\ cur[t] \notin Listed
          /\ Go(t, "serial")
          /\ serial' = Append(serial, t)
    /\ UNCHANGED <<data, line, paused, op, local>>

(* Mutant: the lookup does not matter.                                     *)
Find_Blind(t) ==
    /\ pc[t] = "serial" /\ Serial(t)
    /\ op[t] \in Stores
    /\ Go(t, "insert")
    /\ UNCHANGED <<data, locks, paused, op, local>>
\* With upsert_lock: a known record is counted once more, a new one is
\* inserted.
Find(t) ==
    /\ pc[t] = "serial" /\ Serial(t)
    /\ op[t] \in Stores
    /\ \/ /\ cur[t] \in Listed
          /\ Go(t, "kept")
          /\ serial' = Tail(serial)
       \/ /\ cur[t] \notin Listed
          /\ Go(t, "insert")
          /\ UNCHANGED serial
    /\ UNCHANGED <<data, line, paused, op, local>>

\* The insert succeeds, or fails and ends the operation.
Insert(t) ==
    /\ pc[t] = "insert"
    /\ \/ /\ Store([rows EXCEPT ![cur[t]] = @ + 1], files)
          /\ Go(t, IF op[t] = "eco" THEN "next" ELSE "kept")
          /\ serial' = IF op[t] = "eco" THEN serial ELSE Tail(serial)
       \/ /\ Go(t, "leave")
          /\ serial' = Tail(serial)
          /\ UNCHANGED data
    /\ UNCHANGED <<line, paused, op, local>>

-----------------------------------------------------------------------------
(* Imports that add to the history.                                        *)

\* An EcoPaste import holds both locks for all its records.
NextRecord(t) ==
    /\ op[t] = "eco"
    /\ \/ pc[t] = "serial" /\ Serial(t)
       \/ pc[t] = "next"
    /\ \/ \E i \in hand[t] :
            /\ Store(rows, files \cup {i})
            /\ cur' = [cur EXCEPT ![t] = i]
            /\ hand' = [hand EXCEPT ![t] = @ \ {i}]
            /\ Go(t, "check")
            /\ UNCHANGED serial
       \/ /\ Go(t, "leave")
          /\ serial' = Tail(serial)
          /\ UNCHANGED <<data, cur, hand>>
    /\ UNCHANGED <<line, paused, op, was>>

CheckRecord(t) ==
    /\ pc[t] = "check"
    /\ Go(t, IF cur[t] \in Listed THEN "next" ELSE "insert")
    /\ UNCHANGED <<data, locks, paused, op, local>>

\* A merge adds the rows the history lacks in one transaction, which can
\* fail, and only then copies the images.
MergeRows(t) ==
    /\ pc[t] = "merge"
    /\ \/ LET new == hand[t] \ Listed
              midway == {cur[u] : u \in {v \in Tasks : pc[v] = "insert"}}
          IN  /\ rows' = [i \in Images |-> IF i \in new THEN 1 ELSE rows[i]]
              /\ bare' = bare \cup (new \ files)
              /\ raced' = raced \cup (new \cap midway)
              /\ Go(t, "copy")
              /\ UNCHANGED files
       \/ Go(t, "leave") /\ UNCHANGED data
    /\ UNCHANGED <<locks, paused, op, local>>

\* The first file that cannot be copied ends the import.
CopyImages(t) ==
    /\ pc[t] = "copy"
    /\ \E S \in SUBSET hand[t] : Store(rows, files \cup S)
    /\ Go(t, "leave")
    /\ UNCHANGED <<locks, paused, op, local>>

-----------------------------------------------------------------------------
(* Backups.                                                                *)

\* The database goes into the archive first, then the resources.
ListRows(t) ==
    /\ pc[t] = "list"
    /\ hand' = [hand EXCEPT ![t] = Listed]
    /\ Go(t, "pack")
    /\ UNCHANGED <<data, locks, paused, op, cur, was>>

PackImages(t) ==
    /\ pc[t] = "pack"
    /\ Go(t, "leave")
    /\ UNCHANGED <<data, locks, paused, op, local>>

-----------------------------------------------------------------------------
(* Removing.                                                               *)

\* Deleting, clearing and the cleanup passes: rows in one transaction, then
\* the file of every row deleted.  A file that stays is only logged.
DeleteRows(t) ==
    /\ pc[t] = "rows"
    /\ \/ \E left \in [Images -> 0 .. 2] :
            /\ \A i \in Images : left[i] <= rows[i]
            /\ left # rows
            /\ Store(left, files)
            /\ hand' = [hand EXCEPT ![t] = {i \in Images : left[i] < rows[i]}]
            /\ Go(t, "files")
       \/ Go(t, "leave") /\ UNCHANGED <<data, hand>>
    /\ UNCHANGED <<locks, paused, op, cur, was>>

RemoveFiles(t) ==
    /\ pc[t] = "files"
    /\ \E S \in SUBSET hand[t] : Store(rows, files \ S)
    /\ Go(t, "leave")
    /\ UNCHANGED <<locks, paused, op, local>>

\* The cache sweep reads which images the rows name, then removes the others.
ReadRefs(t) ==
    /\ pc[t] = "refs"
    /\ hand' = [hand EXCEPT ![t] = Listed]
    /\ Go(t, "sweep")
    /\ UNCHANGED <<data, locks, paused, op, cur, was>>

SweepFiles(t) ==
    /\ pc[t] = "sweep"
    /\ \E S \in SUBSET (files \ hand[t]) : Store(rows, files \ S)
    /\ Go(t, "leave")
    /\ UNCHANGED <<locks, paused, op, local>>

\* With both locks: a switch keeps the data, an import brings a backup's,
\* and one that fails puts the old data back (module DataSwap).
SwapData(t) ==
    /\ op[t] = "swap"
    /\ pc[t] = "serial" /\ Serial(t)
    /\ \/ \E S \in SUBSET Images, F \in SUBSET Images :
            /\ S \subseteq F
            /\ Store([i \in Images |-> IF i \in S THEN 1 ELSE 0], F)
       \/ UNCHANGED data
    /\ serial' = Tail(serial)
    /\ Go(t, "leave")
    /\ UNCHANGED <<line, paused, op, local>>

-----------------------------------------------------------------------------
(* Ending.                                                                 *)

Rest(t) ==
    /\ op' = [op EXCEPT ![t] = "none"]
    /\ cur' = [cur EXCEPT ![t] = NoImage]
    /\ hand' = [hand EXCEPT ![t] = {}]
    /\ was' = [was EXCEPT ![t] = FALSE]
    /\ Go(t, "idle")

Leave(t) ==
    /\ pc[t] \in {"leave", "kept"}
    /\ IF op[t] = "swap"
       THEN Go(t, "resume") /\ UNCHANGED <<op, local>>
       ELSE Rest(t)
    /\ UNCHANGED <<data, locks, paused>>

\* The pause guard is dropped last.
Resume(t) ==
    /\ pc[t] = "resume"
    /\ Rest(t)
    /\ paused' = was[t]
    /\ UNCHANGED <<data, locks>>

\* The process dies: disk and database stay as they are.
Crash ==
    /\ \E t \in Tasks : pc[t] # "idle"
    /\ op' = [t \in Tasks |-> "none"]
    /\ pc' = [t \in Tasks |-> "idle"]
    /\ cur' = [t \in Tasks |-> NoImage]
    /\ hand' = [t \in Tasks |-> {}]
    /\ was' = [t \in Tasks |-> FALSE]
    /\ line' = <<>>
    /\ serial' = <<>>
    /\ paused' = FALSE
    /\ UNCHANGED data

Start(t) ==
    \/ \E i \in Images : BeginCapture(t, i)
    \/ \E i \in Images, o \in {"receive", "history"} : BeginReceive(t, i, o)
    \/ \E S \in SUBSET Images \ {{}}, o \in {"eco", "merge"} : BeginImport(t, S, o)
    \/ \E o \in {"export", "delete", "sweep"} : BeginOther(t, o)
    \/ BeginSwap(t)

Proceed(t) ==
    \/ Ask(t) \/ Enter(t)
    \/ Build(t) \/ Known(t) \/ Find(t) \/ Insert(t)
    \/ NextRecord(t) \/ CheckRecord(t) \/ MergeRows(t) \/ CopyImages(t)
    \/ ListRows(t) \/ PackImages(t)
    \/ DeleteRows(t) \/ RemoveFiles(t) \/ ReadRefs(t) \/ SweepFiles(t)
    \/ SwapData(t) \/ Leave(t) \/ Resume(t)

Next == Crash \/ \E t \in Tasks : Start(t) \/ Proceed(t)

\* Every operation runs on the runtime, which polls a ready task; nobody
\* has to begin one.
Fairness == \A t \in Tasks : WF_vars(Proceed(t))

Spec == Init /\ [][Next]_vars /\ Fairness

-----------------------------------------------------------------------------
(* Properties.                                                             *)

\* The shape of the state, and that no image has more than two rows.
TypeOK ==
    /\ rows \in [Images -> 0 .. 2]
    /\ files \subseteq Images /\ bare \subseteq Images /\ raced \subseteq Images
    /\ paused \in BOOLEAN
    /\ line \in Seq(Tasks) /\ serial \in Seq(Tasks)
    /\ op \in [Tasks -> Ops \cup {"none"}]
    /\ pc \in [Tasks -> Places]
    /\ cur \in [Tasks -> Images \cup {NoImage}]
    /\ hand \in [Tasks -> SUBSET Images]
    /\ was \in [Tasks -> BOOLEAN]

\* Every row of the history has its image, whatever captures, imports,
\* deletions, sweeps, swaps and crashes run together.  Excused are the rows
\* a merge has committed ahead of its files, and an image a merge gave a
\* second row: deleting one row removes the file under the other.
RowHasImage == Listed \subseteq files \cup bare \cup raced

\* Look up, then insert, gives an image one row, for captures, received
\* records and EcoPaste imports alike; only a merge that commits in between
\* makes two.
OneRowEach == \A i \in Images : rows[i] > 1 => i \in raced

\* What the comments on delete_item and ImageStore::remove rely on: an image
\* never has two rows.
OneRow == \A i \in Images : rows[i] <= 1

\* An image that is written and not yet in the database is not removed
\* under the task that wrote it, and a record that was stored is still there
\* when its task numbers it and offers it to the other devices.
InHand ==
    \A t \in Tasks :
        /\ pc[t] \in {"known", "insert", "kept", "check"} => cur[t] \in files
        /\ pc[t] = "serial" /\ op[t] \in Stores => cur[t] \in files
        /\ pc[t] = "kept" => cur[t] \in Listed

\* Between the two halves of a backup no image of a row already packed is
\* removed.
BackupWhole ==
    \A t \in Tasks : pc[t] = "pack" => hand[t] \subseteq files \cup bare \cup raced

\* Every operation that has begun ends: nobody is overtaken for ever at
\* either lock, and the locks are taken in one order.
TaskEnds == \A t \in Tasks : pc[t] # "idle" ~> pc[t] = "idle"
=============================================================================
