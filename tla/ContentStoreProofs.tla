-------------------------- MODULE ContentStoreProofs --------------------------
(***************************************************************************)
(* Every row keeps its image and an image keeps one row, for every number  *)
(* of images and tasks and whatever operations each task may run.          *)
(*                                                                         *)
(* None of the properties is inductive alone.  Three facts carry them: a   *)
(* task that removes is alone inside the reader-writer lock (Alone), a     *)
(* task between its lookup and its insert is the one that holds            *)
(* upsert_lock (SerialHeld), and what a task has listed under its lock     *)
(* stays true while it holds it (Midway, Hands).                           *)
(***************************************************************************)
EXTENDS ContentStore, TLAPS

(* Which operation stands where, and when it has an image in hand.         *)
Roles ==
    \A t \in Tasks :
        /\ pc[t] # "idle" => op[t] \in Ops
        /\ pc[t] \in {"build", "known", "kept"} => op[t] \in Stores
        /\ pc[t] = "insert" => op[t] \in Stores \cup {"eco"}
        /\ pc[t] \in {"check", "next"} => op[t] = "eco"
        /\ pc[t] = "serial" => op[t] \in Stores \cup {"eco", "swap"}
        /\ pc[t] \in {"merge", "copy"} => op[t] = "merge"
        /\ pc[t] \in {"list", "pack"} => op[t] = "export"
        /\ pc[t] \in {"rows", "files"} => op[t] = "delete"
        /\ pc[t] \in {"refs", "sweep"} => op[t] = "sweep"
        /\ op[t] \in Stores => cur[t] \in Images
        /\ pc[t] \in {"check", "insert"} => cur[t] \in Images

(* Who removes is alone inside.                                            *)
Alone ==
    \A t, u \in Tasks :
        (t # u /\ pc[t] \in Inside /\ Exclusive(t)) => pc[u] \notin Inside

(* Between its lookup and its insert a task holds upsert_lock.             *)
SerialHeld ==
    \A t \in Tasks :
        pc[t] \in {"insert", "check", "next"} => serial # <<>> /\ Head(serial) = t

(* What was looked up is still so, but for a merge that came between.      *)
Midway ==
    \A t \in Tasks :
        pc[t] = "insert" => /\ rows[cur[t]] <= 1
                            /\ rows[cur[t]] = 1 => cur[t] \in raced

(* What a removing or packing task has listed.                             *)
Hands ==
    \A t \in Tasks :
        /\ pc[t] = "files" => hand[t] \cap Listed \subseteq raced
        /\ pc[t] = "sweep" => hand[t] = Listed
        /\ pc[t] = "pack" => hand[t] \subseteq Listed

IInv ==
    /\ TypeOK /\ Roles /\ Alone /\ SerialHeld /\ Midway
    /\ OneRowEach /\ InHand /\ RowHasImage /\ Hands

-----------------------------------------------------------------------------
(* Appending to a queue and taking from it.                                *)
LEMMA AppendHead ==
    \A s \in Seq(Tasks), t \in Tasks :
        s # <<>> => Append(s, t) # <<>> /\ Head(Append(s, t)) = Head(s)
OBVIOUS

LEMMA SeqTypes ==
    /\ \A s \in Seq(Tasks), t \in Tasks : Append(s, t) \in Seq(Tasks)
    /\ \A s \in Seq(Tasks) : s # <<>> => Tail(s) \in Seq(Tasks)
    /\ <<>> \in Seq(Tasks)
OBVIOUS

(* Every step keeps each operation at its own places.                      *)
LEMMA RolesStep ==
    ASSUME IInv, [Next]_vars
    PROVE  Roles'
<1>1. ASSUME NEW t \in Tasks, NEW i \in Images, BeginCapture(t, i) PROVE Roles'
  BY <1>1, WorkAssumption, NoImageAssumption DEF IInv, TypeOK, Roles, BeginCapture, Begin, Go, data, locks, local, First, Ops, Stores, Removers
<1>2. ASSUME NEW t \in Tasks, NEW i \in Images, NEW o \in {"receive", "history"},
           BeginReceive(t, i, o)
    PROVE  Roles'
  BY <1>2, WorkAssumption, NoImageAssumption DEF IInv, TypeOK, Roles, BeginReceive, Begin, Join, Go, data, locks, local, First, Ops, Stores, Removers
<1>3. ASSUME NEW t \in Tasks, NEW S \in SUBSET Images \ {{}}, NEW o \in {"eco", "merge"},
           BeginImport(t, S, o)
    PROVE  Roles'
  BY <1>3, WorkAssumption, NoImageAssumption DEF IInv, TypeOK, Roles, BeginImport, Begin, Join, Go, data, locks, local, First, Ops, Stores, Removers
<1>4. ASSUME NEW t \in Tasks, NEW o \in {"export", "delete", "sweep"},
           BeginOther(t, o)
    PROVE  Roles'
  BY <1>4, WorkAssumption, NoImageAssumption DEF IInv, TypeOK, Roles, BeginOther, Begin, Join, Go, data, locks, local, First, Ops, Stores, Removers
<1>5. ASSUME NEW t \in Tasks, BeginSwap(t) PROVE Roles'
  BY <1>5, WorkAssumption, NoImageAssumption DEF IInv, TypeOK, Roles, BeginSwap, Begin, Go, data, locks, local, First, Ops, Stores, Removers
<1>6. ASSUME NEW t \in Tasks, Ask(t) PROVE Roles'
  BY <1>6, WorkAssumption, NoImageAssumption DEF IInv, TypeOK, Roles, Ask, Join, Go, data, locks, local, First, Ops, Stores, Removers
<1>7. ASSUME NEW t \in Tasks, Enter(t) PROVE Roles'
  BY <1>7, WorkAssumption, NoImageAssumption DEF IInv, TypeOK, Roles, Enter, MayEnter, Admits, Go, data, locks, local, First, Ops, Stores, Removers
<1>8. ASSUME NEW t \in Tasks, Build(t) PROVE Roles'
  BY <1>8, WorkAssumption, NoImageAssumption DEF IInv, TypeOK, Roles, Build, Go, Store, data, locks, local, First, Ops, Stores, Removers
<1>9. ASSUME NEW t \in Tasks, Known(t) PROVE Roles'
  BY <1>9, WorkAssumption, NoImageAssumption DEF IInv, TypeOK, Roles, Known, Go, data, locks, local, First, Ops, Stores, Removers
<1>10. ASSUME NEW t \in Tasks, Find(t) PROVE Roles'
  BY <1>10, WorkAssumption, NoImageAssumption DEF IInv, TypeOK, Roles, Find, Serial, Go, data, locks, local, First, Ops, Stores, Removers
<1>11. ASSUME NEW t \in Tasks, Insert(t) PROVE Roles'
  BY <1>11, WorkAssumption, NoImageAssumption DEF IInv, TypeOK, Roles, Insert, Go, Store, data, locks, local, First, Ops, Stores, Removers
<1>12. ASSUME NEW t \in Tasks, NextRecord(t) PROVE Roles'
  BY <1>12, WorkAssumption, NoImageAssumption DEF IInv, TypeOK, Roles, NextRecord, Serial, Go, Store, data, locks, local, First, Ops, Stores, Removers
<1>13. ASSUME NEW t \in Tasks, CheckRecord(t) PROVE Roles'
  BY <1>13, WorkAssumption, NoImageAssumption DEF IInv, TypeOK, Roles, CheckRecord, Go, data, locks, local, First, Ops, Stores, Removers
<1>14. ASSUME NEW t \in Tasks, MergeRows(t) PROVE Roles'
  BY <1>14, WorkAssumption, NoImageAssumption DEF IInv, TypeOK, Roles, MergeRows, Go, data, locks, local, First, Ops, Stores, Removers
<1>15. ASSUME NEW t \in Tasks, CopyImages(t) PROVE Roles'
  BY <1>15, WorkAssumption, NoImageAssumption DEF IInv, TypeOK, Roles, CopyImages, Go, Store, data, locks, local, First, Ops, Stores, Removers
<1>16. ASSUME NEW t \in Tasks, ListRows(t) PROVE Roles'
  BY <1>16, WorkAssumption, NoImageAssumption DEF IInv, TypeOK, Roles, ListRows, Go, data, locks, local, First, Ops, Stores, Removers
<1>17. ASSUME NEW t \in Tasks, PackImages(t) PROVE Roles'
  BY <1>17, WorkAssumption, NoImageAssumption DEF IInv, TypeOK, Roles, PackImages, Go, data, locks, local, First, Ops, Stores, Removers
<1>18. ASSUME NEW t \in Tasks, DeleteRows(t) PROVE Roles'
  BY <1>18, WorkAssumption, NoImageAssumption DEF IInv, TypeOK, Roles, DeleteRows, Go, Store, data, locks, local, First, Ops, Stores, Removers
<1>19. ASSUME NEW t \in Tasks, RemoveFiles(t) PROVE Roles'
  BY <1>19, WorkAssumption, NoImageAssumption DEF IInv, TypeOK, Roles, RemoveFiles, Go, Store, data, locks, local, First, Ops, Stores, Removers
<1>20. ASSUME NEW t \in Tasks, ReadRefs(t) PROVE Roles'
  BY <1>20, WorkAssumption, NoImageAssumption DEF IInv, TypeOK, Roles, ReadRefs, Go, data, locks, local, First, Ops, Stores, Removers
<1>21. ASSUME NEW t \in Tasks, SweepFiles(t) PROVE Roles'
  BY <1>21, WorkAssumption, NoImageAssumption DEF IInv, TypeOK, Roles, SweepFiles, Go, Store, data, locks, local, First, Ops, Stores, Removers
<1>22. ASSUME NEW t \in Tasks, SwapData(t) PROVE Roles'
  BY <1>22, WorkAssumption, NoImageAssumption DEF IInv, TypeOK, Roles, SwapData, Serial, Go, Store, data, locks, local, First, Ops, Stores, Removers
<1>23. ASSUME NEW t \in Tasks, Leave(t) PROVE Roles'
  BY <1>23, WorkAssumption, NoImageAssumption DEF IInv, TypeOK, Roles, Leave, Rest, Go, data, locks, local, First, Ops, Stores, Removers
<1>24. ASSUME NEW t \in Tasks, Resume(t) PROVE Roles'
  BY <1>24, WorkAssumption, NoImageAssumption DEF IInv, TypeOK, Roles, Resume, Rest, Go, data, locks, local, First, Ops, Stores, Removers
<1>25. ASSUME Crash PROVE Roles'
  BY <1>25, WorkAssumption, NoImageAssumption DEF IInv, TypeOK, Roles, Crash, data, locks, local, First, Ops, Stores, Removers
<1>26. CASE UNCHANGED vars
  BY <1>26 DEF IInv, TypeOK, Roles, data, locks, local, First, Ops, Stores, Removers, vars
<1>27. QED
  BY <1>1, <1>2, <1>3, <1>4, <1>5, <1>6, <1>7, <1>8, <1>9, <1>10, <1>11, <1>12, <1>13, <1>14, <1>15, <1>16, <1>17, <1>18, <1>19, <1>20, <1>21, <1>22, <1>23, <1>24, <1>25, <1>26 DEF Next, Start, Proceed

(* Who enters alone finds nobody inside, and nobody enters beside it.      *)
LEMMA AloneStep ==
    ASSUME IInv, [Next]_vars
    PROVE  Alone'
<1>1. ASSUME NEW t \in Tasks, NEW i \in Images, BeginCapture(t, i) PROVE Alone'
  BY <1>1 DEF IInv, TypeOK, Roles, Alone, Exclusive, Inside, BeginCapture, Begin, Go, data, locks, local, Ops, Stores, Removers
<1>2. ASSUME NEW t \in Tasks, NEW i \in Images, NEW o \in {"receive", "history"},
           BeginReceive(t, i, o)
    PROVE  Alone'
  BY <1>2 DEF IInv, TypeOK, Roles, Alone, Exclusive, Inside, BeginReceive, Begin, Join, Go, data, locks, local, Ops, Stores, Removers
<1>3. ASSUME NEW t \in Tasks, NEW S \in SUBSET Images \ {{}}, NEW o \in {"eco", "merge"},
           BeginImport(t, S, o)
    PROVE  Alone'
  BY <1>3 DEF IInv, TypeOK, Roles, Alone, Exclusive, Inside, BeginImport, Begin, Join, Go, data, locks, local, Ops, Stores, Removers
<1>4. ASSUME NEW t \in Tasks, NEW o \in {"export", "delete", "sweep"},
           BeginOther(t, o)
    PROVE  Alone'
  BY <1>4 DEF IInv, TypeOK, Roles, Alone, Exclusive, Inside, BeginOther, Begin, Join, Go, data, locks, local, Ops, Stores, Removers
<1>5. ASSUME NEW t \in Tasks, BeginSwap(t) PROVE Alone'
  BY <1>5 DEF IInv, TypeOK, Roles, Alone, Exclusive, Inside, BeginSwap, Begin, Go, data, locks, local, Ops, Stores, Removers
<1>6. ASSUME NEW t \in Tasks, Ask(t) PROVE Alone'
  BY <1>6 DEF IInv, TypeOK, Roles, Alone, Exclusive, Inside, Ask, Join, Go, data, locks, local, Ops, Stores, Removers
<1>7. ASSUME NEW t \in Tasks, Enter(t) PROVE Alone'
  BY <1>7 DEF IInv, TypeOK, Roles, Alone, Exclusive, Inside, Enter, MayEnter, Admits, Go, data, locks, local, Ops, Stores, Removers
<1>8. ASSUME NEW t \in Tasks, Build(t) PROVE Alone'
  BY <1>8 DEF IInv, TypeOK, Roles, Alone, Exclusive, Inside, Build, Go, Store, data, locks, local, Ops, Stores, Removers
<1>9. ASSUME NEW t \in Tasks, Known(t) PROVE Alone'
  BY <1>9 DEF IInv, TypeOK, Roles, Alone, Exclusive, Inside, Known, Go, data, locks, local, Ops, Stores, Removers
<1>10. ASSUME NEW t \in Tasks, Find(t) PROVE Alone'
  BY <1>10 DEF IInv, TypeOK, Roles, Alone, Exclusive, Inside, Find, Serial, Go, data, locks, local, Ops, Stores, Removers
<1>11. ASSUME NEW t \in Tasks, Insert(t) PROVE Alone'
  BY <1>11 DEF IInv, TypeOK, Roles, Alone, Exclusive, Inside, Insert, Go, Store, data, locks, local, Ops, Stores, Removers
<1>12. ASSUME NEW t \in Tasks, NextRecord(t) PROVE Alone'
  BY <1>12 DEF IInv, TypeOK, Roles, Alone, Exclusive, Inside, NextRecord, Serial, Go, Store, data, locks, local, Ops, Stores, Removers
<1>13. ASSUME NEW t \in Tasks, CheckRecord(t) PROVE Alone'
  BY <1>13 DEF IInv, TypeOK, Roles, Alone, Exclusive, Inside, CheckRecord, Go, data, locks, local, Ops, Stores, Removers
<1>14. ASSUME NEW t \in Tasks, MergeRows(t) PROVE Alone'
  BY <1>14 DEF IInv, TypeOK, Roles, Alone, Exclusive, Inside, MergeRows, Go, data, locks, local, Ops, Stores, Removers
<1>15. ASSUME NEW t \in Tasks, CopyImages(t) PROVE Alone'
  BY <1>15 DEF IInv, TypeOK, Roles, Alone, Exclusive, Inside, CopyImages, Go, Store, data, locks, local, Ops, Stores, Removers
<1>16. ASSUME NEW t \in Tasks, ListRows(t) PROVE Alone'
  BY <1>16 DEF IInv, TypeOK, Roles, Alone, Exclusive, Inside, ListRows, Go, data, locks, local, Ops, Stores, Removers
<1>17. ASSUME NEW t \in Tasks, PackImages(t) PROVE Alone'
  BY <1>17 DEF IInv, TypeOK, Roles, Alone, Exclusive, Inside, PackImages, Go, data, locks, local, Ops, Stores, Removers
<1>18. ASSUME NEW t \in Tasks, DeleteRows(t) PROVE Alone'
  BY <1>18 DEF IInv, TypeOK, Roles, Alone, Exclusive, Inside, DeleteRows, Go, Store, data, locks, local, Ops, Stores, Removers
<1>19. ASSUME NEW t \in Tasks, RemoveFiles(t) PROVE Alone'
  BY <1>19 DEF IInv, TypeOK, Roles, Alone, Exclusive, Inside, RemoveFiles, Go, Store, data, locks, local, Ops, Stores, Removers
<1>20. ASSUME NEW t \in Tasks, ReadRefs(t) PROVE Alone'
  BY <1>20 DEF IInv, TypeOK, Roles, Alone, Exclusive, Inside, ReadRefs, Go, data, locks, local, Ops, Stores, Removers
<1>21. ASSUME NEW t \in Tasks, SweepFiles(t) PROVE Alone'
  BY <1>21 DEF IInv, TypeOK, Roles, Alone, Exclusive, Inside, SweepFiles, Go, Store, data, locks, local, Ops, Stores, Removers
<1>22. ASSUME NEW t \in Tasks, SwapData(t) PROVE Alone'
  BY <1>22 DEF IInv, TypeOK, Roles, Alone, Exclusive, Inside, SwapData, Serial, Go, Store, data, locks, local, Ops, Stores, Removers
<1>23. ASSUME NEW t \in Tasks, Leave(t) PROVE Alone'
  BY <1>23 DEF IInv, TypeOK, Roles, Alone, Exclusive, Inside, Leave, Rest, Go, data, locks, local, Ops, Stores, Removers
<1>24. ASSUME NEW t \in Tasks, Resume(t) PROVE Alone'
  BY <1>24 DEF IInv, TypeOK, Roles, Alone, Exclusive, Inside, Resume, Rest, Go, data, locks, local, Ops, Stores, Removers
<1>25. ASSUME Crash PROVE Alone'
  BY <1>25 DEF IInv, TypeOK, Roles, Alone, Exclusive, Inside, Crash, data, locks, local, Ops, Stores, Removers
<1>26. CASE UNCHANGED vars
  BY <1>26 DEF IInv, TypeOK, Roles, Alone, Exclusive, Inside, data, locks, local, Ops, Stores, Removers, vars
<1>27. QED
  BY <1>1, <1>2, <1>3, <1>4, <1>5, <1>6, <1>7, <1>8, <1>9, <1>10, <1>11, <1>12, <1>13, <1>14, <1>15, <1>16, <1>17, <1>18, <1>19, <1>20, <1>21, <1>22, <1>23, <1>24, <1>25, <1>26 DEF Next, Start, Proceed

(* The first in line at upsert_lock stays first until it leaves itself.    *)
LEMMA SerialStep ==
    ASSUME IInv, [Next]_vars
    PROVE  SerialHeld'
<1>1. ASSUME NEW t \in Tasks, NEW i \in Images, BeginCapture(t, i) PROVE SerialHeld'
  BY <1>1, AppendHead DEF IInv, TypeOK, Roles, SerialHeld, BeginCapture, Begin, Go, data, locks, local, First, Ops, Stores, Removers
<1>2. ASSUME NEW t \in Tasks, NEW i \in Images, NEW o \in {"receive", "history"},
           BeginReceive(t, i, o)
    PROVE  SerialHeld'
  BY <1>2, AppendHead DEF IInv, TypeOK, Roles, SerialHeld, BeginReceive, Begin, Join, Go, data, locks, local, First, Ops, Stores, Removers
<1>3. ASSUME NEW t \in Tasks, NEW S \in SUBSET Images \ {{}}, NEW o \in {"eco", "merge"},
           BeginImport(t, S, o)
    PROVE  SerialHeld'
  BY <1>3, AppendHead DEF IInv, TypeOK, Roles, SerialHeld, BeginImport, Begin, Join, Go, data, locks, local, First, Ops, Stores, Removers
<1>4. ASSUME NEW t \in Tasks, NEW o \in {"export", "delete", "sweep"},
           BeginOther(t, o)
    PROVE  SerialHeld'
  BY <1>4, AppendHead DEF IInv, TypeOK, Roles, SerialHeld, BeginOther, Begin, Join, Go, data, locks, local, First, Ops, Stores, Removers
<1>5. ASSUME NEW t \in Tasks, BeginSwap(t) PROVE SerialHeld'
  BY <1>5, AppendHead DEF IInv, TypeOK, Roles, SerialHeld, BeginSwap, Begin, Go, data, locks, local, First, Ops, Stores, Removers
<1>6. ASSUME NEW t \in Tasks, Ask(t) PROVE SerialHeld'
  BY <1>6, AppendHead DEF IInv, TypeOK, Roles, SerialHeld, Ask, Join, Go, data, locks, local, First, Ops, Stores, Removers
<1>7. ASSUME NEW t \in Tasks, Enter(t) PROVE SerialHeld'
  BY <1>7, AppendHead DEF IInv, TypeOK, Roles, SerialHeld, Enter, MayEnter, Admits, Go, data, locks, local, First, Ops, Stores, Removers
<1>8. ASSUME NEW t \in Tasks, Build(t) PROVE SerialHeld'
  BY <1>8, AppendHead DEF IInv, TypeOK, Roles, SerialHeld, Build, Go, Store, data, locks, local, First, Ops, Stores, Removers
<1>9. ASSUME NEW t \in Tasks, Known(t) PROVE SerialHeld'
  BY <1>9, AppendHead DEF IInv, TypeOK, Roles, SerialHeld, Known, Go, data, locks, local, First, Ops, Stores, Removers
<1>10. ASSUME NEW t \in Tasks, Find(t) PROVE SerialHeld'
  BY <1>10, AppendHead DEF IInv, TypeOK, Roles, SerialHeld, Find, Serial, Go, data, locks, local, First, Ops, Stores, Removers
<1>11. ASSUME NEW t \in Tasks, Insert(t) PROVE SerialHeld'
  BY <1>11, AppendHead DEF IInv, TypeOK, Roles, SerialHeld, Insert, Go, Store, data, locks, local, First, Ops, Stores, Removers
<1>12. ASSUME NEW t \in Tasks, NextRecord(t) PROVE SerialHeld'
  BY <1>12, AppendHead DEF IInv, TypeOK, Roles, SerialHeld, NextRecord, Serial, Go, Store, data, locks, local, First, Ops, Stores, Removers
<1>13. ASSUME NEW t \in Tasks, CheckRecord(t) PROVE SerialHeld'
  BY <1>13, AppendHead DEF IInv, TypeOK, Roles, SerialHeld, CheckRecord, Go, data, locks, local, First, Ops, Stores, Removers
<1>14. ASSUME NEW t \in Tasks, MergeRows(t) PROVE SerialHeld'
  BY <1>14, AppendHead DEF IInv, TypeOK, Roles, SerialHeld, MergeRows, Go, data, locks, local, First, Ops, Stores, Removers
<1>15. ASSUME NEW t \in Tasks, CopyImages(t) PROVE SerialHeld'
  BY <1>15, AppendHead DEF IInv, TypeOK, Roles, SerialHeld, CopyImages, Go, Store, data, locks, local, First, Ops, Stores, Removers
<1>16. ASSUME NEW t \in Tasks, ListRows(t) PROVE SerialHeld'
  BY <1>16, AppendHead DEF IInv, TypeOK, Roles, SerialHeld, ListRows, Go, data, locks, local, First, Ops, Stores, Removers
<1>17. ASSUME NEW t \in Tasks, PackImages(t) PROVE SerialHeld'
  BY <1>17, AppendHead DEF IInv, TypeOK, Roles, SerialHeld, PackImages, Go, data, locks, local, First, Ops, Stores, Removers
<1>18. ASSUME NEW t \in Tasks, DeleteRows(t) PROVE SerialHeld'
  BY <1>18, AppendHead DEF IInv, TypeOK, Roles, SerialHeld, DeleteRows, Go, Store, data, locks, local, First, Ops, Stores, Removers
<1>19. ASSUME NEW t \in Tasks, RemoveFiles(t) PROVE SerialHeld'
  BY <1>19, AppendHead DEF IInv, TypeOK, Roles, SerialHeld, RemoveFiles, Go, Store, data, locks, local, First, Ops, Stores, Removers
<1>20. ASSUME NEW t \in Tasks, ReadRefs(t) PROVE SerialHeld'
  BY <1>20, AppendHead DEF IInv, TypeOK, Roles, SerialHeld, ReadRefs, Go, data, locks, local, First, Ops, Stores, Removers
<1>21. ASSUME NEW t \in Tasks, SweepFiles(t) PROVE SerialHeld'
  BY <1>21, AppendHead DEF IInv, TypeOK, Roles, SerialHeld, SweepFiles, Go, Store, data, locks, local, First, Ops, Stores, Removers
<1>22. ASSUME NEW t \in Tasks, SwapData(t) PROVE SerialHeld'
  BY <1>22, AppendHead DEF IInv, TypeOK, Roles, SerialHeld, SwapData, Serial, Go, Store, data, locks, local, First, Ops, Stores, Removers
<1>23. ASSUME NEW t \in Tasks, Leave(t) PROVE SerialHeld'
  BY <1>23, AppendHead DEF IInv, TypeOK, Roles, SerialHeld, Leave, Rest, Go, data, locks, local, First, Ops, Stores, Removers
<1>24. ASSUME NEW t \in Tasks, Resume(t) PROVE SerialHeld'
  BY <1>24, AppendHead DEF IInv, TypeOK, Roles, SerialHeld, Resume, Rest, Go, data, locks, local, First, Ops, Stores, Removers
<1>25. ASSUME Crash PROVE SerialHeld'
  BY <1>25, AppendHead DEF IInv, TypeOK, Roles, SerialHeld, Crash, data, locks, local, First, Ops, Stores, Removers
<1>26. CASE UNCHANGED vars
  BY <1>26 DEF IInv, TypeOK, Roles, SerialHeld, data, locks, local, First, Ops, Stores, Removers, vars
<1>27. QED
  BY <1>1, <1>2, <1>3, <1>4, <1>5, <1>6, <1>7, <1>8, <1>9, <1>10, <1>11, <1>12, <1>13, <1>14, <1>15, <1>16, <1>17, <1>18, <1>19, <1>20, <1>21, <1>22, <1>23, <1>24, <1>25, <1>26 DEF Next, Start, Proceed

(* Nobody else inserts between a lookup and its insert; a merge that does  *)
(* marks the image raced.                                                  *)
LEMMA RowsStep ==
    ASSUME IInv, [Next]_vars
    PROVE  Midway'
<1>1. ASSUME NEW t \in Tasks, NEW i \in Images, BeginCapture(t, i) PROVE Midway'
  BY <1>1 DEF IInv, TypeOK, Roles, Alone, SerialHeld, Midway, Exclusive, Inside, BeginCapture, Begin, Go, data, locks, local, First, Places, Ops, Stores, Removers, Listed
<1>2. ASSUME NEW t \in Tasks, NEW i \in Images, NEW o \in {"receive", "history"},
           BeginReceive(t, i, o)
    PROVE  Midway'
  BY <1>2 DEF IInv, TypeOK, Roles, Alone, SerialHeld, Midway, Exclusive, Inside, BeginReceive, Begin, Join, Go, data, locks, local, First, Places, Ops, Stores, Removers, Listed
<1>3. ASSUME NEW t \in Tasks, NEW S \in SUBSET Images \ {{}}, NEW o \in {"eco", "merge"},
           BeginImport(t, S, o)
    PROVE  Midway'
  BY <1>3 DEF IInv, TypeOK, Roles, Alone, SerialHeld, Midway, Exclusive, Inside, BeginImport, Begin, Join, Go, data, locks, local, First, Places, Ops, Stores, Removers, Listed
<1>4. ASSUME NEW t \in Tasks, NEW o \in {"export", "delete", "sweep"},
           BeginOther(t, o)
    PROVE  Midway'
  BY <1>4 DEF IInv, TypeOK, Roles, Alone, SerialHeld, Midway, Exclusive, Inside, BeginOther, Begin, Join, Go, data, locks, local, First, Places, Ops, Stores, Removers, Listed
<1>5. ASSUME NEW t \in Tasks, BeginSwap(t) PROVE Midway'
  BY <1>5 DEF IInv, TypeOK, Roles, Alone, SerialHeld, Midway, Exclusive, Inside, BeginSwap, Begin, Go, data, locks, local, First, Places, Ops, Stores, Removers, Listed
<1>6. ASSUME NEW t \in Tasks, Ask(t) PROVE Midway'
  BY <1>6 DEF IInv, TypeOK, Roles, Alone, SerialHeld, Midway, Exclusive, Inside, Ask, Join, Go, data, locks, local, First, Places, Ops, Stores, Removers, Listed
<1>7. ASSUME NEW t \in Tasks, Enter(t) PROVE Midway'
  BY <1>7 DEF IInv, TypeOK, Roles, Alone, SerialHeld, Midway, Exclusive, Inside, Enter, MayEnter, Admits, Go, data, locks, local, First, Places, Ops, Stores, Removers, Listed
<1>8. ASSUME NEW t \in Tasks, Build(t) PROVE Midway'
  BY <1>8 DEF IInv, TypeOK, Roles, Alone, SerialHeld, Midway, Exclusive, Inside, Build, Go, Store, data, locks, local, First, Places, Ops, Stores, Removers, Listed
<1>9. ASSUME NEW t \in Tasks, Known(t) PROVE Midway'
  BY <1>9 DEF IInv, TypeOK, Roles, Alone, SerialHeld, Midway, Exclusive, Inside, Known, Go, data, locks, local, First, Places, Ops, Stores, Removers, Listed
<1>10. ASSUME NEW t \in Tasks, Find(t) PROVE Midway'
  BY <1>10 DEF IInv, TypeOK, Roles, Alone, SerialHeld, Midway, Exclusive, Inside, Find, Serial, Go, data, locks, local, First, Places, Ops, Stores, Removers, Listed
<1>11. ASSUME NEW t \in Tasks, Insert(t) PROVE Midway'
  BY <1>11 DEF IInv, TypeOK, Roles, Alone, SerialHeld, Midway, Exclusive, Inside, Insert, Go, Store, data, locks, local, First, Places, Ops, Stores, Removers, Listed
<1>12. ASSUME NEW t \in Tasks, NextRecord(t) PROVE Midway'
  BY <1>12 DEF IInv, TypeOK, Roles, Alone, SerialHeld, Midway, Exclusive, Inside, NextRecord, Serial, Go, Store, data, locks, local, First, Places, Ops, Stores, Removers, Listed
<1>13. ASSUME NEW t \in Tasks, CheckRecord(t) PROVE Midway'
  BY <1>13 DEF IInv, TypeOK, Roles, Alone, SerialHeld, Midway, Exclusive, Inside, CheckRecord, Go, data, locks, local, First, Places, Ops, Stores, Removers, Listed
<1>14. ASSUME NEW t \in Tasks, MergeRows(t) PROVE Midway'
  BY <1>14 DEF IInv, TypeOK, Roles, Alone, SerialHeld, Midway, Exclusive, Inside, MergeRows, Go, data, locks, local, First, Places, Ops, Stores, Removers, Listed
<1>15. ASSUME NEW t \in Tasks, CopyImages(t) PROVE Midway'
  BY <1>15 DEF IInv, TypeOK, Roles, Alone, SerialHeld, Midway, Exclusive, Inside, CopyImages, Go, Store, data, locks, local, First, Places, Ops, Stores, Removers, Listed
<1>16. ASSUME NEW t \in Tasks, ListRows(t) PROVE Midway'
  BY <1>16 DEF IInv, TypeOK, Roles, Alone, SerialHeld, Midway, Exclusive, Inside, ListRows, Go, data, locks, local, First, Places, Ops, Stores, Removers, Listed
<1>17. ASSUME NEW t \in Tasks, PackImages(t) PROVE Midway'
  BY <1>17 DEF IInv, TypeOK, Roles, Alone, SerialHeld, Midway, Exclusive, Inside, PackImages, Go, data, locks, local, First, Places, Ops, Stores, Removers, Listed
<1>18. ASSUME NEW t \in Tasks, DeleteRows(t) PROVE Midway'
  BY <1>18 DEF IInv, TypeOK, Roles, Alone, SerialHeld, Midway, Exclusive, Inside, DeleteRows, Go, Store, data, locks, local, First, Places, Ops, Stores, Removers, Listed
<1>19. ASSUME NEW t \in Tasks, RemoveFiles(t) PROVE Midway'
  BY <1>19 DEF IInv, TypeOK, Roles, Alone, SerialHeld, Midway, Exclusive, Inside, RemoveFiles, Go, Store, data, locks, local, First, Places, Ops, Stores, Removers, Listed
<1>20. ASSUME NEW t \in Tasks, ReadRefs(t) PROVE Midway'
  BY <1>20 DEF IInv, TypeOK, Roles, Alone, SerialHeld, Midway, Exclusive, Inside, ReadRefs, Go, data, locks, local, First, Places, Ops, Stores, Removers, Listed
<1>21. ASSUME NEW t \in Tasks, SweepFiles(t) PROVE Midway'
  BY <1>21 DEF IInv, TypeOK, Roles, Alone, SerialHeld, Midway, Exclusive, Inside, SweepFiles, Go, Store, data, locks, local, First, Places, Ops, Stores, Removers, Listed
<1>22. ASSUME NEW t \in Tasks, SwapData(t) PROVE Midway'
  BY <1>22 DEF IInv, TypeOK, Roles, Alone, SerialHeld, Midway, Exclusive, Inside, SwapData, Serial, Go, Store, data, locks, local, First, Places, Ops, Stores, Removers, Listed
<1>23. ASSUME NEW t \in Tasks, Leave(t) PROVE Midway'
  BY <1>23 DEF IInv, TypeOK, Roles, Alone, SerialHeld, Midway, Exclusive, Inside, Leave, Rest, Go, data, locks, local, First, Places, Ops, Stores, Removers, Listed
<1>24. ASSUME NEW t \in Tasks, Resume(t) PROVE Midway'
  BY <1>24 DEF IInv, TypeOK, Roles, Alone, SerialHeld, Midway, Exclusive, Inside, Resume, Rest, Go, data, locks, local, First, Places, Ops, Stores, Removers, Listed
<1>25. ASSUME Crash PROVE Midway'
  BY <1>25 DEF IInv, TypeOK, Roles, Alone, SerialHeld, Midway, Exclusive, Inside, Crash, data, locks, local, First, Places, Ops, Stores, Removers, Listed
<1>26. CASE UNCHANGED vars
  BY <1>26 DEF IInv, TypeOK, Roles, Alone, SerialHeld, Midway, Exclusive, Inside, data, locks, local, First, Places, Ops, Stores, Removers, Listed, vars
<1>27. QED
  BY <1>1, <1>2, <1>3, <1>4, <1>5, <1>6, <1>7, <1>8, <1>9, <1>10, <1>11, <1>12, <1>13, <1>14, <1>15, <1>16, <1>17, <1>18, <1>19, <1>20, <1>21, <1>22, <1>23, <1>24, <1>25, <1>26 DEF Next, Start, Proceed

(* A second row comes only from an insert whose image a merge raced.        *)
LEMMA OneRowStep ==
    ASSUME IInv, [Next]_vars
    PROVE  OneRowEach'
<1>1. ASSUME NEW t \in Tasks, NEW i \in Images, BeginCapture(t, i) PROVE OneRowEach'
  BY <1>1 DEF IInv, TypeOK, Roles, Midway, OneRowEach, BeginCapture, Begin, Go, data, locks, local, Listed
<1>2. ASSUME NEW t \in Tasks, NEW i \in Images, NEW o \in {"receive", "history"},
           BeginReceive(t, i, o)
    PROVE  OneRowEach'
  BY <1>2 DEF IInv, TypeOK, Roles, Midway, OneRowEach, BeginReceive, Begin, Join, Go, data, locks, local, Listed
<1>3. ASSUME NEW t \in Tasks, NEW S \in SUBSET Images \ {{}}, NEW o \in {"eco", "merge"},
           BeginImport(t, S, o)
    PROVE  OneRowEach'
  BY <1>3 DEF IInv, TypeOK, Roles, Midway, OneRowEach, BeginImport, Begin, Join, Go, data, locks, local, Listed
<1>4. ASSUME NEW t \in Tasks, NEW o \in {"export", "delete", "sweep"},
           BeginOther(t, o)
    PROVE  OneRowEach'
  BY <1>4 DEF IInv, TypeOK, Roles, Midway, OneRowEach, BeginOther, Begin, Join, Go, data, locks, local, Listed
<1>5. ASSUME NEW t \in Tasks, BeginSwap(t) PROVE OneRowEach'
  BY <1>5 DEF IInv, TypeOK, Roles, Midway, OneRowEach, BeginSwap, Begin, Go, data, locks, local, Listed
<1>6. ASSUME NEW t \in Tasks, Ask(t) PROVE OneRowEach'
  BY <1>6 DEF IInv, TypeOK, Roles, Midway, OneRowEach, Ask, Join, Go, data, locks, local, Listed
<1>7. ASSUME NEW t \in Tasks, Enter(t) PROVE OneRowEach'
  BY <1>7 DEF IInv, TypeOK, Roles, Midway, OneRowEach, Enter, MayEnter, Admits, Go, data, locks, local, Listed
<1>8. ASSUME NEW t \in Tasks, Build(t) PROVE OneRowEach'
  BY <1>8 DEF IInv, TypeOK, Roles, Midway, OneRowEach, Build, Go, Store, data, locks, local, Listed
<1>9. ASSUME NEW t \in Tasks, Known(t) PROVE OneRowEach'
  BY <1>9 DEF IInv, TypeOK, Roles, Midway, OneRowEach, Known, Go, data, locks, local, Listed
<1>10. ASSUME NEW t \in Tasks, Find(t) PROVE OneRowEach'
  BY <1>10 DEF IInv, TypeOK, Roles, Midway, OneRowEach, Find, Serial, Go, data, locks, local, Listed
<1>11. ASSUME NEW t \in Tasks, Insert(t) PROVE OneRowEach'
  BY <1>11 DEF IInv, TypeOK, Roles, Midway, OneRowEach, Insert, Go, Store, data, locks, local, Listed
<1>12. ASSUME NEW t \in Tasks, NextRecord(t) PROVE OneRowEach'
  <2>1. rows' = rows /\ raced \cap Listed \subseteq raced'
    BY <1>12 DEF NextRecord, Store, data, Listed, IInv, TypeOK
  <2>2. QED
    BY <2>1 DEF IInv, TypeOK, OneRowEach, Listed
<1>13. ASSUME NEW t \in Tasks, CheckRecord(t) PROVE OneRowEach'
  BY <1>13 DEF IInv, TypeOK, Roles, Midway, OneRowEach, CheckRecord, Go, data, locks, local, Listed
<1>14. ASSUME NEW t \in Tasks, MergeRows(t) PROVE OneRowEach'
  <2>1. raced \subseteq raced' /\ \A i \in Images : rows'[i] \in {1, rows[i]}
    BY <1>14 DEF MergeRows, data, IInv, TypeOK
  <2>2. QED
    BY <2>1 DEF IInv, TypeOK, OneRowEach
<1>15. ASSUME NEW t \in Tasks, CopyImages(t) PROVE OneRowEach'
  BY <1>15 DEF IInv, TypeOK, Roles, Midway, OneRowEach, CopyImages, Go, Store, data, locks, local, Listed
<1>16. ASSUME NEW t \in Tasks, ListRows(t) PROVE OneRowEach'
  BY <1>16 DEF IInv, TypeOK, Roles, Midway, OneRowEach, ListRows, Go, data, locks, local, Listed
<1>17. ASSUME NEW t \in Tasks, PackImages(t) PROVE OneRowEach'
  BY <1>17 DEF IInv, TypeOK, Roles, Midway, OneRowEach, PackImages, Go, data, locks, local, Listed
<1>18. ASSUME NEW t \in Tasks, DeleteRows(t) PROVE OneRowEach'
  <2>1. CASE UNCHANGED <<data, hand>>
    BY <2>1 DEF data, IInv, OneRowEach
  <2>2. CASE ~UNCHANGED <<data, hand>>
    <3>1. PICK left \in [Images -> 0 .. 2] :
            /\ \A i \in Images : left[i] <= rows[i]
            /\ Store(left, files)
            /\ hand' = [hand EXCEPT ![t] = {i \in Images : left[i] < rows[i]}]
            /\ Go(t, "files")
      BY <1>18, <2>2 DEF DeleteRows
    <3>2. ASSUME NEW i \in Images, rows'[i] > 1 PROVE i \in raced'
      <4>1. left[i] \in 0 .. 2 /\ rows[i] \in 0 .. 2
        BY DEF IInv, TypeOK
      <4>2. left[i] > 1 /\ left[i] <= rows[i]
        BY <3>1, <3>2 DEF Store
      <4>3. rows[i] > 1 /\ left[i] > 0
        BY <4>1, <4>2
      <4>4. QED
        BY <3>1, <4>3 DEF Store, IInv, OneRowEach
    <3>3. QED
      BY <3>2 DEF OneRowEach
  <2>3. QED
    BY <2>1, <2>2
<1>19. ASSUME NEW t \in Tasks, RemoveFiles(t) PROVE OneRowEach'
  <2>1. rows' = rows /\ raced \cap Listed \subseteq raced'
    BY <1>19 DEF RemoveFiles, Store, data, Listed, IInv, TypeOK
  <2>2. QED
    BY <2>1 DEF IInv, TypeOK, OneRowEach, Listed
<1>20. ASSUME NEW t \in Tasks, ReadRefs(t) PROVE OneRowEach'
  BY <1>20 DEF IInv, TypeOK, Roles, Midway, OneRowEach, ReadRefs, Go, data, locks, local, Listed
<1>21. ASSUME NEW t \in Tasks, SweepFiles(t) PROVE OneRowEach'
  BY <1>21 DEF IInv, TypeOK, Roles, Midway, OneRowEach, SweepFiles, Go, Store, data, locks, local, Listed
<1>22. ASSUME NEW t \in Tasks, SwapData(t) PROVE OneRowEach'
  <2>1. CASE UNCHANGED data
    BY <2>1 DEF data, IInv, OneRowEach
  <2>2. CASE ~UNCHANGED data
    <3>1. \A i \in Images : rows'[i] \in {0, 1}
      BY <1>22, <2>2 DEF SwapData, Store
    <3>2. QED
      BY <3>1 DEF OneRowEach
  <2>3. QED
    BY <2>1, <2>2
<1>23. ASSUME NEW t \in Tasks, Leave(t) PROVE OneRowEach'
  BY <1>23 DEF IInv, TypeOK, Roles, Midway, OneRowEach, Leave, Rest, Go, data, locks, local, Listed
<1>24. ASSUME NEW t \in Tasks, Resume(t) PROVE OneRowEach'
  BY <1>24 DEF IInv, TypeOK, Roles, Midway, OneRowEach, Resume, Rest, Go, data, locks, local, Listed
<1>25. ASSUME Crash PROVE OneRowEach'
  BY <1>25 DEF IInv, TypeOK, Roles, Midway, OneRowEach, Crash, data, locks, local, Listed
<1>26. CASE UNCHANGED vars
  BY <1>26 DEF IInv, TypeOK, Roles, Midway, OneRowEach, data, locks, local, Listed, vars
<1>27. QED
  BY <1>1, <1>2, <1>3, <1>4, <1>5, <1>6, <1>7, <1>8, <1>9, <1>10, <1>11, <1>12, <1>13, <1>14, <1>15, <1>16, <1>17, <1>18, <1>19, <1>20, <1>21, <1>22, <1>23, <1>24, <1>25, <1>26 DEF Next, Start, Proceed

(* Who removes or deletes is alone, so nobody else has an image in hand.    *)
LEMMA InHandStep ==
    ASSUME IInv, [Next]_vars
    PROVE  InHand'
<1>1. ASSUME NEW t \in Tasks, NEW i \in Images, BeginCapture(t, i) PROVE InHand'
  BY <1>1 DEF IInv, TypeOK, Roles, Alone, InHand, Exclusive, Inside, BeginCapture, Begin, Go, data, locks, local, First, Ops, Places, Stores, Removers, Listed
<1>2. ASSUME NEW t \in Tasks, NEW i \in Images, NEW o \in {"receive", "history"},
           BeginReceive(t, i, o)
    PROVE  InHand'
  BY <1>2 DEF IInv, TypeOK, Roles, Alone, InHand, Exclusive, Inside, BeginReceive, Begin, Join, Go, data, locks, local, First, Ops, Places, Stores, Removers, Listed
<1>3. ASSUME NEW t \in Tasks, NEW S \in SUBSET Images \ {{}}, NEW o \in {"eco", "merge"},
           BeginImport(t, S, o)
    PROVE  InHand'
  BY <1>3 DEF IInv, TypeOK, Roles, Alone, InHand, Exclusive, Inside, BeginImport, Begin, Join, Go, data, locks, local, First, Ops, Places, Stores, Removers, Listed
<1>4. ASSUME NEW t \in Tasks, NEW o \in {"export", "delete", "sweep"},
           BeginOther(t, o)
    PROVE  InHand'
  BY <1>4 DEF IInv, TypeOK, Roles, Alone, InHand, Exclusive, Inside, BeginOther, Begin, Join, Go, data, locks, local, First, Ops, Places, Stores, Removers, Listed
<1>5. ASSUME NEW t \in Tasks, BeginSwap(t) PROVE InHand'
  BY <1>5 DEF IInv, TypeOK, Roles, Alone, InHand, Exclusive, Inside, BeginSwap, Begin, Go, data, locks, local, First, Ops, Places, Stores, Removers, Listed
<1>6. ASSUME NEW t \in Tasks, Ask(t) PROVE InHand'
  BY <1>6 DEF IInv, TypeOK, Roles, Alone, InHand, Exclusive, Inside, Ask, Join, Go, data, locks, local, First, Ops, Places, Stores, Removers, Listed
<1>7. ASSUME NEW t \in Tasks, Enter(t) PROVE InHand'
  BY <1>7 DEF IInv, TypeOK, Roles, Alone, InHand, Exclusive, Inside, Enter, MayEnter, Admits, Go, data, locks, local, First, Ops, Places, Stores, Removers, Listed
<1>8. ASSUME NEW t \in Tasks, Build(t) PROVE InHand'
  BY <1>8 DEF IInv, TypeOK, Roles, Alone, InHand, Exclusive, Inside, Build, Go, Store, data, locks, local, First, Ops, Places, Stores, Removers, Listed
<1>9. ASSUME NEW t \in Tasks, Known(t) PROVE InHand'
  BY <1>9 DEF IInv, TypeOK, Roles, Alone, InHand, Exclusive, Inside, Known, Go, data, locks, local, First, Ops, Places, Stores, Removers, Listed
<1>10. ASSUME NEW t \in Tasks, Find(t) PROVE InHand'
  BY <1>10 DEF IInv, TypeOK, Roles, Alone, InHand, Exclusive, Inside, Find, Serial, Go, data, locks, local, First, Ops, Places, Stores, Removers, Listed
<1>11. ASSUME NEW t \in Tasks, Insert(t) PROVE InHand'
  BY <1>11 DEF IInv, TypeOK, Roles, Alone, InHand, Exclusive, Inside, Insert, Go, Store, data, locks, local, First, Ops, Places, Stores, Removers, Listed
<1>12. ASSUME NEW t \in Tasks, NextRecord(t) PROVE InHand'
  <2>1. op[t] = "eco" /\ op' = op /\ \A u \in Tasks : u # t => pc'[u] = pc[u] /\ cur'[u] = cur[u]
    BY <1>12 DEF NextRecord, Go, local, IInv, TypeOK
  <2>2. files \subseteq files' /\ rows' = rows
    BY <1>12 DEF NextRecord, Store, data
  <2>3. \/ pc'[t] = "leave"
        \/ pc'[t] = "check" /\ cur'[t] \in files'
    BY <1>12 DEF NextRecord, Go, Store, IInv, TypeOK
  <2>4. QED
    BY <2>1, <2>2, <2>3 DEF IInv, TypeOK, InHand, Listed
<1>13. ASSUME NEW t \in Tasks, CheckRecord(t) PROVE InHand'
  BY <1>13 DEF IInv, TypeOK, Roles, Alone, InHand, Exclusive, Inside, CheckRecord, Go, data, locks, local, First, Ops, Places, Stores, Removers, Listed
<1>14. ASSUME NEW t \in Tasks, MergeRows(t) PROVE InHand'
  BY <1>14 DEF IInv, TypeOK, Roles, Alone, InHand, Exclusive, Inside, MergeRows, Go, data, locks, local, First, Ops, Places, Stores, Removers, Listed
<1>15. ASSUME NEW t \in Tasks, CopyImages(t) PROVE InHand'
  BY <1>15 DEF IInv, TypeOK, Roles, Alone, InHand, Exclusive, Inside, CopyImages, Go, Store, data, locks, local, First, Ops, Places, Stores, Removers, Listed
<1>16. ASSUME NEW t \in Tasks, ListRows(t) PROVE InHand'
  BY <1>16 DEF IInv, TypeOK, Roles, Alone, InHand, Exclusive, Inside, ListRows, Go, data, locks, local, First, Ops, Places, Stores, Removers, Listed
<1>17. ASSUME NEW t \in Tasks, PackImages(t) PROVE InHand'
  BY <1>17 DEF IInv, TypeOK, Roles, Alone, InHand, Exclusive, Inside, PackImages, Go, data, locks, local, First, Ops, Places, Stores, Removers, Listed
<1>18. ASSUME NEW t \in Tasks, DeleteRows(t) PROVE InHand'
  <2>1. /\ files' = files /\ op' = op /\ cur' = cur
        /\ \A u \in Tasks : u # t => pc'[u] = pc[u]
        /\ pc'[t] \in {"files", "leave"}
    BY <1>18 DEF DeleteRows, Store, Go, data, IInv, TypeOK
  <2>2. \A u \in Tasks : u # t => pc[u] # "kept"
    BY <1>18 DEF DeleteRows, IInv, TypeOK, Roles, Alone, Exclusive, Inside, Places, Removers
  <2>3. QED
    BY <2>1, <2>2 DEF IInv, TypeOK, Roles, InHand, Stores
<1>19. ASSUME NEW t \in Tasks, RemoveFiles(t) PROVE InHand'
  BY <1>19 DEF IInv, TypeOK, Roles, Alone, InHand, Exclusive, Inside, RemoveFiles, Go, Store, data, locks, local, First, Ops, Places, Stores, Removers, Listed
<1>20. ASSUME NEW t \in Tasks, ReadRefs(t) PROVE InHand'
  BY <1>20 DEF IInv, TypeOK, Roles, Alone, InHand, Exclusive, Inside, ReadRefs, Go, data, locks, local, First, Ops, Places, Stores, Removers, Listed
<1>21. ASSUME NEW t \in Tasks, SweepFiles(t) PROVE InHand'
  BY <1>21 DEF IInv, TypeOK, Roles, Alone, InHand, Exclusive, Inside, SweepFiles, Go, Store, data, locks, local, First, Ops, Places, Stores, Removers, Listed
<1>22. ASSUME NEW t \in Tasks, SwapData(t) PROVE InHand'
  BY <1>22 DEF IInv, TypeOK, Roles, Alone, InHand, Exclusive, Inside, SwapData, Serial, Go, Store, data, locks, local, First, Ops, Places, Stores, Removers, Listed
<1>23. ASSUME NEW t \in Tasks, Leave(t) PROVE InHand'
  BY <1>23 DEF IInv, TypeOK, Roles, Alone, InHand, Exclusive, Inside, Leave, Rest, Go, data, locks, local, First, Ops, Places, Stores, Removers, Listed
<1>24. ASSUME NEW t \in Tasks, Resume(t) PROVE InHand'
  BY <1>24 DEF IInv, TypeOK, Roles, Alone, InHand, Exclusive, Inside, Resume, Rest, Go, data, locks, local, First, Ops, Places, Stores, Removers, Listed
<1>25. ASSUME Crash PROVE InHand'
  BY <1>25 DEF IInv, TypeOK, Roles, Alone, InHand, Exclusive, Inside, Crash, data, locks, local, First, Ops, Places, Stores, Removers, Listed
<1>26. CASE UNCHANGED vars
  BY <1>26 DEF IInv, TypeOK, Roles, Alone, InHand, Exclusive, Inside, data, locks, local, First, Ops, Places, Stores, Removers, Listed, vars
<1>27. QED
  BY <1>1, <1>2, <1>3, <1>4, <1>5, <1>6, <1>7, <1>8, <1>9, <1>10, <1>11, <1>12, <1>13, <1>14, <1>15, <1>16, <1>17, <1>18, <1>19, <1>20, <1>21, <1>22, <1>23, <1>24, <1>25, <1>26 DEF Next, Start, Proceed

(* A row comes after its image and an image goes after its row, or a ghost *)
(* says which merge got between.                                           *)
LEMMA ImagesStep ==
    ASSUME IInv, [Next]_vars
    PROVE  RowHasImage'
<1>1. ASSUME NEW t \in Tasks, NEW i \in Images, BeginCapture(t, i) PROVE RowHasImage'
  BY <1>1 DEF IInv, TypeOK, Roles, RowHasImage, InHand, Hands, BeginCapture, Begin, Go, data, locks, local, Listed
<1>2. ASSUME NEW t \in Tasks, NEW i \in Images, NEW o \in {"receive", "history"},
           BeginReceive(t, i, o)
    PROVE  RowHasImage'
  BY <1>2 DEF IInv, TypeOK, Roles, RowHasImage, InHand, Hands, BeginReceive, Begin, Join, Go, data, locks, local, Listed
<1>3. ASSUME NEW t \in Tasks, NEW S \in SUBSET Images \ {{}}, NEW o \in {"eco", "merge"},
           BeginImport(t, S, o)
    PROVE  RowHasImage'
  BY <1>3 DEF IInv, TypeOK, Roles, RowHasImage, InHand, Hands, BeginImport, Begin, Join, Go, data, locks, local, Listed
<1>4. ASSUME NEW t \in Tasks, NEW o \in {"export", "delete", "sweep"},
           BeginOther(t, o)
    PROVE  RowHasImage'
  BY <1>4 DEF IInv, TypeOK, Roles, RowHasImage, InHand, Hands, BeginOther, Begin, Join, Go, data, locks, local, Listed
<1>5. ASSUME NEW t \in Tasks, BeginSwap(t) PROVE RowHasImage'
  BY <1>5 DEF IInv, TypeOK, Roles, RowHasImage, InHand, Hands, BeginSwap, Begin, Go, data, locks, local, Listed
<1>6. ASSUME NEW t \in Tasks, Ask(t) PROVE RowHasImage'
  BY <1>6 DEF IInv, TypeOK, Roles, RowHasImage, InHand, Hands, Ask, Join, Go, data, locks, local, Listed
<1>7. ASSUME NEW t \in Tasks, Enter(t) PROVE RowHasImage'
  BY <1>7 DEF IInv, TypeOK, Roles, RowHasImage, InHand, Hands, Enter, MayEnter, Admits, Go, data, locks, local, Listed
<1>8. ASSUME NEW t \in Tasks, Build(t) PROVE RowHasImage'
  BY <1>8 DEF IInv, TypeOK, Roles, RowHasImage, InHand, Hands, Build, Go, Store, data, locks, local, Listed
<1>9. ASSUME NEW t \in Tasks, Known(t) PROVE RowHasImage'
  BY <1>9 DEF IInv, TypeOK, Roles, RowHasImage, InHand, Hands, Known, Go, data, locks, local, Listed
<1>10. ASSUME NEW t \in Tasks, Find(t) PROVE RowHasImage'
  BY <1>10 DEF IInv, TypeOK, Roles, RowHasImage, InHand, Hands, Find, Serial, Go, data, locks, local, Listed
<1>11. ASSUME NEW t \in Tasks, Insert(t) PROVE RowHasImage'
  BY <1>11 DEF IInv, TypeOK, Roles, RowHasImage, InHand, Hands, Insert, Go, Store, data, locks, local, Listed
<1>12. ASSUME NEW t \in Tasks, NextRecord(t) PROVE RowHasImage'
  BY <1>12 DEF IInv, TypeOK, Roles, RowHasImage, InHand, Hands, NextRecord, Serial, Go, Store, data, locks, local, Listed
<1>13. ASSUME NEW t \in Tasks, CheckRecord(t) PROVE RowHasImage'
  BY <1>13 DEF IInv, TypeOK, Roles, RowHasImage, InHand, Hands, CheckRecord, Go, data, locks, local, Listed
<1>14. ASSUME NEW t \in Tasks, MergeRows(t) PROVE RowHasImage'
  BY <1>14 DEF IInv, TypeOK, Roles, RowHasImage, InHand, Hands, MergeRows, Go, data, locks, local, Listed
<1>15. ASSUME NEW t \in Tasks, CopyImages(t) PROVE RowHasImage'
  BY <1>15 DEF IInv, TypeOK, Roles, RowHasImage, InHand, Hands, CopyImages, Go, Store, data, locks, local, Listed
<1>16. ASSUME NEW t \in Tasks, ListRows(t) PROVE RowHasImage'
  BY <1>16 DEF IInv, TypeOK, Roles, RowHasImage, InHand, Hands, ListRows, Go, data, locks, local, Listed
<1>17. ASSUME NEW t \in Tasks, PackImages(t) PROVE RowHasImage'
  BY <1>17 DEF IInv, TypeOK, Roles, RowHasImage, InHand, Hands, PackImages, Go, data, locks, local, Listed
<1>18. ASSUME NEW t \in Tasks, DeleteRows(t) PROVE RowHasImage'
  <2>1. CASE UNCHANGED <<data, hand>>
    BY <2>1 DEF data, IInv, RowHasImage, Listed
  <2>2. CASE ~UNCHANGED <<data, hand>>
    <3>1. PICK left \in [Images -> 0 .. 2] :
            /\ \A i \in Images : left[i] <= rows[i]
            /\ Store(left, files)
            /\ hand' = [hand EXCEPT ![t] = {i \in Images : left[i] < rows[i]}]
            /\ Go(t, "files")
      BY <1>18, <2>2 DEF DeleteRows
    <3>2. ASSUME NEW i \in Images, rows'[i] > 0 PROVE i \in files' \cup bare' \cup raced'
      <4>1. rows[i] > 0 /\ left[i] > 0
        BY <3>1, <3>2 DEF Store, IInv, TypeOK
      <4>2. i \in files \cup bare \cup raced
        BY <4>1 DEF IInv, RowHasImage, Listed
      <4>3. QED
        BY <3>1, <4>1, <4>2 DEF Store
    <3>3. QED
      BY <3>2 DEF RowHasImage, Listed
  <2>3. QED
    BY <2>1, <2>2
<1>19. ASSUME NEW t \in Tasks, RemoveFiles(t) PROVE RowHasImage'
  BY <1>19 DEF IInv, TypeOK, Roles, RowHasImage, InHand, Hands, RemoveFiles, Go, Store, data, locks, local, Listed
<1>20. ASSUME NEW t \in Tasks, ReadRefs(t) PROVE RowHasImage'
  BY <1>20 DEF IInv, TypeOK, Roles, RowHasImage, InHand, Hands, ReadRefs, Go, data, locks, local, Listed
<1>21. ASSUME NEW t \in Tasks, SweepFiles(t) PROVE RowHasImage'
  BY <1>21 DEF IInv, TypeOK, Roles, RowHasImage, InHand, Hands, SweepFiles, Go, Store, data, locks, local, Listed
<1>22. ASSUME NEW t \in Tasks, SwapData(t) PROVE RowHasImage'
  BY <1>22 DEF IInv, TypeOK, Roles, RowHasImage, InHand, Hands, SwapData, Serial, Go, Store, data, locks, local, Listed
<1>23. ASSUME NEW t \in Tasks, Leave(t) PROVE RowHasImage'
  BY <1>23 DEF IInv, TypeOK, Roles, RowHasImage, InHand, Hands, Leave, Rest, Go, data, locks, local, Listed
<1>24. ASSUME NEW t \in Tasks, Resume(t) PROVE RowHasImage'
  BY <1>24 DEF IInv, TypeOK, Roles, RowHasImage, InHand, Hands, Resume, Rest, Go, data, locks, local, Listed
<1>25. ASSUME Crash PROVE RowHasImage'
  BY <1>25 DEF IInv, TypeOK, Roles, RowHasImage, InHand, Hands, Crash, data, locks, local, Listed
<1>26. CASE UNCHANGED vars
  BY <1>26 DEF IInv, TypeOK, Roles, RowHasImage, InHand, Hands, data, locks, local, Listed, vars
<1>27. QED
  BY <1>1, <1>2, <1>3, <1>4, <1>5, <1>6, <1>7, <1>8, <1>9, <1>10, <1>11, <1>12, <1>13, <1>14, <1>15, <1>16, <1>17, <1>18, <1>19, <1>20, <1>21, <1>22, <1>23, <1>24, <1>25, <1>26 DEF Next, Start, Proceed

(* What a task alone, or among readers only, has listed stays as it was.   *)
LEMMA HandsStep ==
    ASSUME IInv, [Next]_vars
    PROVE  Hands'
<1>1. ASSUME NEW t \in Tasks, NEW i \in Images, BeginCapture(t, i) PROVE Hands'
  BY <1>1 DEF IInv, TypeOK, Roles, Alone, Hands, OneRowEach, Exclusive, Inside, BeginCapture, Begin, Go, data, locks, local, First, Ops, Places, Stores, Removers, Listed
<1>2. ASSUME NEW t \in Tasks, NEW i \in Images, NEW o \in {"receive", "history"},
           BeginReceive(t, i, o)
    PROVE  Hands'
  BY <1>2 DEF IInv, TypeOK, Roles, Alone, Hands, OneRowEach, Exclusive, Inside, BeginReceive, Begin, Join, Go, data, locks, local, First, Ops, Places, Stores, Removers, Listed
<1>3. ASSUME NEW t \in Tasks, NEW S \in SUBSET Images \ {{}}, NEW o \in {"eco", "merge"},
           BeginImport(t, S, o)
    PROVE  Hands'
  BY <1>3 DEF IInv, TypeOK, Roles, Alone, Hands, OneRowEach, Exclusive, Inside, BeginImport, Begin, Join, Go, data, locks, local, First, Ops, Places, Stores, Removers, Listed
<1>4. ASSUME NEW t \in Tasks, NEW o \in {"export", "delete", "sweep"},
           BeginOther(t, o)
    PROVE  Hands'
  BY <1>4 DEF IInv, TypeOK, Roles, Alone, Hands, OneRowEach, Exclusive, Inside, BeginOther, Begin, Join, Go, data, locks, local, First, Ops, Places, Stores, Removers, Listed
<1>5. ASSUME NEW t \in Tasks, BeginSwap(t) PROVE Hands'
  BY <1>5 DEF IInv, TypeOK, Roles, Alone, Hands, OneRowEach, Exclusive, Inside, BeginSwap, Begin, Go, data, locks, local, First, Ops, Places, Stores, Removers, Listed
<1>6. ASSUME NEW t \in Tasks, Ask(t) PROVE Hands'
  BY <1>6 DEF IInv, TypeOK, Roles, Alone, Hands, OneRowEach, Exclusive, Inside, Ask, Join, Go, data, locks, local, First, Ops, Places, Stores, Removers, Listed
<1>7. ASSUME NEW t \in Tasks, Enter(t) PROVE Hands'
  BY <1>7 DEF IInv, TypeOK, Roles, Alone, Hands, OneRowEach, Exclusive, Inside, Enter, MayEnter, Admits, Go, data, locks, local, First, Ops, Places, Stores, Removers, Listed
<1>8. ASSUME NEW t \in Tasks, Build(t) PROVE Hands'
  BY <1>8 DEF IInv, TypeOK, Roles, Alone, Hands, OneRowEach, Exclusive, Inside, Build, Go, Store, data, locks, local, First, Ops, Places, Stores, Removers, Listed
<1>9. ASSUME NEW t \in Tasks, Known(t) PROVE Hands'
  BY <1>9 DEF IInv, TypeOK, Roles, Alone, Hands, OneRowEach, Exclusive, Inside, Known, Go, data, locks, local, First, Ops, Places, Stores, Removers, Listed
<1>10. ASSUME NEW t \in Tasks, Find(t) PROVE Hands'
  BY <1>10 DEF IInv, TypeOK, Roles, Alone, Hands, OneRowEach, Exclusive, Inside, Find, Serial, Go, data, locks, local, First, Ops, Places, Stores, Removers, Listed
<1>11. ASSUME NEW t \in Tasks, Insert(t) PROVE Hands'
  BY <1>11 DEF IInv, TypeOK, Roles, Alone, Hands, OneRowEach, Exclusive, Inside, Insert, Go, Store, data, locks, local, First, Ops, Places, Stores, Removers, Listed
<1>12. ASSUME NEW t \in Tasks, NextRecord(t) PROVE Hands'
  BY <1>12 DEF IInv, TypeOK, Roles, Alone, Hands, OneRowEach, Exclusive, Inside, NextRecord, Serial, Go, Store, data, locks, local, First, Ops, Places, Stores, Removers, Listed
<1>13. ASSUME NEW t \in Tasks, CheckRecord(t) PROVE Hands'
  BY <1>13 DEF IInv, TypeOK, Roles, Alone, Hands, OneRowEach, Exclusive, Inside, CheckRecord, Go, data, locks, local, First, Ops, Places, Stores, Removers, Listed
<1>14. ASSUME NEW t \in Tasks, MergeRows(t) PROVE Hands'
  BY <1>14 DEF IInv, TypeOK, Roles, Alone, Hands, OneRowEach, Exclusive, Inside, MergeRows, Go, data, locks, local, First, Ops, Places, Stores, Removers, Listed
<1>15. ASSUME NEW t \in Tasks, CopyImages(t) PROVE Hands'
  BY <1>15 DEF IInv, TypeOK, Roles, Alone, Hands, OneRowEach, Exclusive, Inside, CopyImages, Go, Store, data, locks, local, First, Ops, Places, Stores, Removers, Listed
<1>16. ASSUME NEW t \in Tasks, ListRows(t) PROVE Hands'
  BY <1>16 DEF IInv, TypeOK, Roles, Alone, Hands, OneRowEach, Exclusive, Inside, ListRows, Go, data, locks, local, First, Ops, Places, Stores, Removers, Listed
<1>17. ASSUME NEW t \in Tasks, PackImages(t) PROVE Hands'
  BY <1>17 DEF IInv, TypeOK, Roles, Alone, Hands, OneRowEach, Exclusive, Inside, PackImages, Go, data, locks, local, First, Ops, Places, Stores, Removers, Listed
<1>18. ASSUME NEW t \in Tasks, DeleteRows(t) PROVE Hands'
  <2>1. \A u \in Tasks : u # t => pc[u] \notin Inside /\ pc'[u] = pc[u]
    BY <1>18 DEF DeleteRows, Go, IInv, TypeOK, Roles, Alone, Exclusive, Inside, Places, Removers
  <2>2. CASE UNCHANGED <<data, hand>>
    <3>1. pc'[t] = "leave"
      BY <1>18, <2>2 DEF DeleteRows, Store, Go, data, IInv, TypeOK
    <3>2. \A u \in Tasks : pc'[u] \notin {"files", "sweep", "pack"}
      BY <2>1, <3>1 DEF Inside, Places
    <3>3. QED
      BY <3>2 DEF Hands
  <2>3. CASE ~UNCHANGED <<data, hand>>
    <3>1. PICK left \in [Images -> 0 .. 2] :
            /\ \A i \in Images : left[i] <= rows[i]
            /\ Store(left, files)
            /\ hand' = [hand EXCEPT ![t] = {i \in Images : left[i] < rows[i]}]
            /\ Go(t, "files")
      BY <1>18, <2>3 DEF DeleteRows
    <3>2. hand'[t] = {i \in Images : left[i] < rows[i]} /\ pc'[t] = "files"
      BY <3>1 DEF Go, IInv, TypeOK
    <3>3. hand'[t] \cap Listed' \subseteq raced'
      <4>1. ASSUME NEW i \in Images, left[i] < rows[i], left[i] > 0 PROVE i \in raced'
        <5>1. rows[i] \in 0 .. 2 /\ left[i] \in 0 .. 2
          BY DEF IInv, TypeOK
        <5>2. rows[i] > 1
          BY <4>1, <5>1
        <5>3. QED
          BY <3>1, <4>1, <5>2 DEF Store, IInv, OneRowEach
      <4>2. QED
        BY <3>1, <3>2, <4>1 DEF Store, Listed
    <3>4. \A u \in Tasks : u # t => pc'[u] \notin {"files", "sweep", "pack"}
      BY <2>1 DEF Inside, Places
    <3>5. QED
      BY <3>2, <3>3, <3>4 DEF Hands
  <2>4. QED
    BY <2>2, <2>3
<1>19. ASSUME NEW t \in Tasks, RemoveFiles(t) PROVE Hands'
  BY <1>19 DEF IInv, TypeOK, Roles, Alone, Hands, OneRowEach, Exclusive, Inside, RemoveFiles, Go, Store, data, locks, local, First, Ops, Places, Stores, Removers, Listed
<1>20. ASSUME NEW t \in Tasks, ReadRefs(t) PROVE Hands'
  BY <1>20 DEF IInv, TypeOK, Roles, Alone, Hands, OneRowEach, Exclusive, Inside, ReadRefs, Go, data, locks, local, First, Ops, Places, Stores, Removers, Listed
<1>21. ASSUME NEW t \in Tasks, SweepFiles(t) PROVE Hands'
  BY <1>21 DEF IInv, TypeOK, Roles, Alone, Hands, OneRowEach, Exclusive, Inside, SweepFiles, Go, Store, data, locks, local, First, Ops, Places, Stores, Removers, Listed
<1>22. ASSUME NEW t \in Tasks, SwapData(t) PROVE Hands'
  BY <1>22 DEF IInv, TypeOK, Roles, Alone, Hands, OneRowEach, Exclusive, Inside, SwapData, Serial, Go, Store, data, locks, local, First, Ops, Places, Stores, Removers, Listed
<1>23. ASSUME NEW t \in Tasks, Leave(t) PROVE Hands'
  BY <1>23 DEF IInv, TypeOK, Roles, Alone, Hands, OneRowEach, Exclusive, Inside, Leave, Rest, Go, data, locks, local, First, Ops, Places, Stores, Removers, Listed
<1>24. ASSUME NEW t \in Tasks, Resume(t) PROVE Hands'
  BY <1>24 DEF IInv, TypeOK, Roles, Alone, Hands, OneRowEach, Exclusive, Inside, Resume, Rest, Go, data, locks, local, First, Ops, Places, Stores, Removers, Listed
<1>25. ASSUME Crash PROVE Hands'
  BY <1>25 DEF IInv, TypeOK, Roles, Alone, Hands, OneRowEach, Exclusive, Inside, Crash, data, locks, local, First, Ops, Places, Stores, Removers, Listed
<1>26. CASE UNCHANGED vars
  BY <1>26 DEF IInv, TypeOK, Roles, Alone, Hands, OneRowEach, Exclusive, Inside, data, locks, local, First, Ops, Places, Stores, Removers, Listed, vars
<1>27. QED
  BY <1>1, <1>2, <1>3, <1>4, <1>5, <1>6, <1>7, <1>8, <1>9, <1>10, <1>11, <1>12, <1>13, <1>14, <1>15, <1>16, <1>17, <1>18, <1>19, <1>20, <1>21, <1>22, <1>23, <1>24, <1>25, <1>26 DEF Next, Start, Proceed

(* Every step keeps the shape of the state.                                *)
LEMMA TypeStep ==
    ASSUME IInv, [Next]_vars
    PROVE  TypeOK'
<1>1. ASSUME NEW t \in Tasks, NEW i \in Images, BeginCapture(t, i) PROVE TypeOK'
  BY <1>1, SeqTypes DEF IInv, TypeOK, Roles, Midway, BeginCapture, Begin, Go, data, locks, local, First, Places, Inside, Ops, Stores, Removers, Listed
<1>2. ASSUME NEW t \in Tasks, NEW i \in Images, NEW o \in {"receive", "history"},
           BeginReceive(t, i, o)
    PROVE  TypeOK'
  BY <1>2, SeqTypes DEF IInv, TypeOK, Roles, Midway, BeginReceive, Begin, Join, Go, data, locks, local, First, Places, Inside, Ops, Stores, Removers, Listed
<1>3. ASSUME NEW t \in Tasks, NEW S \in SUBSET Images \ {{}}, NEW o \in {"eco", "merge"},
           BeginImport(t, S, o)
    PROVE  TypeOK'
  BY <1>3, SeqTypes DEF IInv, TypeOK, Roles, Midway, BeginImport, Begin, Join, Go, data, locks, local, First, Places, Inside, Ops, Stores, Removers, Listed
<1>4. ASSUME NEW t \in Tasks, NEW o \in {"export", "delete", "sweep"},
           BeginOther(t, o)
    PROVE  TypeOK'
  BY <1>4, SeqTypes DEF IInv, TypeOK, Roles, Midway, BeginOther, Begin, Join, Go, data, locks, local, First, Places, Inside, Ops, Stores, Removers, Listed
<1>5. ASSUME NEW t \in Tasks, BeginSwap(t) PROVE TypeOK'
  BY <1>5, SeqTypes DEF IInv, TypeOK, Roles, Midway, BeginSwap, Begin, Go, data, locks, local, First, Places, Inside, Ops, Stores, Removers, Listed
<1>6. ASSUME NEW t \in Tasks, Ask(t) PROVE TypeOK'
  BY <1>6, SeqTypes DEF IInv, TypeOK, Roles, Midway, Ask, Join, Go, data, locks, local, First, Places, Inside, Ops, Stores, Removers, Listed
<1>7. ASSUME NEW t \in Tasks, Enter(t) PROVE TypeOK'
  <2>1. op[t] \in Ops /\ line # <<>>
    BY <1>7 DEF Enter, MayEnter, IInv, TypeOK, Roles
  <2>2. First[op[t]] \in Places
    BY <2>1 DEF First, Places, Ops, Stores, Removers
  <2>3. pc' \in [Tasks -> Places]
    BY <1>7, <2>2 DEF Enter, Go, IInv, TypeOK
  <2>4. line' \in Seq(Tasks) /\ serial' \in Seq(Tasks)
    BY <1>7, <2>1, SeqTypes DEF Enter, IInv, TypeOK
  <2>5. QED
    BY <1>7, <2>3, <2>4 DEF Enter, data, local, IInv, TypeOK
<1>8. ASSUME NEW t \in Tasks, Build(t) PROVE TypeOK'
  <2>1. pc' \in [Tasks -> Places]
    BY <1>8 DEF Build, Go, Places, IInv, TypeOK
  <2>2. serial' \in Seq(Tasks)
    BY <1>8, SeqTypes DEF Build, IInv, TypeOK
  <2>3. /\ rows' \in [Images -> 0 .. 2]
        /\ files' \subseteq Images /\ bare' \subseteq Images /\ raced' \subseteq Images
    BY <1>8 DEF Build, Store, data, IInv, TypeOK, Roles
  <2>4. QED
    BY <1>8, <2>1, <2>2, <2>3 DEF Build, local, IInv, TypeOK
<1>9. ASSUME NEW t \in Tasks, Known(t) PROVE TypeOK'
  <2>1. pc' \in [Tasks -> Places]
    BY <1>9 DEF Known, Go, Places, IInv, TypeOK
  <2>2. serial' \in Seq(Tasks)
    BY <1>9, SeqTypes DEF Known, IInv, TypeOK
  <2>3. /\ rows' \in [Images -> 0 .. 2]
        /\ files' \subseteq Images /\ bare' \subseteq Images /\ raced' \subseteq Images
    BY <1>9 DEF Known, Store, data, IInv, TypeOK
  <2>4. QED
    BY <1>9, <2>1, <2>2, <2>3 DEF Known, local, IInv, TypeOK
<1>10. ASSUME NEW t \in Tasks, Find(t) PROVE TypeOK'
  BY <1>10, SeqTypes DEF IInv, TypeOK, Roles, Midway, Find, Serial, Go, data, locks, local, First, Places, Inside, Ops, Stores, Removers, Listed
<1>11. ASSUME NEW t \in Tasks, Insert(t) PROVE TypeOK'
  <2>1. pc' \in [Tasks -> Places]
    BY <1>11 DEF Insert, Go, Places, IInv, TypeOK
  <2>2. serial' \in Seq(Tasks)
    BY <1>11, SeqTypes DEF Insert, IInv, TypeOK, SerialHeld
  <2>3. cur[t] \in Images /\ rows[cur[t]] \in {0, 1}
    BY <1>11 DEF Insert, IInv, TypeOK, Roles, Midway
  <2>4. rows' \in [Images -> 0 .. 2]
    BY <1>11, <2>3 DEF Insert, Store, data, IInv, TypeOK
  <2>5. files' \subseteq Images /\ bare' \subseteq Images /\ raced' \subseteq Images
    BY <1>11 DEF Insert, Store, data, IInv, TypeOK
  <2>6. QED
    BY <1>11, <2>1, <2>2, <2>4, <2>5 DEF Insert, local, IInv, TypeOK
<1>12. ASSUME NEW t \in Tasks, NextRecord(t) PROVE TypeOK'
  <2>1. pc' \in [Tasks -> Places]
    BY <1>12 DEF NextRecord, Go, Places, IInv, TypeOK
  <2>2. serial' \in Seq(Tasks)
    BY <1>12, SeqTypes DEF NextRecord, Serial, IInv, TypeOK, SerialHeld
  <2>3. /\ rows' = rows
        /\ files' \subseteq Images /\ bare' \subseteq Images /\ raced' \subseteq Images
        /\ cur' \in [Tasks -> Images \cup {NoImage}] /\ hand' \in [Tasks -> SUBSET Images]
    <3>1. CASE UNCHANGED <<data, cur, hand>>
      BY <3>1 DEF data, IInv, TypeOK
    <3>2. CASE ~UNCHANGED <<data, cur, hand>>
      <4>1. PICK i \in hand[t] :
              /\ Store(rows, files \cup {i})
              /\ cur' = [cur EXCEPT ![t] = i]
              /\ hand' = [hand EXCEPT ![t] = @ \ {i}]
        BY <1>12, <3>2 DEF NextRecord
      <4>2. i \in Images /\ hand[t] \ {i} \in SUBSET Images
        BY DEF IInv, TypeOK
      <4>3. QED
        BY <4>1, <4>2 DEF Store, IInv, TypeOK
    <3>3. QED
      BY <3>1, <3>2
  <2>4. QED
    BY <1>12, <2>1, <2>2, <2>3 DEF NextRecord, IInv, TypeOK
<1>13. ASSUME NEW t \in Tasks, CheckRecord(t) PROVE TypeOK'
  BY <1>13, SeqTypes DEF IInv, TypeOK, Roles, Midway, CheckRecord, Go, data, locks, local, First, Places, Inside, Ops, Stores, Removers, Listed
<1>14. ASSUME NEW t \in Tasks, MergeRows(t) PROVE TypeOK'
  BY <1>14, SeqTypes DEF IInv, TypeOK, Roles, Midway, MergeRows, Go, data, locks, local, First, Places, Inside, Ops, Stores, Removers, Listed
<1>15. ASSUME NEW t \in Tasks, CopyImages(t) PROVE TypeOK'
  BY <1>15, SeqTypes DEF IInv, TypeOK, Roles, Midway, CopyImages, Go, Store, data, locks, local, First, Places, Inside, Ops, Stores, Removers, Listed
<1>16. ASSUME NEW t \in Tasks, ListRows(t) PROVE TypeOK'
  BY <1>16, SeqTypes DEF IInv, TypeOK, Roles, Midway, ListRows, Go, data, locks, local, First, Places, Inside, Ops, Stores, Removers, Listed
<1>17. ASSUME NEW t \in Tasks, PackImages(t) PROVE TypeOK'
  BY <1>17, SeqTypes DEF IInv, TypeOK, Roles, Midway, PackImages, Go, data, locks, local, First, Places, Inside, Ops, Stores, Removers, Listed
<1>18. ASSUME NEW t \in Tasks, DeleteRows(t) PROVE TypeOK'
  BY <1>18, SeqTypes DEF IInv, TypeOK, Roles, Midway, DeleteRows, Go, Store, data, locks, local, First, Places, Inside, Ops, Stores, Removers, Listed
<1>19. ASSUME NEW t \in Tasks, RemoveFiles(t) PROVE TypeOK'
  BY <1>19, SeqTypes DEF IInv, TypeOK, Roles, Midway, RemoveFiles, Go, Store, data, locks, local, First, Places, Inside, Ops, Stores, Removers, Listed
<1>20. ASSUME NEW t \in Tasks, ReadRefs(t) PROVE TypeOK'
  BY <1>20, SeqTypes DEF IInv, TypeOK, Roles, Midway, ReadRefs, Go, data, locks, local, First, Places, Inside, Ops, Stores, Removers, Listed
<1>21. ASSUME NEW t \in Tasks, SweepFiles(t) PROVE TypeOK'
  BY <1>21, SeqTypes DEF IInv, TypeOK, Roles, Midway, SweepFiles, Go, Store, data, locks, local, First, Places, Inside, Ops, Stores, Removers, Listed
<1>22. ASSUME NEW t \in Tasks, SwapData(t) PROVE TypeOK'
  <2>1. pc' \in [Tasks -> Places]
    BY <1>22 DEF SwapData, Go, Places, IInv, TypeOK
  <2>2. serial' \in Seq(Tasks)
    BY <1>22, SeqTypes DEF SwapData, Serial, IInv, TypeOK
  <2>3. CASE UNCHANGED data
    BY <1>22, <2>1, <2>2, <2>3 DEF SwapData, data, local, IInv, TypeOK
  <2>4. CASE ~UNCHANGED data
    <3>1. PICK S \in SUBSET Images, F \in SUBSET Images :
            Store([i \in Images |-> IF i \in S THEN 1 ELSE 0], F)
      BY <1>22, <2>4 DEF SwapData
    <3>2. /\ rows' \in [Images -> 0 .. 2]
          /\ files' \subseteq Images /\ bare' \subseteq Images /\ raced' \subseteq Images
      BY <3>1 DEF Store, IInv, TypeOK
    <3>3. QED
      BY <1>22, <2>1, <2>2, <3>2 DEF SwapData, local, IInv, TypeOK
  <2>5. QED
    BY <2>3, <2>4
<1>23. ASSUME NEW t \in Tasks, Leave(t) PROVE TypeOK'
  <2>1. pc' \in [Tasks -> Places]
    BY <1>23 DEF Leave, Rest, Go, Places, IInv, TypeOK
  <2>2. /\ op' \in [Tasks -> Ops \cup {"none"}]
        /\ cur' \in [Tasks -> Images \cup {NoImage}]
        /\ hand' \in [Tasks -> SUBSET Images]
        /\ was' \in [Tasks -> BOOLEAN]
    BY <1>23 DEF Leave, Rest, local, IInv, TypeOK
  <2>3. QED
    BY <1>23, <2>1, <2>2 DEF Leave, data, locks, IInv, TypeOK
<1>24. ASSUME NEW t \in Tasks, Resume(t) PROVE TypeOK'
  BY <1>24, SeqTypes DEF IInv, TypeOK, Roles, Midway, Resume, Rest, Go, data, locks, local, First, Places, Inside, Ops, Stores, Removers, Listed
<1>25. ASSUME Crash PROVE TypeOK'
  BY <1>25, SeqTypes DEF IInv, TypeOK, Roles, Midway, Crash, data, locks, local, First, Places, Inside, Ops, Stores, Removers, Listed
<1>26. CASE UNCHANGED vars
  BY <1>26 DEF IInv, TypeOK, Roles, Midway, data, locks, local, First, Places, Inside, Ops, Stores, Removers, Listed, vars
<1>27. QED
  BY <1>1, <1>2, <1>3, <1>4, <1>5, <1>6, <1>7, <1>8, <1>9, <1>10, <1>11, <1>12, <1>13, <1>14, <1>15, <1>16, <1>17, <1>18, <1>19, <1>20, <1>21, <1>22, <1>23, <1>24, <1>25, <1>26 DEF Next, Start, Proceed

-----------------------------------------------------------------------------
LEMMA InitIInv == Init => IInv
<1> SUFFICES ASSUME Init PROVE IInv
  OBVIOUS
<1>1. TypeOK
  <2>1. line \in Seq(Tasks) /\ serial \in Seq(Tasks)
    BY SeqTypes DEF Init
  <2>2. rows \in [Images -> 0 .. 2] /\ pc \in [Tasks -> Places]
    BY DEF Init, Places
  <2>3. QED
    BY <2>1, <2>2 DEF Init, TypeOK
<1>2. /\ \A t \in Tasks : pc[t] = "idle" /\ op[t] = "none"
      /\ \A i \in Images : rows[i] = 0
  BY DEF Init
<1>3. Roles /\ Alone /\ SerialHeld /\ Midway /\ InHand /\ Hands
  BY <1>2 DEF Roles, Alone, SerialHeld, Midway, InHand, Hands, Inside, Stores
<1>4. OneRowEach /\ RowHasImage
  BY <1>2 DEF OneRowEach, RowHasImage, Listed
<1>5. QED
  BY <1>1, <1>3, <1>4 DEF IInv

LEMMA Inductive == Spec => []IInv
<1>1. ASSUME IInv, [Next]_vars PROVE IInv'
  BY <1>1, TypeStep, RolesStep, AloneStep, SerialStep, RowsStep, OneRowStep, InHandStep,
     ImagesStep, HandsStep DEF IInv
<1>2. QED
  BY <1>1, InitIInv, PTL DEF Spec

(* The shape of the state, for every set of images and of tasks; in        *)
(* particular no image ever gets a third row.                              *)
THEOREM TypeCorrect == Spec => []TypeOK
<1>1. IInv => TypeOK
  BY DEF IInv
<1>2. QED
  BY <1>1, Inductive, PTL

(* Every row keeps its image, whatever captures, received records, imports,*)
(* deletions, sweeps, swaps and crashes run together, but for the images a *)
(* merge put in ahead of its files or gave a second row.                   *)
THEOREM RowsKeepImages == Spec => []RowHasImage
<1>1. IInv => RowHasImage
  BY DEF IInv
<1>2. QED
  BY <1>1, Inductive, PTL

(* upsert_lock gives every image one row, but for a merge that commits     *)
(* between another task's lookup and its insert.                           *)
THEOREM OneRowUnlessRaced == Spec => []OneRowEach
<1>1. IInv => OneRowEach
  BY DEF IInv
<1>2. QED
  BY <1>1, Inductive, PTL

(* The image a task has written stays until the task is done with it, and  *)
(* the row it stored is there when the task announces it.                  *)
THEOREM InHandIsKept == Spec => []InHand
<1>1. IInv => InHand
  BY DEF IInv
<1>2. QED
  BY <1>1, Inductive, PTL

(* A backup that has packed its rows still finds their images.             *)
THEOREM BackupIsWhole == Spec => []BackupWhole
<1>1. IInv => BackupWhole
  BY DEF IInv, Hands, RowHasImage, BackupWhole
<1>2. QED
  BY <1>1, Inductive, PTL
=============================================================================
