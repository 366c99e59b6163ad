--------------------------- MODULE DataSwapProofs ---------------------------
(***************************************************************************)
(* What an import or a switch may rely on, for every number of             *)
(* directories, rows and mishaps: no failure and no death loses the data   *)
(* it started from, a success is complete, and one failing step is undone. *)
(* Rows keep their images and numbers are not given out twice, except      *)
(* after the mishaps that `apart`, `split` and `behind` record.            *)
(*                                                                         *)
(* OldDataKept looks at two places at once and is not inductive: which of  *)
(* the two holds the old data depends on the step, and on the flag         *)
(* resources_changed for the images.  ImportKept and SwitchKept say where, *)
(* and that nothing else is there; Rest, below, adds the new data.         *)
(***************************************************************************)
EXTENDS DataSwap, TLAPS

RowsIn(d)   == before.rows = RowsOf(db[d].live)
ImagesIn(d) == before.images = UNION images[d].live
RowsHere    == before.rows = RowsOf(Live)
RowsAside   == Previous # {} /\ before.rows = RowsOf(Previous)
ImagesLive  == before.images = UNION ImagesHere.live
ImagesAway  == before.images = UNION ImagesHere.previous

BeforeMove == {"stage", "counter", "removePrevious", "moveAside"}
BeforeChange == BeforeMove \cup {"moveIn", "open", "reset", "dropOldImages", "imagesAside"}
AfterChange  == {"installImages", "undoImages", "restoreImages"}
AfterMove  == {"moveIn", "open", "reset", "dropOldImages", "imagesAside", "installImages",
               "settings", "commit"}
UndoDbStep == {"undoDb", "restoreDb"}

(* Who holds the locks is what is under way, and the manifest follows the  *)
(* steps of a switch.                                                      *)
Control ==
    /\ owner = "import" <=> imp.pc \notin {"idle", "wait"}
    /\ owner = "switch" <=> sw.pc \notin {"idle", "wait"}
    /\ owner # "none" <=> report = "running"
    /\ sw.pc # "idle" => sw.from # sw.to
    /\ sw.pc \in {"wait", "copy", "point", "clean", "reopen"} => manifest = sw.from
    /\ sw.pc \in {"open", "rebase", "removeOld"} => manifest = sw.to
    /\ sw.pc = "unpoint" => manifest \in {sw.from, sw.to}
    /\ imp.pc \in {"wait"} \cup BeforeChange => ~ imp.changed
    /\ imp.pc \in AfterChange => imp.changed
    /\ imp.pc = "moveAside" => Previous = {}
    /\ pool = "down" => imp.pc = "idle" /\ sw.pc = "idle"

ImportKept ==
    (owner = "import" /\ ~ stale) =>
        /\ imp.pc \in BeforeMove \cup {"reopen"} => RowsHere
        /\ imp.pc \in AfterMove \cup UndoDbStep \cup {"undoImages", "restoreImages"} => RowsAside
        /\ IF imp.changed /\ imp.pc \notin UndoDbStep \cup {"reopen"}
           THEN ImagesAway ELSE ImagesLive
        /\ imp.pc \in {"removePrevious", "moveAside"} => Live # {}
        /\ imp.pc \in {"moveIn", "restoreDb"} => Live = {}
        /\ imp.pc = "restoreImages" => ImagesHere.live = {}

SwitchKept ==
    (owner = "switch" /\ ~ stale) =>
        /\ sw.pc \in {"copy", "point", "open", "unpoint", "clean", "reopen"}
             => RowsIn(sw.from) /\ ImagesIn(sw.from)
        /\ sw.pc \in {"point", "open", "rebase", "removeOld"} => RowsIn(sw.to) /\ ImagesIn(sw.to)
        /\ (sw.pc = "unpoint" /\ manifest = sw.to) => RowsIn(sw.to) /\ ImagesIn(sw.to)

IdleKept == (report \in {"err", "cut"} /\ ~ stale) => OldDataKept

Kept == ImportKept /\ SwitchKept /\ IdleKept
IInv == TypeOK /\ Control /\ Kept

USE DirsAssumption, BoundsAssumption

-----------------------------------------------------------------------------
(***************************************************************************)
(* Types of the operators the steps are made of.                           *)
(***************************************************************************)
LEMMA Places ==
    /\ \A S : {} \in Place(S)
    /\ \A S : \A x \in S : {x} \in Place(S)
    /\ \A S : \A T \in Place(S) : T \subseteq S /\ \A x, y \in T : x = y
BY DEF Place

LEMMA DbPut ==
    \A f \in DbDisk, d \in Dirs, x \in Place(Db) :
        /\ PutLive(f, d, x) \in DbDisk
        /\ PutPrevious(f, d, x) \in DbDisk
        /\ PutStaged(f, d, x) \in DbDisk
BY DEF DbDisk, DbPlace, PutLive, PutPrevious, PutStaged

LEMMA DbGet ==
    \A f \in DbDisk, d \in Dirs :
        /\ f[d] \in DbPlace
        /\ f[d].live \in Place(Db) /\ f[d].previous \in Place(Db) /\ f[d].staged \in Place(Db)
BY DEF DbDisk, DbPlace

LEMMA DbClear ==
    \A f \in DbDisk, d \in Dirs :
        PutLive(f, d, {}) \in DbDisk /\ PutPrevious(f, d, {}) \in DbDisk /\ PutStaged(f, d, {}) \in DbDisk
BY DbPut, Places

LEMMA DbFields == \A d \in Db : d.counter \in Nat /\ d.rows \in SUBSET Row /\ d.epoch \in Epoch
BY DEF Db

LEMMA DbMoves ==
    \A f \in DbDisk, d \in Dirs : Aside(f, d) \in DbDisk /\ Back(f, d) \in DbDisk
BY DbPut, DbGet, DbClear DEF Aside, Back

LEMMA DbWhole ==
    /\ NoDbs \in DbPlace
    /\ \A f \in DbDisk, d \in Dirs, p \in DbPlace : Put(f, d, p) \in DbDisk
BY Places DEF DbDisk, DbPlace, Put, NoDbs

LEMMA ImagePut ==
    \A f \in ImageDisk, d \in Dirs, x \in Place(SUBSET Row) :
        PutLive(f, d, x) \in ImageDisk /\ PutPrevious(f, d, x) \in ImageDisk
BY DEF ImageDisk, ImagePlace, PutLive, PutPrevious

LEMMA ImageClear ==
    \A f \in ImageDisk, d \in Dirs :
        PutLive(f, d, {}) \in ImageDisk /\ PutPrevious(f, d, {}) \in ImageDisk
BY ImagePut, Places

LEMMA ImageGet ==
    \A f \in ImageDisk, d \in Dirs :
        f[d].live \in Place(SUBSET Row) /\ f[d].previous \in Place(SUBSET Row)
BY DEF ImageDisk, ImagePlace

LEMMA ImageMoves ==
    \A f \in ImageDisk, d \in Dirs :
        Aside(f, d) \in ImageDisk /\ Back(f, d) \in ImageDisk /\ Put(f, d, NoImages) \in ImageDisk
<1>1. \A f \in ImageDisk, d \in Dirs : Aside(f, d) \in ImageDisk /\ Back(f, d) \in ImageDisk
  BY ImagePut, ImageGet, ImageClear DEF Aside, Back
<1>2. \A f \in ImageDisk, d \in Dirs : Put(f, d, NoImages) \in ImageDisk
  BY Places DEF ImageDisk, ImagePlace, Put, NoImages
<1>. QED
  BY <1>1, <1>2

LEMMA ImportTypes ==
    \A i \in Import :
        /\ \A step \in ImportStep : StepTo(i, step) \in Import
        /\ Unstaged(i) \in Import /\ Changed(i) \in Import
        /\ \A n \in Nat : Numbered(i, n) \in Import
        /\ i.backup.db \in Place(Db) /\ i.backup.images \in Place(SUBSET Row)
        /\ i.staged \in Place(SUBSET Row) /\ i.counter \in Nat /\ i.changed \in BOOLEAN
BY Places DEF Import, Backup, StepTo, Unstaged, Changed, Numbered

LEMMA SwitchTypes ==
    \A w \in Switch :
        /\ \A step \in SwitchStep : StepTo(w, step) \in Switch
        /\ w.from \in Dirs /\ w.to \in Dirs
BY DEF Switch, StepTo

LEMMA NoneTypes == NoImport \in Import /\ NoSwitch \in Switch /\ Foreign \in Backup
<1>1. Foreign \in Backup
  <2>1. [rows |-> {0}, epoch |-> 2, counter |-> 1] \in Db /\ {0} \in SUBSET Row
    BY DEF Db, Row, Epoch
  <2>. QED
    BY <2>1, Places DEF Foreign, Backup
<1>2. NoImport \in Import /\ NoSwitch \in Switch
  BY <1>1, Places DEF NoImport, NoSwitch, Import, Switch, ImportStep, SwitchStep
<1>. QED
  BY <1>1, <1>2

LEMMA UndoSteps == \A c \in BOOLEAN : UndoFrom(c) \in ImportStep
BY DEF UndoFrom, ImportStep

LEMMA FreshType == \A e \in Epoch : Fresh(e) \in Db
BY DEF Fresh, Db, Row

LEMMA OpenTypes ==
    \A f \in DbDisk, d \in Dirs :
        epochs \in Epoch /\ OpenDb(f, d) => db' \in DbDisk /\ epochs' \in Epoch
<1> SUFFICES ASSUME NEW f \in DbDisk, NEW d \in Dirs, epochs \in Epoch, OpenDb(f, d)
             PROVE  db' \in DbDisk /\ epochs' \in Epoch
  OBVIOUS
<1>1. CASE f[d].live = {}
  <2>1. epochs + 1 \in Epoch
    BY <1>1 DEF OpenDb, Epoch
  <2>2. {Fresh(epochs + 1)} \in Place(Db)
    BY <2>1, FreshType, Places
  <2>. QED
    BY <1>1, <2>1, <2>2, DbPut DEF OpenDb
<1>2. CASE f[d].live # {}
  BY <1>2 DEF OpenDb
<1>. QED
  BY <1>1, <1>2

LEMMA Mishap == CountType /\ HistoryType /\ (Works \/ Fails \/ (trouble' = trouble + 1 /\ UNCHANGED mishaps))
                  => mishaps' \in 0 .. MaxMishaps /\ trouble' \in Nat
BY DEF CountType, HistoryType, Works, Fails

LEMMA CutTypes == HistoryType => /\ SplitHere \in BOOLEAN
                                 /\ CutHere => split' \in BOOLEAN /\ behind' \in BOOLEAN
<1> SUFFICES ASSUME HistoryType
             PROVE  /\ SplitHere \in BOOLEAN
                    /\ CutHere => split' \in BOOLEAN /\ behind' \in BOOLEAN
  OBVIOUS
<1>1. SplitHere \in BOOLEAN
  BY DEF HistoryType, SplitHere
<1>2. CutHere => behind' \in BOOLEAN
  BY DEF HistoryType, CutHere
<1>. QED
  BY <1>1, <1>2 DEF CutHere

LEMMA LargerType == \A m, n \in Nat : Larger(m, n) \in Nat /\ Larger(m, n) >= m /\ Larger(m, n) >= n
BY DEF Larger

LEMMA Unions == \A S, T : (\A x \in S : x \subseteq T) => UNION S \subseteq T
OBVIOUS

LEMMA Added == \A S, T, x : S \subseteq T /\ x \in T => S \cup {x} \in SUBSET T
OBVIOUS

LEMMA RowsType == \A x \in Place(Db) : RowsOf(x) \in SUBSET Row
BY DbFields, Places DEF RowsOf

LEMMA BeforeType ==
    TypeOK => [rows |-> RowsOf(Live), images |-> UNION ImagesHere.live, settings |-> settings,
               pool |-> pool] \in Contents
<1> SUFFICES ASSUME TypeOK
             PROVE  [rows |-> RowsOf(Live), images |-> UNION ImagesHere.live,
                     settings |-> settings, pool |-> pool] \in Contents
  OBVIOUS
<1>1. RowsOf(Live) \in SUBSET Row
  BY RowsType, DbGet DEF TypeOK, DiskType, Live
<1>2. UNION ImagesHere.live \in SUBSET Row
  BY ImageGet, Places DEF TypeOK, DiskType, ImagesHere
<1>. QED
  BY <1>1, <1>2 DEF Contents, TypeOK, DiskType, ProgramType

-----------------------------------------------------------------------------
(***************************************************************************)
(* Every action keeps the types: one lemma per action.                     *)
(***************************************************************************)
LEMMA StageDatabaseType == TypeOK /\ StageDatabase => TypeOK'
<1> SUFFICES ASSUME TypeOK, StageDatabase PROVE TypeOK'
  OBVIOUS
<1>1. DiskType'
  <2>1. \A x \in {Staged, {}, imp.backup.db} : PutStaged(db, manifest, x) \in DbDisk
    BY DbPut, DbClear, DbGet, ImportTypes DEF TypeOK, DiskType, ProgramType, Staged
  <2>. QED
    BY <2>1
       DEF TypeOK, DiskType, StageDatabase, ImportAt, ImportTo, ImportEnds, Underway, Steady,
           ImportSteady, Staged
<1>2. ProgramType'
  BY ImportTypes, NoneTypes
     DEF TypeOK, DiskType, ProgramType, StageDatabase, ImportAt, ImportTo, ImportEnds, Underway,
         Steady, ImportSteady, Staged, ImportStep
<1>3. CountType'
  BY Mishap
     DEF TypeOK, CountType, StageDatabase, ImportAt, ImportTo, ImportEnds, Underway, Steady,
         ImportSteady, Staged
<1>4. HistoryType'
  BY Mishap
     DEF TypeOK, HistoryType, StageDatabase, ImportAt, ImportTo, ImportEnds, Underway, Steady,
         ImportSteady, Staged
<1>. QED
  BY <1>1, <1>2, <1>3, <1>4 DEF TypeOK

LEMMA ReadCounterType == TypeOK /\ ReadCounter => TypeOK'
<1> SUFFICES ASSUME TypeOK, ReadCounter PROVE TypeOK'
  OBVIOUS
<1>1. DiskType'
  BY DEF TypeOK, DiskType, ProgramType, ReadCounter, ImportAt, ImportEnds, Underway, Steady,
         ImportSteady, Live
<1>2. ProgramType'
  <2>1. \A d \in Live : d.counter \in Nat
    BY DbGet, DbFields, Places DEF TypeOK, DiskType, Live
  <2>2. \A d \in Live : StepTo(Numbered(imp, d.counter), "removePrevious") \in Import
    BY <2>1, ImportTypes DEF TypeOK, ProgramType, ImportStep
  <2>. QED
    BY <2>2, NoneTypes
       DEF TypeOK, ProgramType, ReadCounter, ImportAt, ImportEnds, Underway, ImportSteady
<1>3. CountType'
  BY Mishap
     DEF TypeOK, CountType, ReadCounter, ImportAt, ImportEnds, Underway, Steady, ImportSteady, Live
<1>4. HistoryType'
  BY Mishap
     DEF TypeOK, HistoryType, ReadCounter, ImportAt, ImportEnds, Underway, Steady, ImportSteady,
         Live
<1>. QED
  BY <1>1, <1>2, <1>3, <1>4 DEF TypeOK

LEMMA RemovePreviousType == TypeOK /\ RemovePrevious => TypeOK'
<1> SUFFICES ASSUME TypeOK, RemovePrevious PROVE TypeOK'
  OBVIOUS
<1>1. DiskType'
  BY DbPut, DbGet, DbClear
     DEF TypeOK, DiskType, ProgramType, RemovePrevious, ImportAt, ImportTo, Underway, Steady,
         ImportSteady, SwapSteady, SwapFails, Previous
<1>2. ProgramType'
  BY ImportTypes, UndoSteps
     DEF TypeOK, DiskType, ProgramType, RemovePrevious, ImportAt, ImportTo, Underway, Steady,
         ImportSteady, SwapSteady, SwapFails, Previous, ImportStep
<1>3. CountType'
  BY Mishap
     DEF TypeOK, CountType, RemovePrevious, ImportAt, ImportTo, Underway, Steady, ImportSteady,
         SwapSteady, SwapFails, Previous
<1>4. HistoryType'
  BY Mishap
     DEF TypeOK, HistoryType, RemovePrevious, ImportAt, ImportTo, Underway, Steady, ImportSteady,
         SwapSteady, SwapFails, Previous
<1>. QED
  BY <1>1, <1>2, <1>3, <1>4 DEF TypeOK

LEMMA MoveAsideType == TypeOK /\ MoveAside => TypeOK'
<1> SUFFICES ASSUME TypeOK, MoveAside PROVE TypeOK'
  OBVIOUS
<1>1. DiskType'
  BY DbMoves
     DEF TypeOK, DiskType, ProgramType, MoveAside, ImportAt, ImportTo, Underway, Steady,
         ImportSteady, SwapSteady, SwapFails, Previous
<1>2. ProgramType'
  BY ImportTypes, UndoSteps
     DEF TypeOK, DiskType, ProgramType, MoveAside, ImportAt, ImportTo, Underway, Steady,
         ImportSteady, SwapSteady, SwapFails, Previous, ImportStep
<1>3. CountType'
  BY Mishap
     DEF TypeOK, CountType, MoveAside, ImportAt, ImportTo, Underway, Steady, ImportSteady,
         SwapSteady, SwapFails, Previous
<1>4. HistoryType'
  BY Mishap
     DEF TypeOK, HistoryType, MoveAside, ImportAt, ImportTo, Underway, Steady, ImportSteady,
         SwapSteady, SwapFails, Previous
<1>. QED
  BY <1>1, <1>2, <1>3, <1>4 DEF TypeOK

LEMMA MoveInType == TypeOK /\ MoveIn => TypeOK'
<1> SUFFICES ASSUME TypeOK, MoveIn PROVE TypeOK'
  OBVIOUS
<1>1. DiskType'
  <2>1. PutStaged(PutLive(db, manifest, Staged), manifest, {}) \in DbDisk
    BY DbPut, DbGet, DbClear DEF TypeOK, DiskType, Staged
  <2>. QED
    BY <2>1
       DEF TypeOK, DiskType, MoveIn, ImportAt, ImportTo, Underway, Steady, ImportSteady, SwapSteady,
           SwapFails, Previous, Staged
<1>2. ProgramType'
  BY ImportTypes, UndoSteps
     DEF TypeOK, DiskType, ProgramType, MoveIn, ImportAt, ImportTo, Underway, Steady, ImportSteady,
         SwapSteady, SwapFails, Previous, Staged, ImportStep
<1>3. CountType'
  BY Mishap
     DEF TypeOK, CountType, MoveIn, ImportAt, ImportTo, Underway, Steady, ImportSteady, SwapSteady,
         SwapFails, Previous, Staged
<1>4. HistoryType'
  BY Mishap
     DEF TypeOK, HistoryType, MoveIn, ImportAt, ImportTo, Underway, Steady, ImportSteady,
         SwapSteady, SwapFails, Previous, Staged
<1>. QED
  BY <1>1, <1>2, <1>3, <1>4 DEF TypeOK

LEMMA OpenNewType == TypeOK /\ OpenNew => TypeOK'
<1> SUFFICES ASSUME TypeOK, OpenNew PROVE TypeOK'
  OBVIOUS
<1>1. DiskType'
  BY OpenTypes
     DEF TypeOK, DiskType, ProgramType, CountType, OpenNew, ImportAt, ImportTo, Underway, Steady,
         ImportSteady, SwapSteady, SwapFails, Previous
<1>2. ProgramType'
  BY ImportTypes, UndoSteps
     DEF TypeOK, DiskType, ProgramType, OpenNew, ImportAt, ImportTo, Underway, Steady, ImportSteady,
         SwapSteady, SwapFails, Previous, ImportStep
<1>3. CountType'
  BY Mishap, OpenTypes
     DEF TypeOK, DiskType, CountType, OpenNew, ImportAt, ImportTo, Underway, Steady, ImportSteady,
         SwapSteady, SwapFails, Previous
<1>4. HistoryType'
  BY Mishap
     DEF TypeOK, HistoryType, OpenNew, ImportAt, ImportTo, Underway, Steady, ImportSteady,
         SwapSteady, SwapFails, Previous
<1>. QED
  BY <1>1, <1>2, <1>3, <1>4 DEF TypeOK

LEMMA ResetType == TypeOK /\ Reset => TypeOK'
<1> SUFFICES ASSUME TypeOK, Reset PROVE TypeOK'
  OBVIOUS
<1>1. DiskType'
  <2>1. {[d EXCEPT !.counter = Larger(@, imp.counter)] : d \in Live} \in Place(Db)
    <3>1. \A d \in Live : d \in Db
      BY DbGet, Places DEF TypeOK, DiskType, Live
    <3>2. \A d \in Live : Larger(d.counter, imp.counter) \in Nat
      BY <3>1, DbFields, ImportTypes, LargerType DEF TypeOK, ProgramType
    <3>3. \A d \in Live : [d EXCEPT !.counter = Larger(@, imp.counter)] \in Db
      BY <3>1, <3>2 DEF Db
    <3>4. \A x, y \in Live : x = y
      BY DbGet, Places DEF TypeOK, DiskType, Live
    <3>. QED
      BY <3>3, <3>4 DEF Place
  <2>2. PutLive(db, manifest, {[d EXCEPT !.counter = Larger(@, imp.counter)] : d \in Live}) \in DbDisk
    BY <2>1, DbPut DEF TypeOK, DiskType
  <2>. QED
    BY <2>2
       DEF TypeOK, DiskType, Reset, ImportAt, ImportTo, Underway, Steady, ImportSteady, SwapSteady,
           SwapFails, AfterImages, Live, Previous
<1>2. ProgramType'
  BY ImportTypes, UndoSteps
     DEF TypeOK, DiskType, ProgramType, Reset, ImportAt, ImportTo, Underway, Steady, ImportSteady,
         SwapSteady, SwapFails, AfterImages, Live, Previous, ImportStep
<1>3. CountType'
  BY Mishap
     DEF TypeOK, CountType, Reset, ImportAt, ImportTo, Underway, Steady, ImportSteady, SwapSteady,
         SwapFails, AfterImages, Live, Previous
<1>4. HistoryType'
  BY Mishap
     DEF TypeOK, HistoryType, Reset, ImportAt, ImportTo, Underway, Steady, ImportSteady, SwapSteady,
         SwapFails, AfterImages, Live, Previous
<1>. QED
  BY <1>1, <1>2, <1>3, <1>4 DEF TypeOK

LEMMA DropOldImagesType == TypeOK /\ DropOldImages => TypeOK'
<1> SUFFICES ASSUME TypeOK, DropOldImages PROVE TypeOK'
  OBVIOUS
<1>1. DiskType'
  BY ImagePut, ImageGet, ImageClear
     DEF TypeOK, DiskType, ProgramType, DropOldImages, ImportAt, ImportTo, Underway, Steady,
         ImportSteady, SwapSteady, SwapFails, Previous, ImagesHere
<1>2. ProgramType'
  BY ImportTypes, UndoSteps
     DEF TypeOK, DiskType, ProgramType, DropOldImages, ImportAt, ImportTo, Underway, Steady,
         ImportSteady, SwapSteady, SwapFails, Previous, ImagesHere, ImportStep
<1>3. CountType'
  BY Mishap
     DEF TypeOK, CountType, DropOldImages, ImportAt, ImportTo, Underway, Steady, ImportSteady,
         SwapSteady, SwapFails, Previous, ImagesHere
<1>4. HistoryType'
  BY Mishap
     DEF TypeOK, HistoryType, DropOldImages, ImportAt, ImportTo, Underway, Steady, ImportSteady,
         SwapSteady, SwapFails, Previous, ImagesHere
<1>. QED
  BY <1>1, <1>2, <1>3, <1>4 DEF TypeOK

LEMMA ImagesAsideType == TypeOK /\ ImagesAside => TypeOK'
<1> SUFFICES ASSUME TypeOK, ImagesAside PROVE TypeOK'
  OBVIOUS
<1>1. DiskType'
  BY ImageMoves
     DEF TypeOK, DiskType, ProgramType, ImagesAside, ImportAt, ImportTo, Underway, Steady,
         ImportSteady, SwapSteady, SwapFails, Previous, ImagesHere
<1>2. ProgramType'
  BY ImportTypes, UndoSteps
     DEF TypeOK, DiskType, ProgramType, ImagesAside, ImportAt, ImportTo, Underway, Steady,
         ImportSteady, SwapSteady, SwapFails, Previous, ImagesHere, ImportStep
<1>3. CountType'
  BY Mishap
     DEF TypeOK, CountType, ImagesAside, ImportAt, ImportTo, Underway, Steady, ImportSteady,
         SwapSteady, SwapFails, Previous, ImagesHere
<1>4. HistoryType'
  BY Mishap
     DEF TypeOK, HistoryType, ImagesAside, ImportAt, ImportTo, Underway, Steady, ImportSteady,
         SwapSteady, SwapFails, Previous, ImagesHere
<1>. QED
  BY <1>1, <1>2, <1>3, <1>4 DEF TypeOK

LEMMA InstallImagesType == TypeOK /\ InstallImages => TypeOK'
<1> SUFFICES ASSUME TypeOK, InstallImages PROVE TypeOK'
  OBVIOUS
<1>1. DiskType'
  <2>1. PutLive(images, manifest, imp.staged) \in ImageDisk
    BY ImagePut, ImportTypes DEF TypeOK, DiskType, ProgramType
  <2>. QED
    BY <2>1
       DEF TypeOK, DiskType, InstallImages, ImportAt, ImportTo, Underway, Steady, ImportSteady,
           SwapSteady, SwapFails, AfterImages, Previous
<1>2. ProgramType'
  <2>1. AfterImages \in ImportStep /\ UndoFrom(TRUE) \in ImportStep /\ UndoFrom(imp.changed) \in ImportStep
    BY UndoSteps, ImportTypes DEF TypeOK, ProgramType, AfterImages, ImportStep
  <2>2. /\ StepTo(Unstaged(imp), AfterImages) \in Import
        /\ StepTo(imp, UndoFrom(TRUE)) \in Import /\ StepTo(imp, UndoFrom(imp.changed)) \in Import
    BY <2>1, ImportTypes DEF TypeOK, ProgramType
  <2>. QED
    BY <2>2 DEF TypeOK, ProgramType, InstallImages, ImportAt, ImportTo, Underway, Steady, ImportSteady, SwapSteady, SwapFails
<1>3. CountType'
  BY Mishap
     DEF TypeOK, CountType, InstallImages, ImportAt, ImportTo, Underway, Steady, ImportSteady,
         SwapSteady, SwapFails, AfterImages, Previous
<1>4. HistoryType'
  BY Mishap
     DEF TypeOK, HistoryType, InstallImages, ImportAt, ImportTo, Underway, Steady, ImportSteady,
         SwapSteady, SwapFails, AfterImages, Previous
<1>. QED
  BY <1>1, <1>2, <1>3, <1>4 DEF TypeOK

LEMMA ReplaceSettingsType == TypeOK /\ ReplaceSettings => TypeOK'
<1> SUFFICES ASSUME TypeOK, ReplaceSettings PROVE TypeOK'
  OBVIOUS
<1>1. DiskType'
  BY DEF TypeOK, DiskType, ProgramType, ReplaceSettings, ImportAt, ImportTo, Underway, Steady,
         ImportSteady, SwapSteady, SwapFails, Previous
<1>2. ProgramType'
  BY ImportTypes, UndoSteps
     DEF TypeOK, DiskType, ProgramType, ReplaceSettings, ImportAt, ImportTo, Underway, Steady,
         ImportSteady, SwapSteady, SwapFails, Previous, ImportStep
<1>3. CountType'
  BY Mishap
     DEF TypeOK, CountType, ReplaceSettings, ImportAt, ImportTo, Underway, Steady, ImportSteady,
         SwapSteady, SwapFails, Previous
<1>4. HistoryType'
  BY Mishap
     DEF TypeOK, HistoryType, ReplaceSettings, ImportAt, ImportTo, Underway, Steady, ImportSteady,
         SwapSteady, SwapFails, Previous
<1>. QED
  BY <1>1, <1>2, <1>3, <1>4 DEF TypeOK

LEMMA CommitType == TypeOK /\ Commit => TypeOK'
<1> SUFFICES ASSUME TypeOK, Commit PROVE TypeOK'
  OBVIOUS
<1>1. DiskType'
  <2>1. PutPrevious(db, manifest, {}) \in DbDisk /\ PutPrevious(images, manifest, {}) \in ImageDisk
    BY DbClear, ImageClear DEF TypeOK, DiskType
  <2>. QED
    BY <2>1
       DEF TypeOK, DiskType, Commit, ImportAt, ImportEnds, Steady, ImportSteady
<1>2. ProgramType'
  BY NoneTypes
     DEF TypeOK, DiskType, ProgramType, Commit, ImportAt, ImportEnds, Steady, ImportSteady
<1>3. CountType'
  BY Mishap
     DEF TypeOK, CountType, Commit, ImportAt, ImportEnds, Steady, ImportSteady
<1>4. HistoryType'
  BY Mishap, CutTypes
     DEF TypeOK, HistoryType, Commit, ImportAt, ImportEnds, Steady, ImportSteady
<1>. QED
  BY <1>1, <1>2, <1>3, <1>4 DEF TypeOK

LEMMA UndoImagesType == TypeOK /\ UndoImages => TypeOK'
<1> SUFFICES ASSUME TypeOK, UndoImages PROVE TypeOK'
  OBVIOUS
<1>1. DiskType'
  BY ImagePut, ImageGet, ImageClear
     DEF TypeOK, DiskType, ProgramType, UndoImages, ImportAt, ImportTo, Underway, Steady,
         ImportSteady, SwapSteady, UndoSteady
<1>2. ProgramType'
  BY ImportTypes
     DEF TypeOK, DiskType, ProgramType, UndoImages, ImportAt, ImportTo, Underway, Steady,
         ImportSteady, SwapSteady, UndoSteady, ImportStep
<1>3. CountType'
  BY Mishap
     DEF TypeOK, CountType, UndoImages, ImportAt, ImportTo, Underway, Steady, ImportSteady,
         SwapSteady, UndoSteady
<1>4. HistoryType'
  BY Mishap
     DEF TypeOK, HistoryType, UndoImages, ImportAt, ImportTo, Underway, Steady, ImportSteady,
         SwapSteady, UndoSteady
<1>. QED
  BY <1>1, <1>2, <1>3, <1>4 DEF TypeOK

LEMMA RestoreImagesType == TypeOK /\ RestoreImages => TypeOK'
<1> SUFFICES ASSUME TypeOK, RestoreImages PROVE TypeOK'
  OBVIOUS
<1>1. DiskType'
  BY ImageMoves
     DEF TypeOK, DiskType, ProgramType, RestoreImages, ImportAt, ImportTo, Underway, Steady,
         ImportSteady, SwapSteady, UndoSteady, Previous, ImagesHere
<1>2. ProgramType'
  BY ImportTypes, UndoSteps
     DEF TypeOK, DiskType, ProgramType, RestoreImages, ImportAt, ImportTo, Underway, Steady,
         ImportSteady, SwapSteady, UndoSteady, Previous, ImagesHere, ImportStep
<1>3. CountType'
  BY Mishap
     DEF TypeOK, CountType, RestoreImages, ImportAt, ImportTo, Underway, Steady, ImportSteady,
         SwapSteady, UndoSteady, Previous, ImagesHere
<1>4. HistoryType'
  BY Mishap
     DEF TypeOK, HistoryType, RestoreImages, ImportAt, ImportTo, Underway, Steady, ImportSteady,
         SwapSteady, UndoSteady, Previous, ImagesHere
<1>. QED
  BY <1>1, <1>2, <1>3, <1>4 DEF TypeOK

LEMMA UndoDbType == TypeOK /\ UndoDb => TypeOK'
<1> SUFFICES ASSUME TypeOK, UndoDb PROVE TypeOK'
  OBVIOUS
<1>1. DiskType'
  BY DbPut, DbGet, DbClear
     DEF TypeOK, DiskType, ProgramType, UndoDb, ImportAt, ImportTo, Underway, Steady, ImportSteady,
         SwapSteady, UndoSteady
<1>2. ProgramType'
  BY ImportTypes
     DEF TypeOK, DiskType, ProgramType, UndoDb, ImportAt, ImportTo, Underway, Steady, ImportSteady,
         SwapSteady, UndoSteady, ImportStep
<1>3. CountType'
  BY Mishap
     DEF TypeOK, CountType, UndoDb, ImportAt, ImportTo, Underway, Steady, ImportSteady, SwapSteady,
         UndoSteady
<1>4. HistoryType'
  BY Mishap
     DEF TypeOK, HistoryType, UndoDb, ImportAt, ImportTo, Underway, Steady, ImportSteady,
         SwapSteady, UndoSteady
<1>. QED
  BY <1>1, <1>2, <1>3, <1>4 DEF TypeOK

LEMMA RestoreDbType == TypeOK /\ RestoreDb => TypeOK'
<1> SUFFICES ASSUME TypeOK, RestoreDb PROVE TypeOK'
  OBVIOUS
<1>1. DiskType'
  BY DbMoves
     DEF TypeOK, DiskType, ProgramType, RestoreDb, ImportAt, ImportTo, Underway, Steady,
         ImportSteady, SwapSteady, UndoSteady
<1>2. ProgramType'
  BY ImportTypes
     DEF TypeOK, DiskType, ProgramType, RestoreDb, ImportAt, ImportTo, Underway, Steady,
         ImportSteady, SwapSteady, UndoSteady, ImportStep
<1>3. CountType'
  BY Mishap
     DEF TypeOK, CountType, RestoreDb, ImportAt, ImportTo, Underway, Steady, ImportSteady,
         SwapSteady, UndoSteady
<1>4. HistoryType'
  BY Mishap
     DEF TypeOK, HistoryType, RestoreDb, ImportAt, ImportTo, Underway, Steady, ImportSteady,
         SwapSteady, UndoSteady
<1>. QED
  BY <1>1, <1>2, <1>3, <1>4 DEF TypeOK

LEMMA ReopenType == TypeOK /\ Reopen => TypeOK'
<1> SUFFICES ASSUME TypeOK, Reopen PROVE TypeOK'
  OBVIOUS
<1>1. DiskType'
  BY DbPut, DbGet, DbClear, OpenTypes
     DEF TypeOK, DiskType, ProgramType, CountType, Reopen, ImportAt, ImportEnds, Steady,
         ImportSteady, Staged
<1>2. ProgramType'
  BY NoneTypes
     DEF TypeOK, DiskType, ProgramType, Reopen, ImportAt, ImportEnds, Steady, ImportSteady, Staged
<1>3. CountType'
  BY Mishap, OpenTypes, DbClear
     DEF TypeOK, DiskType, CountType, Reopen, ImportAt, ImportEnds, Steady, ImportSteady, Staged
<1>4. HistoryType'
  BY Mishap
     DEF TypeOK, HistoryType, Reopen, ImportAt, ImportEnds, Steady, ImportSteady, Staged
<1>. QED
  BY <1>1, <1>2, <1>3, <1>4 DEF TypeOK

LEMMA GiveUpType == TypeOK /\ GiveUp => TypeOK'
<1> SUFFICES ASSUME TypeOK, GiveUp PROVE TypeOK'
  OBVIOUS
<1>1. DiskType'
  BY DEF TypeOK, DiskType, ProgramType, GiveUp, ImportAt, ImportEnds, Steady, ImportSteady, Half,
         ImagesHere
<1>2. ProgramType'
  BY NoneTypes
     DEF TypeOK, DiskType, ProgramType, GiveUp, ImportAt, ImportEnds, Steady, ImportSteady, Half,
         ImagesHere
<1>3. CountType'
  BY Mishap
     DEF TypeOK, CountType, GiveUp, ImportAt, ImportEnds, Steady, ImportSteady, Half, ImagesHere
<1>4. HistoryType'
  BY Mishap, CutTypes
     DEF TypeOK, HistoryType, GiveUp, ImportAt, ImportEnds, Steady, ImportSteady, Half, ImagesHere
<1>. QED
  BY <1>1, <1>2, <1>3, <1>4 DEF TypeOK

LEMMA CopyType == TypeOK /\ Copy => TypeOK'
<1> SUFFICES ASSUME TypeOK, Copy PROVE TypeOK'
  OBVIOUS
<1>1. DiskType'
  <2>1. Put(db, sw.to, db[sw.from]) \in DbDisk /\ Put(db, sw.to, NoDbs) \in DbDisk
    BY DbWhole, DbGet, SwitchTypes DEF TypeOK, DiskType, ProgramType
  <2>2. PutLive(images, sw.to, images[sw.from].live) \in ImageDisk
    BY ImagePut, ImageGet, SwitchTypes DEF TypeOK, DiskType, ProgramType
  <2>. QED
    BY <2>1, <2>2
       DEF TypeOK, DiskType, Copy, SwitchAt, SwitchTo, Underway, Steady, SwitchSteady
<1>2. ProgramType'
  BY SwitchTypes
     DEF TypeOK, DiskType, ProgramType, Copy, SwitchAt, SwitchTo, Underway, Steady, SwitchSteady,
         SwitchStep
<1>3. CountType'
  BY Mishap
     DEF TypeOK, CountType, Copy, SwitchAt, SwitchTo, Underway, Steady, SwitchSteady
<1>4. HistoryType'
  BY Mishap
     DEF TypeOK, HistoryType, Copy, SwitchAt, SwitchTo, Underway, Steady, SwitchSteady
<1>. QED
  BY <1>1, <1>2, <1>3, <1>4 DEF TypeOK

LEMMA PointType == TypeOK /\ Point => TypeOK'
<1> SUFFICES ASSUME TypeOK, Point PROVE TypeOK'
  OBVIOUS
<1>1. DiskType'
  BY SwitchTypes
     DEF TypeOK, DiskType, ProgramType, Point, SwitchAt, SwitchTo, Underway, Steady, SwitchSteady
<1>2. ProgramType'
  BY SwitchTypes
     DEF TypeOK, DiskType, ProgramType, Point, SwitchAt, SwitchTo, Underway, Steady, SwitchSteady,
         SwitchStep
<1>3. CountType'
  BY Mishap
     DEF TypeOK, CountType, Point, SwitchAt, SwitchTo, Underway, Steady, SwitchSteady
<1>4. HistoryType'
  BY Mishap
     DEF TypeOK, HistoryType, Point, SwitchAt, SwitchTo, Underway, Steady, SwitchSteady
<1>. QED
  BY <1>1, <1>2, <1>3, <1>4 DEF TypeOK

LEMMA OpenThereType == TypeOK /\ OpenThere => TypeOK'
<1> SUFFICES ASSUME TypeOK, OpenThere PROVE TypeOK'
  OBVIOUS
<1>1. DiskType'
  BY OpenTypes, SwitchTypes
     DEF TypeOK, DiskType, ProgramType, CountType, OpenThere, SwitchAt, SwitchTo, Underway, Steady,
         SwitchSteady
<1>2. ProgramType'
  BY SwitchTypes
     DEF TypeOK, DiskType, ProgramType, OpenThere, SwitchAt, SwitchTo, Underway, Steady,
         SwitchSteady, SwitchStep
<1>3. CountType'
  BY Mishap, OpenTypes
     DEF TypeOK, DiskType, CountType, OpenThere, SwitchAt, SwitchTo, Underway, Steady, SwitchSteady
<1>4. HistoryType'
  BY Mishap
     DEF TypeOK, HistoryType, OpenThere, SwitchAt, SwitchTo, Underway, Steady, SwitchSteady
<1>. QED
  BY <1>1, <1>2, <1>3, <1>4 DEF TypeOK

LEMMA UnpointType == TypeOK /\ Unpoint => TypeOK'
<1> SUFFICES ASSUME TypeOK, Unpoint PROVE TypeOK'
  OBVIOUS
<1>1. DiskType'
  BY SwitchTypes
     DEF TypeOK, DiskType, ProgramType, Unpoint, SwitchAt, SwitchTo, SwitchEnds, Underway, Steady,
         SwitchSteady
<1>2. ProgramType'
  BY SwitchTypes, NoneTypes
     DEF TypeOK, DiskType, ProgramType, Unpoint, SwitchAt, SwitchTo, SwitchEnds, Underway, Steady,
         SwitchSteady, SwitchStep
<1>3. CountType'
  BY Mishap
     DEF TypeOK, CountType, Unpoint, SwitchAt, SwitchTo, SwitchEnds, Underway, Steady, SwitchSteady
<1>4. HistoryType'
  BY Mishap
     DEF TypeOK, HistoryType, Unpoint, SwitchAt, SwitchTo, SwitchEnds, Underway, Steady,
         SwitchSteady
<1>. QED
  BY <1>1, <1>2, <1>3, <1>4 DEF TypeOK

LEMMA CleanType == TypeOK /\ Clean => TypeOK'
<1> SUFFICES ASSUME TypeOK, Clean PROVE TypeOK'
  OBVIOUS
<1>1. DiskType'
  <2>1. Put(db, sw.to, NoDbs) \in DbDisk
    BY DbWhole, SwitchTypes DEF TypeOK, DiskType, ProgramType
  <2>2. PutLive(images, sw.to, {}) \in ImageDisk
    BY ImageClear, SwitchTypes DEF TypeOK, DiskType, ProgramType
  <2>. QED
    BY <2>1, <2>2
       DEF TypeOK, DiskType, Clean, SwitchAt, SwitchTo, Underway, Steady, SwitchSteady
<1>2. ProgramType'
  BY SwitchTypes
     DEF TypeOK, DiskType, ProgramType, Clean, SwitchAt, SwitchTo, Underway, Steady, SwitchSteady,
         SwitchStep
<1>3. CountType'
  BY Mishap
     DEF TypeOK, CountType, Clean, SwitchAt, SwitchTo, Underway, Steady, SwitchSteady
<1>4. HistoryType'
  BY Mishap
     DEF TypeOK, HistoryType, Clean, SwitchAt, SwitchTo, Underway, Steady, SwitchSteady
<1>. QED
  BY <1>1, <1>2, <1>3, <1>4 DEF TypeOK

LEMMA OpenBackType == TypeOK /\ OpenBack => TypeOK'
<1> SUFFICES ASSUME TypeOK, OpenBack PROVE TypeOK'
  OBVIOUS
<1>1. DiskType'
  BY OpenTypes, SwitchTypes
     DEF TypeOK, DiskType, ProgramType, CountType, OpenBack, SwitchAt, SwitchEnds, Steady,
         SwitchSteady
<1>2. ProgramType'
  BY SwitchTypes, NoneTypes
     DEF TypeOK, DiskType, ProgramType, OpenBack, SwitchAt, SwitchEnds, Steady, SwitchSteady,
         SwitchStep
<1>3. CountType'
  BY Mishap, OpenTypes
     DEF TypeOK, DiskType, CountType, OpenBack, SwitchAt, SwitchEnds, Steady, SwitchSteady
<1>4. HistoryType'
  BY Mishap
     DEF TypeOK, HistoryType, OpenBack, SwitchAt, SwitchEnds, Steady, SwitchSteady
<1>. QED
  BY <1>1, <1>2, <1>3, <1>4 DEF TypeOK

LEMMA RebaseType == TypeOK /\ Rebase => TypeOK'
<1> SUFFICES ASSUME TypeOK, Rebase PROVE TypeOK'
  OBVIOUS
<1>1. DiskType'
  BY SwitchTypes
     DEF TypeOK, DiskType, ProgramType, Rebase, SwitchAt, SwitchTo, SwitchEnds, Underway, Steady,
         SwitchSteady
<1>2. ProgramType'
  BY SwitchTypes, NoneTypes
     DEF TypeOK, DiskType, ProgramType, Rebase, SwitchAt, SwitchTo, SwitchEnds, Underway, Steady,
         SwitchSteady, SwitchStep
<1>3. CountType'
  BY Mishap
     DEF TypeOK, CountType, Rebase, SwitchAt, SwitchTo, SwitchEnds, Underway, Steady, SwitchSteady
<1>4. HistoryType'
  BY Mishap
     DEF TypeOK, HistoryType, Rebase, SwitchAt, SwitchTo, SwitchEnds, Underway, Steady, SwitchSteady
<1>. QED
  BY <1>1, <1>2, <1>3, <1>4 DEF TypeOK

LEMMA RemoveOldType == TypeOK /\ RemoveOld => TypeOK'
<1> SUFFICES ASSUME TypeOK, RemoveOld PROVE TypeOK'
  OBVIOUS
<1>1. DiskType'
  <2>1. Put(db, sw.from, NoDbs) \in DbDisk /\ Put(images, sw.from, NoImages) \in ImageDisk
    BY DbWhole, ImageMoves, SwitchTypes DEF TypeOK, DiskType, ProgramType
  <2>. QED
    BY <2>1
       DEF TypeOK, DiskType, RemoveOld, SwitchAt, SwitchEnds, Steady, SwitchSteady
<1>2. ProgramType'
  BY ImportTypes, SwitchTypes, NoneTypes
     DEF TypeOK, DiskType, ProgramType, RemoveOld, SwitchAt, SwitchEnds, Steady, SwitchSteady,
         ImportStep, SwitchStep
<1>3. CountType'
  BY Mishap
     DEF TypeOK, CountType, RemoveOld, SwitchAt, SwitchEnds, Steady, SwitchSteady
<1>4. HistoryType'
  BY Mishap
     DEF TypeOK, HistoryType, RemoveOld, SwitchAt, SwitchEnds, Steady, SwitchSteady
<1>. QED
  BY <1>1, <1>2, <1>3, <1>4 DEF TypeOK

LEMMA ImportBeginType == TypeOK /\ ImportBegin => TypeOK'
<1> SUFFICES ASSUME TypeOK, ImportBegin PROVE TypeOK'
  OBVIOUS
<1>1. DiskType'
  BY DEF TypeOK, DiskType, ProgramType, ImportBegin, ImportAt, ghosts, diskVars
<1>2. ProgramType'
  <2>1. \A b \in exports \cup {Foreign}, s \in BOOLEAN :
          [NoImport EXCEPT !.pc = "wait", !.backup = b, !.withSettings = s,
                           !.staged = b.images, !.dir = manifest] \in Import
    <3> SUFFICES ASSUME NEW b \in Backup, NEW s \in BOOLEAN
                 PROVE  [NoImport EXCEPT !.pc = "wait", !.backup = b, !.withSettings = s,
                                         !.staged = b.images, !.dir = manifest] \in Import
      BY NoneTypes DEF TypeOK, DiskType
    <3>1. b.images \in Place(SUBSET Row) /\ manifest \in Dirs
      BY DEF TypeOK, DiskType, Backup
    <3>. QED
      BY <3>1, NoneTypes DEF Import, ImportStep
  <2>. QED
    BY <2>1 DEF TypeOK, ProgramType, ImportBegin
<1>3. CountType'
  BY Mishap
     DEF TypeOK, CountType, ImportBegin, ImportAt, ghosts, diskVars
<1>4. HistoryType'
  BY Mishap
     DEF TypeOK, HistoryType, ImportBegin, ImportAt, ghosts, diskVars
<1>. QED
  BY <1>1, <1>2, <1>3, <1>4 DEF TypeOK

LEMMA ImportLockType == TypeOK /\ ImportLock => TypeOK'
<1> SUFFICES ASSUME TypeOK, ImportLock PROVE TypeOK'
  OBVIOUS
<1>1. DiskType'
  BY DEF TypeOK, DiskType, ProgramType, ImportLock, ImportAt, ImportTo, Live, ImagesHere, countVars,
         diskVars
<1>2. ProgramType'
  BY ImportTypes
     DEF TypeOK, DiskType, ProgramType, ImportLock, ImportAt, ImportTo, Live, ImagesHere, countVars,
         diskVars, ImportStep
<1>3. CountType'
  BY Mishap
     DEF TypeOK, CountType, ImportLock, ImportAt, ImportTo, Live, ImagesHere, countVars, diskVars
<1>4. HistoryType'
  BY BeforeType DEF TypeOK, HistoryType, ImportLock
<1>. QED
  BY <1>1, <1>2, <1>3, <1>4 DEF TypeOK

LEMMA SwitchBeginType == TypeOK /\ SwitchBegin => TypeOK'
<1> SUFFICES ASSUME TypeOK, SwitchBegin PROVE TypeOK'
  OBVIOUS
<1>1. DiskType'
  BY SwitchTypes
     DEF TypeOK, DiskType, ProgramType, SwitchBegin, SwitchAt, ghosts, diskVars
<1>2. ProgramType'
  <2>1. \A d \in Dirs : [pc |-> "wait", from |-> manifest, to |-> d] \in Switch
    BY DEF TypeOK, DiskType, Switch, SwitchStep
  <2>. QED
    BY <2>1 DEF TypeOK, ProgramType, SwitchBegin
<1>3. CountType'
  BY Mishap
     DEF TypeOK, CountType, SwitchBegin, SwitchAt, ghosts, diskVars
<1>4. HistoryType'
  BY Mishap
     DEF TypeOK, HistoryType, SwitchBegin, SwitchAt, ghosts, diskVars
<1>. QED
  BY <1>1, <1>2, <1>3, <1>4 DEF TypeOK

LEMMA SwitchLockType == TypeOK /\ SwitchLock => TypeOK'
<1> SUFFICES ASSUME TypeOK, SwitchLock PROVE TypeOK'
  OBVIOUS
<1>1. DiskType'
  BY SwitchTypes
     DEF TypeOK, DiskType, ProgramType, SwitchLock, SwitchAt, SwitchTo, Live, ImagesHere, countVars,
         diskVars
<1>2. ProgramType'
  BY SwitchTypes
     DEF TypeOK, DiskType, ProgramType, SwitchLock, SwitchAt, SwitchTo, Live, ImagesHere, countVars,
         diskVars, SwitchStep
<1>3. CountType'
  BY Mishap
     DEF TypeOK, CountType, SwitchLock, SwitchAt, SwitchTo, Live, ImagesHere, countVars, diskVars
<1>4. HistoryType'
  BY BeforeType DEF TypeOK, HistoryType, SwitchLock
<1>. QED
  BY <1>1, <1>2, <1>3, <1>4 DEF TypeOK

LEMMA CaptureType == TypeOK /\ Capture => TypeOK'
<1> SUFFICES ASSUME TypeOK, Capture PROVE TypeOK'
  OBVIOUS
<1>1. DiskType'
  <2>1. captured' \in Row
    BY DEF TypeOK, CountType, Capture, Row
  <2>2. \A d \in Live : {[d EXCEPT !.rows = @ \cup {captured'}, !.counter = @ + 1]} \in Place(Db)
    <3> SUFFICES ASSUME NEW d \in Live
                 PROVE  [d EXCEPT !.rows = @ \cup {captured'}, !.counter = @ + 1] \in Db
      BY Places
    <3>1. d \in Db
      BY DbGet, Places DEF TypeOK, DiskType, Live
    <3>2. d.rows \cup {captured'} \in SUBSET Row /\ d.counter + 1 \in Nat
      BY <2>1, <3>1, DbFields
    <3>. QED
      BY <3>1, <3>2 DEF Db
  <2>3. {(UNION images[imageRoot].live) \cup {captured'}} \in Place(SUBSET Row)
    <3>1. images[imageRoot].live \in Place(SUBSET Row)
      BY ImageGet DEF TypeOK, DiskType, ProgramType
    <3>2. \A x \in images[imageRoot].live : x \subseteq Row
      BY <3>1, Places
    <3>3. UNION images[imageRoot].live \subseteq Row
      BY <3>2, Unions
    <3>4. (UNION images[imageRoot].live) \cup {captured'} \in SUBSET Row
      BY <2>1, <3>3, Added, Zenon
    <3>. QED
      BY <3>4, Places
  <2>4. db' \in DbDisk
    BY <2>2, DbPut DEF TypeOK, DiskType, Capture
  <2>5. images' \in ImageDisk
    BY <2>3, ImagePut DEF TypeOK, DiskType, ProgramType, Capture
  <2>. QED
    BY <2>4, <2>5 DEF TypeOK, DiskType, Capture
<1>2. ProgramType'
  BY DEF TypeOK, DiskType, ProgramType, Capture, Live, progVars
<1>3. CountType'
  BY Mishap
     DEF TypeOK, CountType, Capture, Live, progVars
<1>4. HistoryType'
  <2>1. \A d \in Live : d \in Db
    BY DbGet, Places DEF TypeOK, DiskType, Live
  <2>2. \A d \in Live : Larger(d.counter + 1, issued[d.epoch]) \in Nat
    <3> SUFFICES ASSUME NEW d \in Live PROVE Larger(d.counter + 1, issued[d.epoch]) \in Nat
      OBVIOUS
    <3>1. d.counter + 1 \in Nat /\ issued[d.epoch] \in Nat
      BY <2>1, DbFields DEF TypeOK, HistoryType
    <3>. QED
      BY <3>1, LargerType
  <2>3. issued' \in [Epoch -> Nat]
    BY <2>1, <2>2 DEF TypeOK, HistoryType, Capture
  <2>. QED
    BY <2>3 DEF TypeOK, HistoryType, Capture
<1>. QED
  BY <1>1, <1>2, <1>3, <1>4 DEF TypeOK

LEMMA ExportType == TypeOK /\ Export => TypeOK'
<1> SUFFICES ASSUME TypeOK, Export PROVE TypeOK'
  OBVIOUS
<1>1. DiskType'
  <2>1. [db |-> Live, images |-> ImagesHere.live] \in Backup
    BY DbGet, ImageGet DEF TypeOK, DiskType, Live, ImagesHere, Backup
  <2>. QED
    BY <2>1 DEF TypeOK, DiskType, Export
<1>2. ProgramType'
  BY DEF TypeOK, DiskType, ProgramType, Export, Live, ImagesHere, progVars, countVars, ghosts
<1>3. CountType'
  BY Mishap
     DEF TypeOK, CountType, Export, Live, ImagesHere, progVars, countVars, ghosts
<1>4. HistoryType'
  BY Mishap
     DEF TypeOK, HistoryType, Export, Live, ImagesHere, progVars, countVars, ghosts
<1>. QED
  BY <1>1, <1>2, <1>3, <1>4 DEF TypeOK

LEMMA CrashType == TypeOK /\ Crash => TypeOK'
<1> SUFFICES ASSUME TypeOK, Crash PROVE TypeOK'
  OBVIOUS
<1>1. DiskType'
  BY DEF TypeOK, DiskType, ProgramType, Crash, Half, diskVars
<1>2. ProgramType'
  BY NoneTypes
     DEF TypeOK, DiskType, ProgramType, Crash, Half, diskVars
<1>3. CountType'
  BY Mishap
     DEF TypeOK, CountType, Crash, Half, diskVars
<1>4. HistoryType'
  BY Mishap, CutTypes
     DEF TypeOK, HistoryType, Crash, Half, diskVars
<1>. QED
  BY <1>1, <1>2, <1>3, <1>4 DEF TypeOK

LEMMA StartType == TypeOK /\ Start => TypeOK'
<1> SUFFICES ASSUME TypeOK, Start PROVE TypeOK'
  OBVIOUS
<1>1. DiskType'
  BY OpenTypes
     DEF TypeOK, DiskType, CountType, Start, ghosts
<1>2. ProgramType'
  BY DEF TypeOK, DiskType, ProgramType, Start, ghosts
<1>3. CountType'
  BY Mishap, OpenTypes
     DEF TypeOK, DiskType, CountType, Start, ghosts
<1>4. HistoryType'
  BY Mishap
     DEF TypeOK, HistoryType, Start, ghosts
<1>. QED
  BY <1>1, <1>2, <1>3, <1>4 DEF TypeOK

-----------------------------------------------------------------------------
(***************************************************************************)
(* What the operators leave in a place.                                    *)
(***************************************************************************)
LEMMA DbValues ==
    \A f \in DbDisk, d, e \in Dirs : \A x :
        /\ PutLive(f, d, x)[e].live = (IF e = d THEN x ELSE f[e].live)
        /\ PutLive(f, d, x)[e].previous = f[e].previous
        /\ PutPrevious(f, d, x)[e].live = f[e].live
        /\ PutPrevious(f, d, x)[e].previous = (IF e = d THEN x ELSE f[e].previous)
        /\ PutStaged(f, d, x)[e].live = f[e].live
        /\ PutStaged(f, d, x)[e].previous = f[e].previous
        /\ Put(f, d, x)[e] = (IF e = d THEN x ELSE f[e])
        /\ PutLive(f, d, x)[e].staged = f[e].staged
        /\ PutPrevious(f, d, x)[e].staged = f[e].staged
        /\ PutStaged(f, d, x)[e].staged = (IF e = d THEN x ELSE f[e].staged)
BY DEF DbDisk, DbPlace, PutLive, PutPrevious, PutStaged, Put

LEMMA DbMoved ==
    \A f \in DbDisk, d \in Dirs :
        /\ Aside(f, d)[d].live = {} /\ Aside(f, d)[d].previous = f[d].live
        /\ Back(f, d)[d].live = f[d].previous /\ Back(f, d)[d].previous = {}
        /\ Aside(f, d)[d].staged = f[d].staged
BY DEF DbDisk, DbPlace, PutLive, PutPrevious, Aside, Back

LEMMA ImageValues ==
    \A f \in ImageDisk, d, e \in Dirs : \A x :
        /\ PutLive(f, d, x)[e].live = (IF e = d THEN x ELSE f[e].live)
        /\ PutLive(f, d, x)[e].previous = f[e].previous
        /\ PutPrevious(f, d, x)[e].live = f[e].live
        /\ PutPrevious(f, d, x)[e].previous = (IF e = d THEN x ELSE f[e].previous)
        /\ Put(f, d, x)[e] = (IF e = d THEN x ELSE f[e])
BY DEF ImageDisk, ImagePlace, PutLive, PutPrevious, Put

LEMMA ImageMoved ==
    \A f \in ImageDisk, d \in Dirs :
        /\ Aside(f, d)[d].live = {} /\ Aside(f, d)[d].previous = f[d].live
        /\ Back(f, d)[d].live = f[d].previous /\ Back(f, d)[d].previous = {}
BY DEF ImageDisk, ImagePlace, PutLive, PutPrevious, Aside, Back

LEMMA ImportValues ==
    \A i \in Import :
        /\ \A step : StepTo(i, step).pc = step /\ StepTo(i, step).changed = i.changed
        /\ Unstaged(i).pc = i.pc /\ Unstaged(i).changed = i.changed
        /\ Changed(i).changed = TRUE
        /\ \A n : Numbered(i, n).changed = i.changed
BY DEF Import, StepTo, Unstaged, Changed, Numbered

LEMMA ImportKeeps ==
    \A i \in Import :
        /\ \A step : /\ StepTo(i, step).backup = i.backup /\ StepTo(i, step).staged = i.staged
                    /\ StepTo(i, step).withSettings = i.withSettings
                    /\ StepTo(i, step).counter = i.counter
        /\ Changed(i).backup = i.backup /\ Changed(i).staged = i.staged
        /\ Changed(i).withSettings = i.withSettings
        /\ Unstaged(i).backup = i.backup /\ Unstaged(i).staged = {}
        /\ Unstaged(i).withSettings = i.withSettings
        /\ \A n : /\ Numbered(i, n).backup = i.backup /\ Numbered(i, n).staged = i.staged
                 /\ Numbered(i, n).withSettings = i.withSettings /\ Numbered(i, n).counter = n
BY DEF Import, StepTo, Unstaged, Changed, Numbered

LEMMA SwitchValues ==
    \A w \in Switch : \A step :
        StepTo(w, step).pc = step /\ StepTo(w, step).from = w.from /\ StepTo(w, step).to = w.to
BY DEF Switch, StepTo

LEMMA NoneValues == NoImport.pc = "idle" /\ NoImport.changed = FALSE /\ NoSwitch.pc = "idle"
BY DEF NoImport, NoSwitch

LEMMA NoRows == RowsOf({}) = {} /\ UNION {} = {}
BY DEF RowsOf

LEMMA MoreRows == \A S, T : RowsOf(S) \subseteq RowsOf(S \cup T) /\ RowsOf(T) \subseteq RowsOf(S \cup T)
BY DEF RowsOf

LEMMA MoreImages == \A S, T : UNION S \subseteq UNION (S \cup T) /\ UNION T \subseteq UNION (S \cup T)
OBVIOUS

LEMMA Changing ==
    \A i \in Import : \A step :
        StepTo(Changed(i), step).pc = step /\ StepTo(Changed(i), step).changed = TRUE
<1> SUFFICES ASSUME NEW i \in Import, NEW step
             PROVE  StepTo(Changed(i), step).pc = step /\ StepTo(Changed(i), step).changed = TRUE
  OBVIOUS
<1>1. Changed(i) \in Import
  BY ImportTypes
<1>. QED
  BY <1>1, ImportValues

LEMMA MovedIn ==
    \A f \in DbDisk, d \in Dirs :
        LET g == PutStaged(PutLive(f, d, f[d].staged), d, {})
        IN  g[d].previous = f[d].previous /\ g[d].live = f[d].staged
<1> SUFFICES ASSUME NEW f \in DbDisk, NEW d \in Dirs
             PROVE  LET g == PutStaged(PutLive(f, d, f[d].staged), d, {})
                    IN  g[d].previous = f[d].previous /\ g[d].live = f[d].staged
  OBVIOUS
<1>1. PutLive(f, d, f[d].staged) \in DbDisk
  BY DbPut, DbGet
<1>. QED
  BY <1>1, DbValues

-----------------------------------------------------------------------------
(***************************************************************************)
(* A step of an import goes on to another step, goes back, or is the last. *)
(***************************************************************************)
LEMMA StepKept ==
    ASSUME IInv, owner = "import", SwapSteady, imp' \in Import,
           imp'.pc \notin {"idle", "wait"},
           imp'.pc \in BeforeChange => ~ imp'.changed,
           imp'.pc \in AfterChange => imp'.changed,
           imp'.pc = "moveAside" => Previous' = {},
           ImportKept'
    PROVE  Control' /\ Kept'
<1>1. Control'
  BY DEF IInv, Control, SwapSteady, ImportSteady, Underway, BeforeChange, BeforeMove, AfterChange
<1>2. SwitchKept' /\ IdleKept'
  BY DEF IInv, Control, SwitchKept, IdleKept, SwapSteady, ImportSteady, Underway
<1>. QED
  BY <1>1, <1>2 DEF Kept

LEMMA EndKept ==
    ASSUME IInv, owner = "import", NEW how \in {"ok", "err"}, ImportEnds(how), ImportSteady,
           pool' \in {pool, "open"},
           how = "err" /\ ~ stale' => OldDataKept'
    PROVE  Control' /\ Kept'
<1>1. Control'
  BY NoneValues DEF IInv, Control, ImportEnds, ImportSteady, BeforeChange, BeforeMove, AfterChange
<1>2. ImportKept' /\ SwitchKept' /\ IdleKept'
  BY DEF IInv, Control, ImportKept, SwitchKept, IdleKept, ImportEnds, ImportSteady
<1>. QED
  BY <1>1, <1>2 DEF Kept

LEMMA ImportHolds == Control /\ imp.pc \notin {"idle", "wait"} => owner = "import"
BY DEF Control

(* Where a place looks as before.                                          *)
LEMMA SameDb == UNCHANGED <<db, manifest>> => Live' = Live /\ Previous' = Previous /\ Staged' = Staged
BY DEF Live, Previous, Staged
LEMMA SameImages == UNCHANGED <<images, manifest>> => ImagesHere' = ImagesHere
BY DEF ImagesHere

LEMMA SwapFailsKept ==
    ASSUME IInv, imp.pc \in AfterMove \cup {"moveAside"}, imp.pc # "commit",
           SwapFails, SwapSteady, imp' \in Import, UNCHANGED stale
    PROVE  Control' /\ Kept'
<1>1. imp'.pc = UndoFrom(imp.changed) /\ imp'.changed = imp.changed /\ owner = "import"
  BY ImportValues, ImportHolds
     DEF IInv, TypeOK, ProgramType, SwapFails, ImportTo, AfterMove
<1>2. Live' = Live /\ Previous' = Previous /\ ImagesHere' = ImagesHere /\ before' = before
  BY SameDb, SameImages DEF SwapFails, SwapSteady, ImportSteady
<1>3. ImportKept'
  <2>1. CASE imp.changed
    BY <1>1, <1>2, <2>1 DEF IInv, Kept, Control, ImportKept, UndoFrom, RowsHere, RowsAside,
       ImagesLive, ImagesAway, BeforeMove, BeforeChange, AfterChange, AfterMove, UndoDbStep, SwapSteady, Underway
  <2>2. CASE ~ imp.changed /\ Previous # {}
    BY <1>1, <1>2, <2>2 DEF IInv, Kept, Control, ImportKept, UndoFrom, RowsHere, RowsAside,
       ImagesLive, ImagesAway, BeforeMove, BeforeChange, AfterChange, AfterMove, UndoDbStep, SwapSteady, Underway
  <2>3. CASE ~ imp.changed /\ Previous = {}
    BY <1>1, <1>2, <2>3, NoRows DEF IInv, Kept, Control, ImportKept, UndoFrom, RowsHere, RowsAside,
       ImagesLive, ImagesAway, BeforeMove, BeforeChange, AfterChange, AfterMove, UndoDbStep, SwapSteady, Underway
  <2>. QED
    BY <2>1, <2>2, <2>3 DEF IInv, TypeOK, ProgramType, Import
<1>. QED
  BY <1>1, <1>3, StepKept DEF UndoFrom, BeforeChange, BeforeMove, AfterChange

(* One lemma per action of an import.                                      *)
LEMMA MoveAsideKept == IInv /\ MoveAside => Control' /\ Kept'
<1> SUFFICES ASSUME IInv, MoveAside PROVE Control' /\ Kept'
  OBVIOUS
<1>1. imp.pc = "moveAside" /\ owner = "import" /\ SwapSteady /\ UNCHANGED stale
  BY ImportHolds DEF IInv, MoveAside, ImportAt
<1>2. imp' \in Import
  BY MoveAsideType DEF IInv, TypeOK, ProgramType
<1>3. CASE SwapFails
  BY <1>1, <1>2, <1>3, SwapFailsKept DEF AfterMove
<1>4. CASE ImportTo("moveIn") /\ db' = Aside(db, manifest) /\ UNCHANGED images
  <2>1. imp'.pc = ("moveIn") /\ imp'.changed = imp.changed
    BY <1>4, ImportValues
       DEF IInv, TypeOK, ProgramType, ImportTo
  <2>2. Live' = {} /\ Previous' = Live /\ ImagesHere' = ImagesHere /\ before' = before
    BY <1>1, <1>4, DbMoved, SameImages
       DEF IInv, TypeOK, DiskType, SwapSteady, ImportSteady, Live, Previous, ImagesHere
  <2>3. ImportKept'
    BY <1>1, <2>1, <2>2
       DEF IInv, Kept, Control, ImportKept, RowsHere, RowsAside, ImagesLive, ImagesAway, BeforeMove,
           BeforeChange, AfterChange, AfterMove, UndoDbStep, SwapSteady, Underway
  <2>. QED
    BY <1>1, <1>2, <2>1, <2>3, StepKept
       DEF IInv, Control, BeforeChange, BeforeMove, AfterChange
<1>. QED
  BY <1>3, <1>4 DEF MoveAside

LEMMA MoveInKept == IInv /\ MoveIn => Control' /\ Kept'
<1> SUFFICES ASSUME IInv, MoveIn PROVE Control' /\ Kept'
  OBVIOUS
<1>1. imp.pc = "moveIn" /\ owner = "import" /\ SwapSteady /\ UNCHANGED stale
  BY ImportHolds DEF IInv, MoveIn, ImportAt
<1>2. imp' \in Import
  BY MoveInType DEF IInv, TypeOK, ProgramType
<1>3. CASE SwapFails
  BY <1>1, <1>2, <1>3, SwapFailsKept DEF AfterMove
<1>4. CASE ImportTo("open") /\ UNCHANGED images
           /\ db' = PutStaged(PutLive(db, manifest, Staged), manifest, {})
  <2>1. imp'.pc = ("open") /\ imp'.changed = imp.changed
    BY <1>4, ImportValues
       DEF IInv, TypeOK, ProgramType, ImportTo
  <2>2. Previous' = Previous /\ ImagesHere' = ImagesHere /\ before' = before
    BY <1>1, <1>4, MovedIn, SameImages
       DEF IInv, TypeOK, DiskType, SwapSteady, ImportSteady, Live, Previous, ImagesHere, Staged
  <2>3. ImportKept'
    BY <1>1, <2>1, <2>2
       DEF IInv, Kept, Control, ImportKept, RowsHere, RowsAside, ImagesLive, ImagesAway, BeforeMove,
           BeforeChange, AfterChange, AfterMove, UndoDbStep, SwapSteady, Underway
  <2>. QED
    BY <1>1, <1>2, <2>1, <2>3, StepKept
       DEF IInv, Control, BeforeChange, BeforeMove, AfterChange
<1>. QED
  BY <1>3, <1>4 DEF MoveIn

LEMMA OpenNewKept == IInv /\ OpenNew => Control' /\ Kept'
<1> SUFFICES ASSUME IInv, OpenNew PROVE Control' /\ Kept'
  OBVIOUS
<1>1. imp.pc = "open" /\ owner = "import" /\ SwapSteady /\ UNCHANGED stale
  BY ImportHolds DEF IInv, OpenNew, ImportAt
<1>2. imp' \in Import
  BY OpenNewType DEF IInv, TypeOK, ProgramType
<1>3. CASE SwapFails
  BY <1>1, <1>2, <1>3, SwapFailsKept DEF AfterMove
<1>4. CASE ImportTo("reset") /\ UNCHANGED images /\ OpenDb(db, manifest)
  <2>1. imp'.pc = ("reset") /\ imp'.changed = imp.changed
    BY <1>4, ImportValues
       DEF IInv, TypeOK, ProgramType, ImportTo
  <2>2. Previous' = Previous /\ ImagesHere' = ImagesHere /\ before' = before
    BY <1>1, <1>4, DbValues, SameImages
       DEF IInv, TypeOK, DiskType, SwapSteady, ImportSteady, Live, Previous, ImagesHere, OpenDb
  <2>3. ImportKept'
    BY <1>1, <2>1, <2>2
       DEF IInv, Kept, Control, ImportKept, RowsHere, RowsAside, ImagesLive, ImagesAway, BeforeMove,
           BeforeChange, AfterChange, AfterMove, UndoDbStep, SwapSteady, Underway
  <2>. QED
    BY <1>1, <1>2, <2>1, <2>3, StepKept
       DEF IInv, Control, BeforeChange, BeforeMove, AfterChange
<1>. QED
  BY <1>3, <1>4 DEF OpenNew

LEMMA ResetKept == IInv /\ Reset => Control' /\ Kept'
<1> SUFFICES ASSUME IInv, Reset PROVE Control' /\ Kept'
  OBVIOUS
<1>1. imp.pc = "reset" /\ owner = "import" /\ SwapSteady /\ UNCHANGED stale
  BY ImportHolds DEF IInv, Reset, ImportAt
<1>2. imp' \in Import
  BY ResetType DEF IInv, TypeOK, ProgramType
<1>3. CASE SwapFails
  BY <1>1, <1>2, <1>3, SwapFailsKept DEF AfterMove
<1>4. CASE ImportTo(IF imp.backup.images # {} THEN "dropOldImages" ELSE AfterImages)
           /\ UNCHANGED images
           /\ db' = PutLive(db, manifest,
                            {[d EXCEPT !.counter = Larger(@, imp.counter)] : d \in Live})
  <2>1. imp'.pc = (IF imp.backup.images # {} THEN "dropOldImages" ELSE AfterImages) /\ imp'.changed = imp.changed
    BY <1>4, ImportValues
       DEF IInv, TypeOK, ProgramType, ImportTo
  <2>2. Previous' = Previous /\ ImagesHere' = ImagesHere /\ before' = before
    BY <1>1, <1>4, DbValues, SameImages
       DEF IInv, TypeOK, DiskType, SwapSteady, ImportSteady, Live, Previous, ImagesHere
  <2>3. ImportKept'
    BY <1>1, <2>1, <2>2
       DEF IInv, Kept, Control, ImportKept, RowsHere, RowsAside, ImagesLive, ImagesAway, BeforeMove,
           BeforeChange, AfterChange, AfterMove, UndoDbStep, SwapSteady, Underway, AfterImages
  <2>. QED
    BY <1>1, <1>2, <2>1, <2>3, StepKept
       DEF IInv, Control, BeforeChange, BeforeMove, AfterChange, AfterImages
<1>. QED
  BY <1>3, <1>4 DEF Reset

LEMMA DropOldImagesKept == IInv /\ DropOldImages => Control' /\ Kept'
<1> SUFFICES ASSUME IInv, DropOldImages PROVE Control' /\ Kept'
  OBVIOUS
<1>1. imp.pc = "dropOldImages" /\ owner = "import" /\ SwapSteady /\ UNCHANGED stale
  BY ImportHolds DEF IInv, DropOldImages, ImportAt
<1>2. imp' \in Import
  BY DropOldImagesType DEF IInv, TypeOK, ProgramType
<1>3. CASE SwapFails
  BY <1>1, <1>2, <1>3, SwapFailsKept DEF AfterMove
<1>4. CASE ImportTo("imagesAside") /\ UNCHANGED db
           /\ images' = PutPrevious(images, manifest, {})
  <2>1. imp'.pc = ("imagesAside") /\ imp'.changed = imp.changed
    BY <1>4, ImportValues
       DEF IInv, TypeOK, ProgramType, ImportTo
  <2>2. Previous' = Previous /\ ImagesHere'.live = ImagesHere.live /\ before' = before
    BY <1>1, <1>4, ImageValues, SameDb
       DEF IInv, TypeOK, DiskType, SwapSteady, ImportSteady, Live, Previous, ImagesHere
  <2>3. ImportKept'
    BY <1>1, <2>1, <2>2
       DEF IInv, Kept, Control, ImportKept, RowsHere, RowsAside, ImagesLive, ImagesAway, BeforeMove,
           BeforeChange, AfterChange, AfterMove, UndoDbStep, SwapSteady, Underway
  <2>. QED
    BY <1>1, <1>2, <2>1, <2>3, StepKept
       DEF IInv, Control, BeforeChange, BeforeMove, AfterChange
<1>. QED
  BY <1>3, <1>4 DEF DropOldImages

LEMMA ImagesAsideKept == IInv /\ ImagesAside => Control' /\ Kept'
<1> SUFFICES ASSUME IInv, ImagesAside PROVE Control' /\ Kept'
  OBVIOUS
<1>1. imp.pc = "imagesAside" /\ owner = "import" /\ SwapSteady /\ UNCHANGED stale
  BY ImportHolds DEF IInv, ImagesAside, ImportAt
<1>2. imp' \in Import
  BY ImagesAsideType DEF IInv, TypeOK, ProgramType
<1>3. CASE SwapFails
  BY <1>1, <1>2, <1>3, SwapFailsKept DEF AfterMove
<1>4. CASE imp' = StepTo(Changed(imp), "installImages") /\ UNCHANGED db
           /\ images' = Aside(images, manifest)
  <2>1. imp'.pc = ("installImages") /\ imp'.changed = TRUE
    BY <1>4, Changing
       DEF IInv, TypeOK, ProgramType, ImportTo
  <2>2. Previous' = Previous /\ ImagesHere'.previous = ImagesHere.live /\ before' = before
    BY <1>1, <1>4, ImageMoved, SameDb
       DEF IInv, TypeOK, DiskType, SwapSteady, ImportSteady, Live, Previous, ImagesHere
  <2>3. ImportKept'
    BY <1>1, <2>1, <2>2
       DEF IInv, Kept, Control, ImportKept, RowsHere, RowsAside, ImagesLive, ImagesAway, BeforeMove,
           BeforeChange, AfterChange, AfterMove, UndoDbStep, SwapSteady, Underway
  <2>. QED
    BY <1>1, <1>2, <2>1, <2>3, StepKept
       DEF IInv, Control, BeforeChange, BeforeMove, AfterChange
<1>. QED
  BY <1>3, <1>4 DEF ImagesAside

LEMMA ReplaceSettingsKept == IInv /\ ReplaceSettings => Control' /\ Kept'
<1> SUFFICES ASSUME IInv, ReplaceSettings PROVE Control' /\ Kept'
  OBVIOUS
<1>1. imp.pc = "settings" /\ owner = "import" /\ SwapSteady /\ UNCHANGED stale
  BY ImportHolds DEF IInv, ReplaceSettings, ImportAt
<1>2. imp' \in Import
  BY ReplaceSettingsType DEF IInv, TypeOK, ProgramType
<1>3. CASE SwapFails
  BY <1>1, <1>2, <1>3, SwapFailsKept DEF AfterMove
<1>4. CASE ImportTo("commit") /\ UNCHANGED <<db, images>>
  <2>1. imp'.pc = ("commit") /\ imp'.changed = imp.changed
    BY <1>4, ImportValues
       DEF IInv, TypeOK, ProgramType, ImportTo
  <2>2. Previous' = Previous /\ ImagesHere' = ImagesHere /\ before' = before
    BY <1>1, <1>4, SameDb, SameImages
       DEF IInv, TypeOK, DiskType, SwapSteady, ImportSteady, Live, Previous, ImagesHere
  <2>3. ImportKept'
    BY <1>1, <2>1, <2>2
       DEF IInv, Kept, Control, ImportKept, RowsHere, RowsAside, ImagesLive, ImagesAway, BeforeMove,
           BeforeChange, AfterChange, AfterMove, UndoDbStep, SwapSteady, Underway
  <2>. QED
    BY <1>1, <1>2, <2>1, <2>3, StepKept
       DEF IInv, Control, BeforeChange, BeforeMove, AfterChange
<1>. QED
  BY <1>3, <1>4 DEF ReplaceSettings

LEMMA UndoImagesKept == IInv /\ UndoImages => Control' /\ Kept'
<1> SUFFICES ASSUME IInv, UndoImages PROVE Control' /\ Kept'
  OBVIOUS
<1>1. imp.pc = "undoImages" /\ owner = "import" /\ SwapSteady /\ UNCHANGED stale /\ imp' \in Import
  BY ImportHolds, UndoImagesType DEF IInv, TypeOK, ProgramType, UndoImages, ImportAt, UndoSteady
<1>2. imp'.pc = "restoreImages" /\ imp'.changed = imp.changed
  BY ImportValues DEF IInv, TypeOK, ProgramType, UndoImages, ImportTo
<1>3. /\ Previous' = Previous /\ ImagesHere'.previous = ImagesHere.previous /\ before' = before
      /\ ImagesHere'.live = {}
  BY <1>1, ImageValues, SameDb
     DEF UndoImages, IInv, TypeOK, DiskType, UndoSteady, SwapSteady, ImportSteady, Live, Previous,
         ImagesHere
<1>4. ImportKept'
  BY <1>1, <1>2, <1>3, NoRows
     DEF IInv, Kept, Control, ImportKept, RowsHere, RowsAside, ImagesLive, ImagesAway, BeforeMove,
         BeforeChange, AfterChange, AfterMove, UndoDbStep, SwapSteady, Underway
<1>. QED
  BY <1>1, <1>2, <1>4, StepKept
     DEF IInv, Control, BeforeChange, BeforeMove, AfterChange

LEMMA RestoreImagesKept == IInv /\ RestoreImages => Control' /\ Kept'
<1> SUFFICES ASSUME IInv, RestoreImages PROVE Control' /\ Kept'
  OBVIOUS
<1>1. imp.pc = "restoreImages" /\ owner = "import" /\ SwapSteady /\ UNCHANGED stale /\ imp' \in Import
  BY ImportHolds, RestoreImagesType DEF IInv, TypeOK, ProgramType, RestoreImages, ImportAt, UndoSteady
<1>2. imp'.pc = UndoFrom(FALSE) /\ imp'.changed = imp.changed
  BY ImportValues DEF IInv, TypeOK, ProgramType, RestoreImages, ImportTo
<1>3. /\ Previous' = Previous /\ before' = before
      /\ IF ImagesHere.previous # {} THEN ImagesHere'.live = ImagesHere.previous
         ELSE ImagesHere'.live = ImagesHere.live
      /\ Live' = Live
  BY <1>1, ImageMoved, SameDb
     DEF RestoreImages, IInv, TypeOK, DiskType, UndoSteady, SwapSteady, ImportSteady, ImagesHere
<1>4. ImportKept'
  BY <1>1, <1>2, <1>3, NoRows
     DEF IInv, Kept, Control, ImportKept, RowsHere, RowsAside, ImagesLive, ImagesAway, BeforeMove,
         BeforeChange, AfterChange, AfterMove, UndoDbStep, SwapSteady, Underway, UndoFrom
<1>. QED
  BY <1>1, <1>2, <1>4, StepKept
     DEF IInv, Control, BeforeChange, BeforeMove, AfterChange, UndoFrom

LEMMA UndoDbKept == IInv /\ UndoDb => Control' /\ Kept'
<1> SUFFICES ASSUME IInv, UndoDb PROVE Control' /\ Kept'
  OBVIOUS
<1>1. imp.pc = "undoDb" /\ owner = "import" /\ SwapSteady /\ UNCHANGED stale /\ imp' \in Import
  BY ImportHolds, UndoDbType DEF IInv, TypeOK, ProgramType, UndoDb, ImportAt, UndoSteady
<1>2. imp'.pc = "restoreDb" /\ imp'.changed = imp.changed
  BY ImportValues DEF IInv, TypeOK, ProgramType, UndoDb, ImportTo
<1>3. Live' = {} /\ Previous' = Previous /\ ImagesHere' = ImagesHere /\ before' = before
  BY <1>1, DbValues, SameImages
     DEF UndoDb, IInv, TypeOK, DiskType, UndoSteady, SwapSteady, ImportSteady, Live, Previous,
         ImagesHere
<1>4. ImportKept'
  BY <1>1, <1>2, <1>3, NoRows
     DEF IInv, Kept, Control, ImportKept, RowsHere, RowsAside, ImagesLive, ImagesAway, BeforeMove,
         BeforeChange, AfterChange, AfterMove, UndoDbStep, SwapSteady, Underway
<1>. QED
  BY <1>1, <1>2, <1>4, StepKept
     DEF IInv, Control, BeforeChange, BeforeMove, AfterChange

LEMMA RestoreDbKept == IInv /\ RestoreDb => Control' /\ Kept'
<1> SUFFICES ASSUME IInv, RestoreDb PROVE Control' /\ Kept'
  OBVIOUS
<1>1. imp.pc = "restoreDb" /\ owner = "import" /\ SwapSteady /\ UNCHANGED stale /\ imp' \in Import
  BY ImportHolds, RestoreDbType DEF IInv, TypeOK, ProgramType, RestoreDb, ImportAt, UndoSteady
<1>2. imp'.pc = "reopen" /\ imp'.changed = imp.changed
  BY ImportValues DEF IInv, TypeOK, ProgramType, RestoreDb, ImportTo
<1>3. Live' = Previous /\ ImagesHere' = ImagesHere /\ before' = before
  BY <1>1, DbMoved, SameImages
     DEF RestoreDb, IInv, TypeOK, DiskType, UndoSteady, SwapSteady, ImportSteady, Live, Previous,
         ImagesHere
<1>4. ImportKept'
  BY <1>1, <1>2, <1>3, NoRows
     DEF IInv, Kept, Control, ImportKept, RowsHere, RowsAside, ImagesLive, ImagesAway, BeforeMove,
         BeforeChange, AfterChange, AfterMove, UndoDbStep, SwapSteady, Underway
<1>. QED
  BY <1>1, <1>2, <1>4, StepKept
     DEF IInv, Control, BeforeChange, BeforeMove, AfterChange

LEMMA StageDatabaseKept == IInv /\ StageDatabase => Control' /\ Kept'
<1> SUFFICES ASSUME IInv, StageDatabase PROVE Control' /\ Kept'
  OBVIOUS
<1>1. imp.pc = "stage" /\ owner = "import" /\ ImportSteady /\ UNCHANGED <<stale, pool>> /\ imp' \in Import
  BY ImportHolds, StageDatabaseType DEF IInv, TypeOK, ProgramType, StageDatabase, ImportAt
<1>2. /\ Live' = Live /\ Previous' = Previous /\ ImagesHere' = ImagesHere /\ before' = before
  BY <1>1, DbValues, SameImages
     DEF IInv, TypeOK, DiskType, StageDatabase, ImportSteady, Live, Previous
<1>3. CASE Underway /\ ImportTo("counter")
  <2>1. imp'.pc = "counter" /\ imp'.changed = imp.changed
    BY <1>3, ImportValues DEF IInv, TypeOK, ProgramType, ImportTo
  <2>2. SwapSteady
    BY <1>1, <1>3 DEF SwapSteady
  <2>3. ImportKept'
    BY <1>1, <1>2, <2>1, <2>2
       DEF IInv, Kept, Control, ImportKept, RowsHere, RowsAside, ImagesLive, ImagesAway, BeforeMove,
           BeforeChange, AfterChange, AfterMove, UndoDbStep, SwapSteady, Underway
  <2>. QED
    BY <1>1, <2>1, <2>2, <2>3, StepKept DEF IInv, Control, BeforeChange, BeforeMove, AfterChange
<1>4. CASE ImportEnds("err")
  <2>1. ~ stale' => OldDataKept'
    BY <1>1, <1>2, MoreRows, MoreImages
       DEF IInv, Kept, Control, ImportKept, RowsHere, ImagesLive, BeforeMove, BeforeChange,
           UndoDbStep, OldDataKept
  <2>. QED
    BY <1>1, <1>4, <2>1, EndKept
<1>. QED
  BY <1>3, <1>4 DEF StageDatabase

LEMMA ReadCounterKept == IInv /\ ReadCounter => Control' /\ Kept'
<1> SUFFICES ASSUME IInv, ReadCounter PROVE Control' /\ Kept'
  OBVIOUS
<1>1. /\ imp.pc = "counter" /\ owner = "import" /\ ImportSteady /\ UNCHANGED stale /\ imp' \in Import
      /\ pool' \in {pool, "closed"}
  BY ImportHolds, ReadCounterType DEF IInv, TypeOK, ProgramType, ReadCounter, ImportAt
<1>2. Live' = Live /\ Previous' = Previous /\ ImagesHere' = ImagesHere /\ before' = before
  BY <1>1, SameDb, SameImages DEF ReadCounter, ImportSteady
<1>3. ASSUME NEW d \in Live, Underway, imp' = StepTo(Numbered(imp, d.counter), "removePrevious")
      PROVE  Control' /\ Kept'
  <2>1. Numbered(imp, d.counter) \in Import
    <3>1. d.counter \in Nat
      BY DbGet, DbFields, Places DEF IInv, TypeOK, DiskType, Live
    <3>. QED
      BY <3>1, ImportTypes DEF IInv, TypeOK, ProgramType
  <2>2. imp'.pc = "removePrevious" /\ imp'.changed = imp.changed
    BY <1>3, <2>1, ImportValues DEF IInv, TypeOK, ProgramType
  <2>3. ImportKept'
    BY <1>1, <1>2, <1>3, <2>2
       DEF IInv, Kept, Control, ImportKept, RowsHere, RowsAside, ImagesLive, ImagesAway, BeforeMove,
           BeforeChange, AfterChange, AfterMove, UndoDbStep, Underway
  <2>4. Control'
    BY <1>1, <1>3, <2>2 DEF IInv, Control, ImportSteady, Underway, BeforeChange, BeforeMove, AfterChange
  <2>5. SwitchKept' /\ IdleKept'
    BY <1>1, <1>3 DEF IInv, Control, SwitchKept, IdleKept, ImportSteady, Underway
  <2>. QED
    BY <2>3, <2>4, <2>5 DEF Kept
<1>4. CASE ImportEnds("err") /\ UNCHANGED pool
  <2>1. ~ stale' => OldDataKept'
    BY <1>1, <1>2, MoreRows, MoreImages
       DEF IInv, Kept, Control, ImportKept, RowsHere, ImagesLive, BeforeMove, BeforeChange,
           UndoDbStep, OldDataKept
  <2>. QED
    BY <1>1, <1>4, <2>1, EndKept
<1>. QED
  BY <1>3, <1>4 DEF ReadCounter

LEMMA RemovePreviousKept == IInv /\ RemovePrevious => Control' /\ Kept'
<1> SUFFICES ASSUME IInv, RemovePrevious PROVE Control' /\ Kept'
  OBVIOUS
<1>1. imp.pc = "removePrevious" /\ owner = "import" /\ SwapSteady /\ imp' \in Import
  BY ImportHolds, RemovePreviousType DEF IInv, TypeOK, ProgramType, RemovePrevious, ImportAt
<1>2. CASE /\ ImportTo("moveAside") /\ db' = PutPrevious(db, manifest, {})
           /\ UNCHANGED <<images, stale>>
  <2>1. imp'.pc = "moveAside" /\ imp'.changed = imp.changed
    BY <1>2, ImportValues DEF IInv, TypeOK, ProgramType, ImportTo
  <2>2. Live' = Live /\ Previous' = {} /\ ImagesHere' = ImagesHere /\ before' = before
    BY <1>1, <1>2, DbValues, SameImages
       DEF IInv, TypeOK, DiskType, SwapSteady, ImportSteady, Live, Previous
  <2>3. ImportKept'
    BY <1>1, <1>2, <2>1, <2>2
       DEF IInv, Kept, Control, ImportKept, RowsHere, RowsAside, ImagesLive, ImagesAway, BeforeMove,
           BeforeChange, AfterChange, AfterMove, UndoDbStep, SwapSteady, Underway
  <2>. QED
    BY <1>1, <2>1, <2>2, <2>3, StepKept DEF IInv, Control, BeforeChange, BeforeMove, AfterChange
<1>3. CASE SwapFails /\ Previous # {} /\ stale' = TRUE
  <2>1. imp'.pc = UndoFrom(imp.changed) /\ imp'.changed = imp.changed
    BY <1>3, ImportValues DEF IInv, TypeOK, ProgramType, SwapFails, ImportTo
  <2>2. ImportKept'
    BY <1>3 DEF ImportKept
  <2>. QED
    BY <1>1, <2>1, <2>2, StepKept DEF IInv, Control, UndoFrom, BeforeChange, BeforeMove, AfterChange
<1>. QED
  BY <1>2, <1>3 DEF RemovePrevious

LEMMA InstallImagesKept == IInv /\ InstallImages => Control' /\ Kept'
<1> SUFFICES ASSUME IInv, InstallImages PROVE Control' /\ Kept'
  OBVIOUS
<1>1. imp.pc = "installImages" /\ owner = "import" /\ SwapSteady /\ UNCHANGED stale /\ imp' \in Import
  BY ImportHolds, InstallImagesType DEF IInv, TypeOK, ProgramType, InstallImages, ImportAt
<1>2. CASE SwapFails
  BY <1>1, <1>2, SwapFailsKept DEF AfterMove
<1>3. CASE /\ imp' = StepTo(Unstaged(imp), AfterImages) /\ UNCHANGED db
           /\ images' = PutLive(images, manifest, imp.staged)
  <2>1. Unstaged(imp) \in Import
    BY ImportTypes DEF IInv, TypeOK, ProgramType
  <2>2. imp'.pc = AfterImages /\ imp'.changed = imp.changed
    BY <1>3, <2>1, ImportValues DEF IInv, TypeOK, ProgramType
  <2>3. Previous' = Previous /\ ImagesHere'.previous = ImagesHere.previous /\ before' = before
    BY <1>1, <1>3, SameDb, ImageValues
       DEF IInv, TypeOK, DiskType, SwapSteady, ImportSteady, ImagesHere
  <2>4. ImportKept'
    BY <1>1, <2>2, <2>3
       DEF IInv, Kept, Control, ImportKept, RowsHere, RowsAside, ImagesLive, ImagesAway, BeforeMove,
           BeforeChange, AfterChange, AfterMove, UndoDbStep, SwapSteady, Underway, AfterImages
  <2>. QED
    BY <1>1, <2>2, <2>4, StepKept
       DEF IInv, Control, BeforeChange, BeforeMove, AfterChange, AfterImages
<1>4. CASE ImportTo(UndoFrom(TRUE)) /\ UNCHANGED <<db, images>>
  <2>1. imp'.pc = "undoImages" /\ imp'.changed = imp.changed
    BY <1>4, ImportValues DEF IInv, TypeOK, ProgramType, ImportTo, UndoFrom
  <2>2. Live' = Live /\ Previous' = Previous /\ ImagesHere' = ImagesHere /\ before' = before
    BY <1>1, <1>4, SameDb, SameImages DEF SwapSteady, ImportSteady
  <2>3. ImportKept'
    BY <1>1, <2>1, <2>2
       DEF IInv, Kept, Control, ImportKept, RowsHere, RowsAside, ImagesLive, ImagesAway, BeforeMove,
           BeforeChange, AfterChange, AfterMove, UndoDbStep, SwapSteady, Underway
  <2>. QED
    BY <1>1, <2>1, <2>3, StepKept DEF IInv, Control, BeforeChange, BeforeMove, AfterChange
<1>. QED
  BY <1>2, <1>3, <1>4 DEF InstallImages

LEMMA OpenRows ==
    \A f \in DbDisk, d, e \in Dirs :
        OpenDb(f, d) => /\ RowsOf(f[e].live) = RowsOf(db'[e].live)
                        /\ db'[e].previous = f[e].previous
<1> SUFFICES ASSUME NEW f \in DbDisk, NEW d \in Dirs, NEW e \in Dirs, OpenDb(f, d)
             PROVE  RowsOf(f[e].live) = RowsOf(db'[e].live) /\ db'[e].previous = f[e].previous
  OBVIOUS
<1>1. CASE f[d].live # {}
  BY <1>1 DEF OpenDb
<1>2. CASE f[d].live = {} /\ e = d
  <2>1. RowsOf(f[e].live) = {}
    BY <1>2, NoRows
  <2>2. db'[e].previous = f[e].previous /\ db'[e].live = {Fresh(epochs + 1)}
    BY <1>2, DbValues DEF OpenDb
  <2>3. RowsOf(db'[e].live) = {}
    BY <2>2 DEF RowsOf, Fresh
  <2>. QED
    BY <2>1, <2>2, <2>3
<1>3. CASE f[d].live = {} /\ e # d
  BY <1>3, DbValues DEF OpenDb
<1>. QED
  BY <1>1, <1>2, <1>3

LEMMA CommitKept == IInv /\ Commit => Control' /\ Kept'
<1> SUFFICES ASSUME IInv, Commit PROVE Control' /\ Kept'
  OBVIOUS
<1>1. owner = "import" /\ ImportEnds("ok") /\ ImportSteady /\ pool' = "open"
  BY ImportHolds DEF IInv, Commit, ImportAt
<1>. QED
  BY <1>1, EndKept

LEMMA ReopenKept == IInv /\ Reopen => Control' /\ Kept'
<1> SUFFICES ASSUME IInv, Reopen PROVE Control' /\ Kept'
  OBVIOUS
<1>1. /\ imp.pc = "reopen" /\ owner = "import" /\ ImportEnds("err") /\ ImportSteady /\ UNCHANGED <<stale, images>>
      /\ pool' = "open"
  BY ImportHolds DEF IInv, Reopen, ImportAt
<1>2. RowsOf(Live) = RowsOf(Live')
  <2>1. CASE OpenDb(PutStaged(db, manifest, {}), manifest)
    <3>1. PutStaged(db, manifest, {}) \in DbDisk
      BY DbClear DEF IInv, TypeOK, DiskType
    <3>. QED
      BY <1>1, <2>1, <3>1, OpenRows, DbValues DEF IInv, TypeOK, DiskType, ImportSteady, Live
  <2>2. CASE OpenDb(db, manifest)
    BY <1>1, <2>2, OpenRows DEF IInv, TypeOK, DiskType, ImportSteady, Live
  <2>. QED
    BY <2>1, <2>2 DEF Reopen
<1>3. ImagesHere' = ImagesHere /\ before' = before
  BY <1>1, SameImages DEF ImportSteady
<1>4. ~ stale => RowsHere /\ ImagesLive
  BY <1>1 DEF IInv, Kept, ImportKept
<1>5. ~ stale' => OldDataKept'
  BY <1>1, <1>2, <1>3, <1>4, MoreRows, MoreImages DEF RowsHere, ImagesLive, OldDataKept
<1>. QED
  BY <1>1, <1>5, EndKept

LEMMA GiveUpKept == IInv /\ GiveUp => Control' /\ Kept'
<1> SUFFICES ASSUME IInv, GiveUp PROVE Control' /\ Kept'
  OBVIOUS
<1>1. /\ imp.pc \in UndoDbStep \cup {"undoImages", "restoreImages", "reopen"}
      /\ owner = "import" /\ ImportEnds("err") /\ ImportSteady /\ UNCHANGED <<stale, images, db, pool>>
  BY ImportHolds DEF IInv, GiveUp, ImportAt, UndoDbStep
<1>2. Live' = Live /\ Previous' = Previous /\ ImagesHere' = ImagesHere /\ before' = before
  BY <1>1, SameDb, SameImages DEF ImportSteady
<1>3. ~ stale => (RowsHere \/ RowsAside) /\ (ImagesLive \/ ImagesAway)
  BY <1>1 DEF IInv, Kept, ImportKept
<1>4. ~ stale' => OldDataKept'
  BY <1>1, <1>2, <1>3, MoreRows, MoreImages DEF RowsHere, RowsAside, ImagesLive, ImagesAway, OldDataKept
<1>. QED
  BY <1>1, <1>4, EndKept

LEMMA MoreParts ==
    \A S, T, X :
        /\ RowsOf(S) \subseteq RowsOf(T) => RowsOf(S \cup X) \subseteq RowsOf(T \cup X)
        /\ UNION S \subseteq UNION T => UNION (S \cup X) \subseteq UNION (T \cup X)
BY DEF RowsOf

(* While the locks are held, the old data is somewhere.                    *)
LEMMA RunningKept == IInv /\ owner # "none" /\ ~ stale => OldDataKept
<1> SUFFICES ASSUME IInv, owner # "none", ~ stale PROVE OldDataKept
  OBVIOUS
<1>1. CASE owner = "import"
  <2>1. imp.pc \in ImportStep \ {"idle", "wait"}
    BY <1>1 DEF IInv, TypeOK, ProgramType, Import, Control
  <2>2. RowsHere \/ RowsAside
    BY <1>1, <2>1 DEF IInv, Kept, ImportKept, BeforeMove, AfterMove, UndoDbStep, ImportStep
  <2>3. ImagesLive \/ ImagesAway
    BY <1>1 DEF IInv, Kept, ImportKept
  <2>. QED
    BY <2>2, <2>3, MoreRows, MoreImages DEF RowsHere, RowsAside, ImagesLive, ImagesAway, OldDataKept
<1>2. CASE owner = "switch"
  <2>1. sw.pc \in SwitchStep \ {"idle", "wait"}
    BY <1>2 DEF IInv, TypeOK, ProgramType, Switch, Control
  <2>2. RowsIn(manifest) /\ ImagesIn(manifest)
    BY <1>2, <2>1 DEF IInv, Kept, Control, SwitchKept, SwitchStep
  <2>. QED
    BY <2>2, MoreRows, MoreImages DEF RowsIn, ImagesIn, OldDataKept, Live, ImagesHere
<1>. QED
  BY <1>1, <1>2 DEF IInv, TypeOK, ProgramType

-----------------------------------------------------------------------------
(***************************************************************************)
(* A step of a switch goes on to another step, or is the last.             *)
(***************************************************************************)
LEMMA SwitchHolds == Control /\ sw.pc \notin {"idle", "wait"} => owner = "switch"
BY DEF Control

LEMMA SwitchGoesOn ==
    ASSUME IInv, owner = "switch", Underway, SwitchSteady, NEW step, SwitchTo(step),
           step \in SwitchStep \ {"idle", "wait"}, UNCHANGED imp,
           step \in {"copy", "point", "clean", "reopen"} => manifest' = sw.from,
           step \in {"open", "rebase", "removeOld"} => manifest' = sw.to,
           step = "unpoint" => manifest' \in {sw.from, sw.to},
           pool' \in {pool, "open", "closed"}, SwitchKept'
    PROVE  Control' /\ Kept'
<1>1. sw'.pc = step /\ sw'.from = sw.from /\ sw'.to = sw.to
  BY SwitchValues DEF IInv, TypeOK, ProgramType, SwitchTo
<1>2. imp.pc \in {"idle", "wait"} /\ sw.from # sw.to /\ report = "running"
  BY DEF IInv, Control, Underway
<1>3. Control'
  BY <1>1, <1>2 DEF IInv, Control, Underway, BeforeChange, BeforeMove, AfterChange, SwitchStep
<1>4. ImportKept' /\ IdleKept'
  BY <1>2 DEF ImportKept, IdleKept, Underway
<1>. QED
  BY <1>3, <1>4 DEF Kept

LEMMA SwitchEndKept ==
    ASSUME IInv, owner = "switch", NEW how \in {"ok", "err"}, SwitchEnds(how),
           imp'.pc = imp.pc, imp'.changed = imp.changed, pool' \in {pool, "open"}, how = "err" /\ ~ stale' => OldDataKept'
    PROVE  Control' /\ Kept'
<1>1. imp.pc \in {"idle", "wait"} /\ ~ (imp.pc = "wait" /\ imp.changed)
  BY DEF IInv, Control
<1>2. Control'
  BY <1>1, NoneValues
     DEF IInv, Control, SwitchEnds, BeforeChange, BeforeMove, AfterChange
<1>3. ImportKept' /\ SwitchKept' /\ IdleKept'
  BY DEF ImportKept, SwitchKept, IdleKept, SwitchEnds
<1>. QED
  BY <1>2, <1>3 DEF Kept

(* The old data is where the manifest points.                              *)
LEMMA KeptHere ==
    ASSUME Live' = db'[manifest'].live, before' = before,
           before.rows \subseteq RowsOf(db'[manifest'].live),
           before.images \subseteq UNION images'[manifest'].live
    PROVE  OldDataKept'
BY MoreRows, MoreImages DEF OldDataKept, ImagesHere

(* One lemma per action of a switch.                                       *)
LEMMA CopyKept == IInv /\ Copy => Control' /\ Kept'
<1> SUFFICES ASSUME IInv, Copy PROVE Control' /\ Kept'
  OBVIOUS
<1>1. /\ sw.pc = "copy" /\ owner = "switch" /\ SwitchSteady /\ Underway /\ UNCHANGED <<imp, manifest>>
      /\ pool' = "closed"
      /\ sw.from \in Dirs /\ sw.to \in Dirs /\ sw.from # sw.to /\ manifest = sw.from
  BY SwitchHolds, SwitchTypes DEF IInv, TypeOK, ProgramType, Control, Copy, SwitchAt
<1>2. ~ stale => RowsIn(sw.from) /\ ImagesIn(sw.from)
  BY <1>1 DEF IInv, Kept, SwitchKept
<1>3. CASE /\ SwitchTo("point") /\ db' = Put(db, sw.to, db[sw.from])
           /\ images' = PutLive(images, sw.to, images[sw.from].live)
  <2>1. sw'.pc = "point" /\ sw'.from = sw.from /\ sw'.to = sw.to
    BY <1>3, SwitchValues DEF IInv, TypeOK, ProgramType, SwitchTo
  <2>2. /\ db'[sw.from] = db[sw.from] /\ db'[sw.to] = db[sw.from]
        /\ images'[sw.from].live = images[sw.from].live
        /\ images'[sw.to].live = images[sw.from].live
    BY <1>1, <1>3, DbValues, ImageValues DEF IInv, TypeOK, DiskType
  <2>3. SwitchKept'
    BY <1>1, <1>2, <2>1, <2>2 DEF SwitchKept, RowsIn, ImagesIn, SwitchSteady
  <2>. QED
    BY <1>1, <1>3, <2>3, SwitchGoesOn DEF SwitchStep
<1>4. CASE SwitchTo("unpoint") /\ UNCHANGED images /\ \E part : db' = Put(db, sw.to, part)
  <2>1. sw'.pc = "unpoint" /\ sw'.from = sw.from /\ sw'.to = sw.to
    BY <1>4, SwitchValues DEF IInv, TypeOK, ProgramType, SwitchTo
  <2>2. db'[sw.from] = db[sw.from]
    BY <1>1, <1>4, DbValues DEF IInv, TypeOK, DiskType
  <2>3. SwitchKept'
    BY <1>1, <1>2, <1>4, <2>1, <2>2 DEF SwitchKept, RowsIn, ImagesIn, SwitchSteady
  <2>. QED
    BY <1>1, <1>4, <2>3, SwitchGoesOn DEF SwitchStep
<1>. QED
  BY <1>3, <1>4 DEF Copy

LEMMA PointKept == IInv /\ Point => Control' /\ Kept'
<1> SUFFICES ASSUME IInv, Point PROVE Control' /\ Kept'
  OBVIOUS
<1>1. /\ sw.pc = "point" /\ owner = "switch" /\ SwitchSteady /\ Underway /\ UNCHANGED <<imp, db, images, pool>>
      /\ manifest = sw.from /\ sw.from # sw.to
  BY SwitchHolds DEF IInv, Control, Point, SwitchAt
<1>2. ~ stale => /\ RowsIn(sw.from) /\ ImagesIn(sw.from)
                 /\ RowsIn(sw.to) /\ ImagesIn(sw.to)
  BY <1>1 DEF IInv, Kept, SwitchKept
<1>3. CASE SwitchTo("open") /\ manifest' = sw.to
  <2>1. sw'.pc = "open" /\ sw'.from = sw.from /\ sw'.to = sw.to
    BY <1>3, SwitchValues DEF IInv, TypeOK, ProgramType, SwitchTo
  <2>2. SwitchKept'
    BY <1>1, <1>2, <2>1 DEF SwitchKept, RowsIn, ImagesIn, SwitchSteady
  <2>. QED
    BY <1>1, <1>3, <2>2, SwitchGoesOn DEF SwitchStep
<1>4. CASE SwitchTo("unpoint") /\ UNCHANGED manifest
  <2>1. sw'.pc = "unpoint" /\ sw'.from = sw.from /\ sw'.to = sw.to
    BY <1>4, SwitchValues DEF IInv, TypeOK, ProgramType, SwitchTo
  <2>2. SwitchKept'
    BY <1>1, <1>2, <1>4, <2>1 DEF SwitchKept, RowsIn, ImagesIn, SwitchSteady
  <2>. QED
    BY <1>1, <1>4, <2>2, SwitchGoesOn DEF SwitchStep
<1>. QED
  BY <1>3, <1>4 DEF Point

LEMMA OpenThereKept == IInv /\ OpenThere => Control' /\ Kept'
<1> SUFFICES ASSUME IInv, OpenThere PROVE Control' /\ Kept'
  OBVIOUS
<1>1. /\ sw.pc = "open" /\ owner = "switch" /\ SwitchSteady /\ Underway
      /\ UNCHANGED <<imp, images, manifest>> /\ pool' \in {pool, "open"} /\ manifest = sw.to /\ sw.from # sw.to
      /\ sw.from \in Dirs /\ sw.to \in Dirs
  BY SwitchHolds, SwitchTypes DEF IInv, TypeOK, ProgramType, Control, OpenThere, SwitchAt
<1>2. ~ stale => /\ RowsIn(sw.from) /\ ImagesIn(sw.from)
                 /\ RowsIn(sw.to) /\ ImagesIn(sw.to)
  BY <1>1 DEF IInv, Kept, SwitchKept
<1>3. CASE SwitchTo("rebase") /\ OpenDb(db, manifest)
  <2>1. sw'.pc = "rebase" /\ sw'.from = sw.from /\ sw'.to = sw.to
    BY <1>3, SwitchValues DEF IInv, TypeOK, ProgramType, SwitchTo
  <2>2. RowsOf(db[sw.to].live) = RowsOf(db'[sw.to].live)
    BY <1>1, <1>3, OpenRows DEF IInv, TypeOK, DiskType
  <2>3. SwitchKept'
    BY <1>1, <1>2, <2>1, <2>2 DEF SwitchKept, RowsIn, ImagesIn, SwitchSteady
  <2>. QED
    BY <1>1, <1>3, <2>3, SwitchGoesOn DEF SwitchStep
<1>4. CASE SwitchTo("unpoint") /\ UNCHANGED db
  <2>1. sw'.pc = "unpoint" /\ sw'.from = sw.from /\ sw'.to = sw.to
    BY <1>4, SwitchValues DEF IInv, TypeOK, ProgramType, SwitchTo
  <2>2. SwitchKept'
    BY <1>1, <1>2, <1>4, <2>1 DEF SwitchKept, RowsIn, ImagesIn, SwitchSteady
  <2>. QED
    BY <1>1, <1>4, <2>2, SwitchGoesOn DEF SwitchStep
<1>. QED
  BY <1>3, <1>4 DEF OpenThere

LEMMA UnpointKept == IInv /\ Unpoint => Control' /\ Kept'
<1> SUFFICES ASSUME IInv, Unpoint PROVE Control' /\ Kept'
  OBVIOUS
<1>1. /\ sw.pc = "unpoint" /\ owner = "switch" /\ SwitchSteady /\ UNCHANGED <<imp, db, images, pool>>
      /\ manifest \in {sw.from, sw.to} /\ sw.from # sw.to
  BY SwitchHolds DEF IInv, Control, Unpoint, SwitchAt
<1>2. ~ stale => /\ RowsIn(sw.from) /\ ImagesIn(sw.from)
                 /\ manifest = sw.to => RowsIn(sw.to) /\ ImagesIn(sw.to)
  BY <1>1 DEF IInv, Kept, SwitchKept
<1>3. CASE Underway /\ SwitchTo("clean") /\ manifest' = sw.from
  <2>1. sw'.pc = "clean" /\ sw'.from = sw.from /\ sw'.to = sw.to
    BY <1>3, SwitchValues DEF IInv, TypeOK, ProgramType, SwitchTo
  <2>2. SwitchKept'
    BY <1>1, <1>2, <2>1 DEF SwitchKept, RowsIn, ImagesIn, SwitchSteady
  <2>. QED
    BY <1>1, <1>3, <2>2, SwitchGoesOn DEF SwitchStep
<1>4. CASE SwitchEnds("err") /\ UNCHANGED manifest
  <2>1. ~ stale' => OldDataKept'
    BY <1>1, <1>2, <1>4, KeptHere DEF RowsIn, ImagesIn, SwitchSteady, Live
  <2>. QED
    BY <1>1, <1>4, <2>1, SwitchEndKept
<1>. QED
  BY <1>3, <1>4 DEF Unpoint

LEMMA CleanKept == IInv /\ Clean => Control' /\ Kept'
<1> SUFFICES ASSUME IInv, Clean PROVE Control' /\ Kept'
  OBVIOUS
<1>1. /\ sw.pc = "clean" /\ owner = "switch" /\ SwitchSteady /\ Underway /\ SwitchTo("reopen")
      /\ UNCHANGED <<imp, manifest, pool>> /\ manifest = sw.from /\ sw.from # sw.to
      /\ sw.from \in Dirs /\ sw.to \in Dirs
  BY SwitchHolds, SwitchTypes DEF IInv, TypeOK, ProgramType, Control, Clean, SwitchAt
<1>2. ~ stale => RowsIn(sw.from) /\ ImagesIn(sw.from)
  BY <1>1 DEF IInv, Kept, SwitchKept
<1>3. sw'.pc = "reopen" /\ sw'.from = sw.from
  BY <1>1, SwitchValues DEF IInv, TypeOK, ProgramType, SwitchTo
<1>4. db'[sw.from] = db[sw.from] /\ images'[sw.from].live = images[sw.from].live
  BY <1>1, DbValues, ImageValues DEF IInv, TypeOK, DiskType, Clean
<1>5. SwitchKept'
  BY <1>1, <1>2, <1>3, <1>4 DEF SwitchKept, RowsIn, ImagesIn, SwitchSteady
<1>. QED
  BY <1>1, <1>5, SwitchGoesOn DEF SwitchStep

LEMMA OpenBackKept == IInv /\ OpenBack => Control' /\ Kept'
<1> SUFFICES ASSUME IInv, OpenBack PROVE Control' /\ Kept'
  OBVIOUS
<1>1. /\ sw.pc = "reopen" /\ owner = "switch" /\ SwitchSteady /\ SwitchEnds("err")
      /\ UNCHANGED <<imp, manifest, images>> /\ pool' \in {pool, "open"} /\ manifest = sw.from
  BY SwitchHolds DEF IInv, Control, OpenBack, SwitchAt
<1>2. ~ stale => RowsIn(manifest) /\ ImagesIn(manifest)
  BY <1>1 DEF IInv, Kept, SwitchKept
<1>3. RowsOf(db[manifest].live) = RowsOf(db'[manifest].live)
  BY OpenRows DEF IInv, TypeOK, DiskType, OpenBack
<1>4. ~ stale' => OldDataKept'
  BY <1>1, <1>2, <1>3, KeptHere DEF RowsIn, ImagesIn, SwitchSteady, Live
<1>. QED
  BY <1>1, <1>4, SwitchEndKept

LEMMA RebaseKept == IInv /\ Rebase => Control' /\ Kept'
<1> SUFFICES ASSUME IInv, Rebase PROVE Control' /\ Kept'
  OBVIOUS
<1>1. /\ sw.pc = "rebase" /\ owner = "switch" /\ SwitchSteady
      /\ UNCHANGED <<imp, manifest, images, db, pool>> /\ manifest = sw.to
  BY SwitchHolds DEF IInv, Control, Rebase, SwitchAt
<1>2. ~ stale => RowsIn(sw.to) /\ ImagesIn(sw.to)
  BY <1>1 DEF IInv, Kept, SwitchKept
<1>3. CASE Underway /\ SwitchTo("removeOld")
  <2>1. sw'.pc = "removeOld" /\ sw'.from = sw.from /\ sw'.to = sw.to
    BY <1>3, SwitchValues DEF IInv, TypeOK, ProgramType, SwitchTo
  <2>2. SwitchKept'
    BY <1>1, <1>2, <2>1 DEF SwitchKept, RowsIn, ImagesIn, SwitchSteady
  <2>. QED
    BY <1>1, <1>3, <2>2, SwitchGoesOn DEF SwitchStep
<1>4. CASE SwitchEnds("err")
  <2>1. ~ stale' => OldDataKept'
    BY <1>1, <1>2, KeptHere DEF RowsIn, ImagesIn, SwitchSteady, Live
  <2>. QED
    BY <1>1, <1>4, <2>1, SwitchEndKept
<1>. QED
  BY <1>3, <1>4 DEF Rebase

LEMMA RemoveOldKept == IInv /\ RemoveOld => Control' /\ Kept'
<1> SUFFICES ASSUME IInv, RemoveOld PROVE Control' /\ Kept'
  OBVIOUS
<1>1. sw.pc = "removeOld" /\ owner = "switch" /\ SwitchEnds("ok") /\ UNCHANGED pool
  BY SwitchHolds DEF IInv, Control, RemoveOld, SwitchAt
<1>2. imp'.pc = imp.pc /\ imp'.changed = imp.changed
  BY ImportValues DEF IInv, TypeOK, ProgramType, RemoveOld
<1>. QED
  BY <1>1, <1>2, SwitchEndKept

-----------------------------------------------------------------------------
(***************************************************************************)
(* Beginnings, captures, backups, deaths and starts.                       *)
(***************************************************************************)
LEMMA ImportBeginKept == IInv /\ ImportBegin => Control' /\ Kept'
<1> SUFFICES ASSUME IInv, ImportBegin PROVE Control' /\ Kept'
  OBVIOUS
<1>1. /\ imp.pc = "idle"
      /\ pool # "down" /\ UNCHANGED <<pool, db, images, manifest, sw, owner, report, before, stale>>
  BY DEF ImportBegin, ImportAt, diskVars, ghosts
<1>2. imp'.pc = "wait" /\ ~ imp'.changed
  BY NoneValues, NoneTypes DEF ImportBegin, Import
<1>3. Control'
  BY <1>1, <1>2 DEF IInv, Control, BeforeChange, BeforeMove, AfterChange
<1>4. ImportKept'
  BY <1>1 DEF IInv, Control, ImportKept
<1>5. SwitchKept' /\ IdleKept'
  BY <1>1 DEF IInv, Kept, SwitchKept, IdleKept, OldDataKept, RowsIn, ImagesIn, Live, Previous, ImagesHere
<1>. QED
  BY <1>3, <1>4, <1>5 DEF Kept

LEMMA ImportLockKept == IInv /\ ImportLock => Control' /\ Kept'
<1> SUFFICES ASSUME IInv, ImportLock PROVE Control' /\ Kept'
  OBVIOUS
<1>1. /\ imp.pc = "wait" /\ owner = "none" /\ owner' = "import" /\ report' = "running"
      /\ UNCHANGED <<pool, db, images, manifest, sw>>
  BY DEF ImportLock, ImportAt, diskVars
<1>2. imp'.pc = "stage" /\ imp'.changed = imp.changed
  BY ImportValues DEF IInv, TypeOK, ProgramType, ImportLock, ImportTo
<1>3. before'.rows = RowsOf(Live) /\ before'.images = UNION ImagesHere.live
  BY DEF ImportLock
<1>4. Control'
  BY <1>1, <1>2 DEF IInv, Control, BeforeChange, BeforeMove, AfterChange
<1>5. ImportKept'
  BY <1>1, <1>2, <1>3
     DEF IInv, Control, ImportKept, RowsHere, RowsAside, ImagesLive, ImagesAway, BeforeMove,
         BeforeChange, AfterChange, AfterMove, UndoDbStep, Live, ImagesHere
<1>6. SwitchKept' /\ IdleKept'
  BY <1>1 DEF SwitchKept, IdleKept
<1>. QED
  BY <1>4, <1>5, <1>6 DEF Kept

LEMMA SwitchBeginKept == IInv /\ SwitchBegin => Control' /\ Kept'
<1> SUFFICES ASSUME IInv, SwitchBegin PROVE Control' /\ Kept'
  OBVIOUS
<1>1. /\ sw.pc = "idle" /\ sw'.pc = "wait" /\ sw'.from = manifest /\ sw'.to # manifest
      /\ pool # "down" /\ UNCHANGED <<pool, db, images, manifest, imp, owner, report, before, stale>>
  BY DEF SwitchBegin, SwitchAt, diskVars, ghosts
<1>2. Control'
  BY <1>1 DEF IInv, Control, Previous
<1>3. SwitchKept'
  BY <1>1 DEF IInv, Control, SwitchKept
<1>4. ImportKept' /\ IdleKept'
  BY <1>1 DEF IInv, Kept, ImportKept, IdleKept, OldDataKept, RowsHere, RowsAside, ImagesLive,
     ImagesAway, Live, Previous, ImagesHere
<1>. QED
  BY <1>2, <1>3, <1>4 DEF Kept

LEMMA SwitchLockKept == IInv /\ SwitchLock => Control' /\ Kept'
<1> SUFFICES ASSUME IInv, SwitchLock PROVE Control' /\ Kept'
  OBVIOUS
<1>1. /\ sw.pc = "wait" /\ owner = "none" /\ owner' = "switch" /\ report' = "running"
      /\ UNCHANGED <<pool, db, images, manifest, imp>> /\ manifest = sw.from
  BY DEF IInv, Control, SwitchLock, SwitchAt, diskVars
<1>2. sw'.pc = "copy" /\ sw'.from = sw.from /\ sw'.to = sw.to
  BY SwitchValues DEF IInv, TypeOK, ProgramType, SwitchLock, SwitchTo
<1>3. before'.rows = RowsOf(Live) /\ before'.images = UNION ImagesHere.live
  BY DEF SwitchLock
<1>4. Control'
  BY <1>1, <1>2 DEF IInv, Control, Previous
<1>5. SwitchKept'
  BY <1>1, <1>2, <1>3 DEF SwitchKept, RowsIn, ImagesIn, Live, ImagesHere
<1>6. ImportKept' /\ IdleKept'
  BY <1>1 DEF ImportKept, IdleKept
<1>. QED
  BY <1>4, <1>5, <1>6 DEF Kept

(* A capture adds to the live database and the live images.                *)
LEMMA CaptureAdds ==
    IInv /\ Capture => /\ RowsOf(Live) \subseteq RowsOf(Live') /\ Previous' = Previous
                       /\ UNION ImagesHere.live \subseteq UNION ImagesHere'.live
                       /\ ImagesHere'.previous = ImagesHere.previous
<1> SUFFICES ASSUME IInv, Capture
             PROVE  /\ RowsOf(Live) \subseteq RowsOf(Live') /\ Previous' = Previous
                    /\ UNION ImagesHere.live \subseteq UNION ImagesHere'.live
                    /\ ImagesHere'.previous = ImagesHere.previous
  OBVIOUS
<1>1. manifest \in Dirs /\ imageRoot \in Dirs /\ manifest' = manifest /\ db \in DbDisk /\ images \in ImageDisk
  BY DEF IInv, TypeOK, DiskType, ProgramType, Capture
<1>2. PICK d \in Live :
        db' = PutLive(db, manifest, {[d EXCEPT !.rows = @ \cup {captured'}, !.counter = @ + 1]})
  BY DEF Capture
<1>3. Live' = {[d EXCEPT !.rows = @ \cup {captured'}, !.counter = @ + 1]} /\ Previous' = Previous
  BY <1>1, <1>2, DbValues DEF Live, Previous
<1>4. Live = {d} /\ d \in Db
  BY <1>1, DbGet, Places DEF Live
<1>5. [d EXCEPT !.rows = @ \cup {captured'}, !.counter = @ + 1].rows = d.rows \cup {captured'}
  BY <1>4 DEF Db
<1>6. RowsOf(Live) = d.rows /\ RowsOf(Live') = d.rows \cup {captured'}
  BY <1>3, <1>4, <1>5 DEF RowsOf
<1>7. /\ ImagesHere'.live = (IF manifest = imageRoot
                             THEN {(UNION images[imageRoot].live) \cup {captured'}} ELSE ImagesHere.live)
      /\ ImagesHere'.previous = ImagesHere.previous
  BY <1>1, ImageValues DEF ImagesHere, Capture
<1>. QED
  BY <1>3, <1>6, <1>7 DEF ImagesHere

LEMMA CaptureKept == IInv /\ Capture => Control' /\ Kept'
<1> SUFFICES ASSUME IInv, Capture PROVE Control' /\ Kept'
  OBVIOUS
<1>1. owner = "none" /\ UNCHANGED <<pool, imp, sw, owner, report, before, stale, manifest>>
  BY DEF Capture, progVars
<1>2. Control'
  BY <1>1, CaptureAdds DEF IInv, Control
<1>3. ImportKept' /\ SwitchKept'
  BY <1>1 DEF ImportKept, SwitchKept
<1>4. IdleKept'
  <2>1. /\ RowsOf(Live \cup Previous) \subseteq RowsOf(Live' \cup Previous')
        /\ UNION (ImagesHere.live \cup ImagesHere.previous)
             \subseteq UNION (ImagesHere'.live \cup ImagesHere'.previous)
    BY CaptureAdds, MoreParts, Zenon
  <2>. QED
    BY <1>1, <2>1 DEF IInv, Kept, IdleKept, OldDataKept
<1>. QED
  BY <1>2, <1>3, <1>4 DEF Kept

LEMMA ExportKept == IInv /\ Export => Control' /\ Kept'
<1> SUFFICES ASSUME IInv, Export PROVE Control' /\ Kept'
  OBVIOUS
<1>1. owner = "none" /\ UNCHANGED <<pool, imp, sw, owner, report, before, stale, manifest, db, images>>
  BY DEF Export, progVars, ghosts
<1>2. Control'
  BY <1>1 DEF IInv, Control, Previous
<1>3. ImportKept' /\ SwitchKept'
  BY <1>1 DEF ImportKept, SwitchKept
<1>4. IdleKept'
  BY <1>1 DEF IInv, Kept, IdleKept, OldDataKept, Live, Previous, ImagesHere
<1>. QED
  BY <1>2, <1>3, <1>4 DEF Kept

LEMMA CrashKept == IInv /\ Crash => Control' /\ Kept'
<1> SUFFICES ASSUME IInv, Crash PROVE Control' /\ Kept'
  OBVIOUS
<1>1. /\ owner' = "none" /\ imp' = NoImport /\ sw' = NoSwitch
      /\ report' = (IF owner = "none" THEN report ELSE "cut")
      /\ UNCHANGED <<before, stale, db, images, manifest>>
  BY DEF Crash, diskVars
<1>2. Control'
  BY <1>1, NoneValues DEF IInv, Control, BeforeChange, BeforeMove, AfterChange
<1>3. ImportKept' /\ SwitchKept'
  BY <1>1 DEF ImportKept, SwitchKept
<1>4. Live' = Live /\ Previous' = Previous /\ ImagesHere' = ImagesHere
  BY <1>1, SameDb, SameImages
<1>5. IdleKept'
  BY <1>1, <1>4, RunningKept DEF IInv, Kept, Control, IdleKept, OldDataKept
<1>. QED
  BY <1>2, <1>3, <1>5 DEF Kept

LEMMA StartKept == IInv /\ Start => Control' /\ Kept'
<1> SUFFICES ASSUME IInv, Start PROVE Control' /\ Kept'
  OBVIOUS
<1>1. pool = "down" /\ pool' = "open" /\ UNCHANGED <<imp, sw, owner, report, before, stale, manifest, images>> /\ OpenDb(db, manifest)
  BY DEF Start, ghosts
<1>2. RowsOf(Live) = RowsOf(Live') /\ Previous' = Previous
  BY <1>1, OpenRows DEF IInv, TypeOK, DiskType, Live, Previous
<1>3. Control'
  BY <1>1, <1>2 DEF IInv, Control
<1>4. ImportKept'
  BY <1>1 DEF IInv, Control, ImportKept
<1>5. SwitchKept'
  <2>1. \A e \in Dirs : RowsOf(db[e].live) = RowsOf(db'[e].live)
    BY <1>1, OpenRows DEF IInv, TypeOK, DiskType
  <2>2. sw.from \in Dirs /\ sw.to \in Dirs
    BY SwitchTypes DEF IInv, TypeOK, ProgramType
  <2>. QED
    BY <1>1, <2>1, <2>2 DEF IInv, Kept, SwitchKept, RowsIn, ImagesIn
<1>6. IdleKept'
  BY <1>1, <1>2, MoreParts DEF IInv, Kept, IdleKept, OldDataKept, ImagesHere
<1>. QED
  BY <1>3, <1>4, <1>5, <1>6 DEF Kept

-----------------------------------------------------------------------------
(***************************************************************************)
(* The theorems.                                                           *)
(***************************************************************************)
LEMMA InitType == Init => TypeOK
<1> SUFFICES ASSUME Init PROVE TypeOK
  OBVIOUS
<1>1. Fresh(1) \in Db /\ {Fresh(1)} \in Place(Db)
  BY FreshType, Places DEF Epoch
<1>2. DiskType
  BY <1>1, Places DEF Init, DiskType, DbDisk, DbPlace, ImageDisk, ImagePlace, NoDbs, NoImages
<1>3. ProgramType
  BY NoneTypes DEF Init, ProgramType
<1>4. CountType
  BY DEF Init, CountType, Epoch
<1>5. HistoryType
  <2>1. before \in Contents
    BY DEF Init, Contents
  <2>. QED
    BY <2>1 DEF Init, HistoryType
<1>. QED
  BY <1>2, <1>3, <1>4, <1>5 DEF TypeOK

LEMMA NextType == TypeOK /\ [Next]_vars => TypeOK'
<1> SUFFICES ASSUME TypeOK, [Next]_vars PROVE TypeOK'
  OBVIOUS
<1>1. CASE ImportNext
  BY <1>1, ImportBeginType, ImportLockType, StageDatabaseType, ReadCounterType, RemovePreviousType,
     MoveAsideType, MoveInType, OpenNewType, ResetType, DropOldImagesType, ImagesAsideType,
     InstallImagesType, ReplaceSettingsType, CommitType, UndoImagesType, RestoreImagesType,
     UndoDbType, RestoreDbType, ReopenType, GiveUpType
     DEF ImportNext
<1>2. CASE SwitchNext
  BY <1>2, SwitchBeginType, SwitchLockType, CopyType, PointType, OpenThereType, UnpointType,
     CleanType, OpenBackType, RebaseType, RemoveOldType
     DEF SwitchNext
<1>3. CASE Capture \/ Export \/ Crash \/ Start
  BY <1>3, CaptureType, ExportType, CrashType, StartType
<1>4. CASE UNCHANGED vars
  BY <1>4 DEF vars, diskVars, progVars, countVars, ghosts, TypeOK, DiskType, ProgramType, CountType,
     HistoryType
<1>. QED
  BY <1>1, <1>2, <1>3, <1>4 DEF Next

LEMMA NextKept == IInv /\ [Next]_vars => Control' /\ Kept'
<1> SUFFICES ASSUME IInv, [Next]_vars PROVE Control' /\ Kept'
  OBVIOUS
<1>1. CASE ImportNext
  BY <1>1, ImportBeginKept, ImportLockKept, StageDatabaseKept, ReadCounterKept, RemovePreviousKept,
     MoveAsideKept, MoveInKept, OpenNewKept, ResetKept, DropOldImagesKept, ImagesAsideKept,
     InstallImagesKept, ReplaceSettingsKept, CommitKept, UndoImagesKept, RestoreImagesKept,
     UndoDbKept, RestoreDbKept, ReopenKept, GiveUpKept
     DEF ImportNext
<1>2. CASE SwitchNext
  BY <1>2, SwitchBeginKept, SwitchLockKept, CopyKept, PointKept, OpenThereKept, UnpointKept,
     CleanKept, OpenBackKept, RebaseKept, RemoveOldKept
     DEF SwitchNext
<1>3. CASE Capture \/ Export \/ Crash \/ Start
  BY <1>3, CaptureKept, ExportKept, CrashKept, StartKept
<1>4. CASE UNCHANGED vars
  BY <1>4
     DEF vars, diskVars, progVars, countVars, ghosts, IInv, Control, Kept, ImportKept, SwitchKept,
         IdleKept, OldDataKept, RowsHere, RowsAside, RowsIn, ImagesLive, ImagesAway, ImagesIn,
         Live, Previous, ImagesHere
<1>. QED
  BY <1>1, <1>2, <1>3, <1>4 DEF Next

LEMMA InitKept == Init => IInv
<1> SUFFICES ASSUME Init PROVE IInv
  OBVIOUS
<1>1. Control /\ Kept
  BY NoneValues
     DEF Init, Control, Kept, ImportKept, SwitchKept, IdleKept, BeforeChange, BeforeMove, AfterChange
<1>. QED
  BY <1>1, InitType DEF IInv

LEMMA KeptMeans == IInv => OldDataKept
<1> SUFFICES ASSUME IInv PROVE OldDataKept
  OBVIOUS
<1>1. CASE stale \/ report \notin {"running", "err", "cut"}
  BY <1>1 DEF OldDataKept
<1>2. CASE ~ stale /\ report = "running"
  BY <1>2, RunningKept DEF IInv, Control
<1>3. CASE ~ stale /\ report \in {"err", "cut"}
  BY <1>3 DEF IInv, Kept, IdleKept
<1>. QED
  BY <1>1, <1>2, <1>3
-----------------------------------------------------------------------------
(***************************************************************************)
(* The new data, and what pairs rows with their images and their numbers.  *)
(*                                                                         *)
(* Kept says where the old data is.  What an operation promises at its end *)
(* also needs where the new data is (Installed), that a rollback has a     *)
(* mishap behind it and leaves the settings (Undoing), that rows and       *)
(* images belong together on both sides (Matched), and that the counter on *)
(* both sides is past every number given out, under any epoch (Counted):   *)
(* the counter of the old database is carried into one of another epoch,   *)
(* and from there back.                                                    *)
(***************************************************************************)
UndoStep == UndoDbStep \cup {"undoImages", "restoreImages", "reopen"}
NewIn    == AfterMove \ {"moveIn"}

Installed ==
    /\ imp.staged \in {{}, imp.backup.images}
    /\ imp.pc \in {"counter", "removePrevious", "moveAside", "moveIn"} => Staged = imp.backup.db
    /\ imp.pc \in NewIn => RowsOf(Live) = RowsOf(imp.backup.db)
    /\ imp.pc \in {"settings", "commit"} /\ imp.backup.images # {}
         => ImagesHere.live = imp.backup.images
    /\ imp.pc = "commit" /\ imp.withSettings => settings = "backup"
    /\ sw.pc \in {"point", "open", "unpoint", "clean", "reopen"} => pool = "closed"
    /\ sw.pc \in {"rebase", "removeOld"} => pool = "open"
    /\ sw.pc = "removeOld" => imageRoot = sw.to
    /\ imp.pc = "installImages" => ImagesHere.live = {}

Undoing ==
    /\ owner # "none" /\ imp.pc # "commit" => settings = before.settings
    /\ imp.pc \in {"stage", "counter"} => pool = before.pool
    /\ imp.pc \in UndoStep \/ sw.pc \in {"unpoint", "clean", "reopen"} => trouble >= 1

UndoHalf == imp.pc \in {"undoImages", "restoreImages", "undoDb"} /\ Half
Matched ==
    /\ ~ behind => ~ stale
    /\ ~ apart =>
        /\ ~ stale
        /\ owner = "none" /\ ~ split => RowsOf(Live) \subseteq UNION ImagesHere.live
        /\ owner # "none" /\ ~ split => before.rows \subseteq before.images
        /\ UndoHalf => RowsOf(Live) = RowsOf(imp.backup.db)
        /\ (pool = "open" \/ imp.pc \notin {"idle", "wait", "stage", "counter"}) /\ sw.pc # "rebase"
             => imageRoot = manifest

Beyond(n) == \A e \in Epoch : n >= issued[e]
Past(S)   == \A d \in S : Beyond(d.counter)
Counted ==
    /\ epochs >= 2
    /\ epochs = 2 /\ ~ behind =>
        /\ owner = "none" => Past(Live)
        /\ imp.pc \in BeforeMove \cup (NewIn \ {"open", "reset"}) \cup {"reopen"} => Past(Live)
        /\ imp.pc \notin {"idle", "wait", "stage", "counter"} => Beyond(imp.counter)
        /\ imp.pc \in AfterMove \cup UndoDbStep \cup {"undoImages", "restoreImages"} => Past(Previous)
        /\ sw.pc \in {"copy", "point", "open", "unpoint", "clean", "reopen"}
             => Past(db[sw.from].live)
        /\ sw.pc \in {"point", "open", "rebase", "removeOld"} => Past(db[sw.to].live)
        /\ (sw.pc = "unpoint" /\ manifest = sw.to) => Past(db[sw.to].live)

Rest == Installed /\ Undoing /\ Matched /\ Counted

(* The database opens as it is, unless one is created.                     *)
LEMMA OpenSame ==
    \A f, d : OpenDb(f, d) /\ epochs \in Epoch =>
        /\ epochs' \in {epochs, epochs + 1}
        /\ epochs >= 2 /\ epochs' = 2 => epochs = 2 /\ db' = f
BY DEF OpenDb, Epoch

LowHere == Half /\ \E d \in Live : d.counter < imp.counter

(* Rows and images that may be left as they are belong together.           *)
LEMMA PairedHere ==
    ASSUME IInv, Rest, ~ apart, ~ SplitHere
    PROVE  RowsOf(Live) \subseteq UNION ImagesHere.live
<1>1. CASE owner = "none"
  BY <1>1 DEF IInv, Control, Rest, Matched, SplitHere
<1>2. CASE owner = "import"
  <2>1. ~ stale
    BY DEF Rest, Matched
  <2>2. imp.pc \in ImportStep \ {"idle", "wait"}
    BY <1>2 DEF IInv, TypeOK, ProgramType, Import, Control
  <2>3. CASE imp.pc \in BeforeMove \cup {"reopen"}
    <3>1. RowsHere /\ ImagesLive
      BY <1>2, <2>1, <2>3
         DEF IInv, Kept, Control, ImportKept, BeforeChange, BeforeMove, UndoDbStep
    <3>2. before.rows \subseteq before.images
      BY <1>2, <2>3 DEF Rest, Matched, SplitHere, BeforeMove
    <3>. QED
      BY <3>1, <3>2 DEF RowsHere, ImagesLive
  <2>4. CASE imp.pc \in {"moveIn", "restoreDb"}
    BY <1>2, <2>1, <2>4, NoRows DEF IInv, Kept, ImportKept
  <2>5. CASE imp.pc \in {"settings", "commit"}
    <3>1. RowsOf(Live) = RowsOf(imp.backup.db)
      BY <2>5 DEF Rest, Installed, NewIn, AfterMove
    <3>2. WholeBackup(imp.backup)
      BY <2>5 DEF SplitHere
    <3>3. CASE imp.backup.images # {}
      BY <2>5, <3>1, <3>2, <3>3 DEF Rest, Installed, WholeBackup
    <3>4. CASE imp.backup.images = {}
      BY <3>1, <3>2, <3>4 DEF WholeBackup
    <3>. QED
      BY <3>3, <3>4
  <2>6. CASE imp.pc = "undoDb"
    <3>1. Live = {}
      BY <2>6 DEF SplitHere, Half
    <3>. QED
      BY <3>1, NoRows
  <2>. QED
    BY <2>2, <2>3, <2>4, <2>5, <2>6 DEF SplitHere, Half, ImportStep, BeforeMove
<1>3. CASE owner = "switch"
  <2>1. before.rows \subseteq before.images /\ ~ stale
    BY <1>3 DEF IInv, Control, Rest, Matched, SplitHere
  <2>2. sw.pc \in SwitchStep \ {"idle", "wait"}
    BY <1>3 DEF IInv, TypeOK, ProgramType, Switch, Control
  <2>3. RowsIn(manifest) /\ ImagesIn(manifest)
    BY <1>3, <2>1, <2>2 DEF IInv, Kept, Control, SwitchKept, SwitchStep
  <2>. QED
    BY <2>1, <2>3 DEF RowsIn, ImagesIn, Live, ImagesHere
<1>. QED
  BY <1>1, <1>2, <1>3 DEF IInv, TypeOK, ProgramType

(* So does the counter that may be left.                                   *)
LEMMA PastHere ==
    ASSUME IInv, Rest, ~ behind, ~ LowHere, epochs = 2
    PROVE  Past(Live)
<1>1. CASE owner = "none"
  BY <1>1 DEF Rest, Counted
<1>2. CASE owner = "import"
  <2>1. ~ stale
    BY DEF Rest, Matched
  <2>2. imp.pc \in ImportStep \ {"idle", "wait"}
    BY <1>2 DEF IInv, TypeOK, ProgramType, Import, Control
  <2>3. CASE imp.pc \in {"moveIn", "restoreDb"} \/ Live = {}
    BY <1>2, <2>1, <2>3 DEF IInv, Kept, ImportKept, Past
  <2>4. CASE Half
    <3> SUFFICES ASSUME NEW d \in Live, NEW e \in Epoch PROVE d.counter >= issued[e]
      BY DEF Past, Beyond
    <3>1. d.counter \in Nat /\ imp.counter \in Nat /\ issued[e] \in Nat
      BY DbGet, DbFields, Places, ImportTypes
         DEF IInv, TypeOK, DiskType, ProgramType, HistoryType, Live
    <3>2. ~ (d.counter < imp.counter)
      BY <2>4 DEF LowHere
    <3>3. imp.counter >= issued[e]
      BY <2>4 DEF Rest, Counted, Half, Beyond
    <3>. QED
      BY <3>1, <3>2, <3>3
  <2>. QED
    BY <2>2, <2>3, <2>4 DEF Rest, Counted, Half, ImportStep, BeforeMove, NewIn, AfterMove
<1>3. CASE owner = "switch"
  <2>1. sw.pc \in SwitchStep \ {"idle", "wait"}
    BY <1>3 DEF IInv, TypeOK, ProgramType, Switch, Control
  <2>. QED
    BY <2>1 DEF IInv, Control, Rest, Counted, SwitchStep, Live
<1>. QED
  BY <1>1, <1>2, <1>3 DEF IInv, TypeOK, ProgramType

(* An operation ends: what it leaves is what lay there.                    *)
LEMMA EndRest ==
    ASSUME IInv, Rest, owner # "none", owner' = "none",
           imp' = NoImport \/ (imp.pc \in {"idle", "wait"} /\ imp' \in {imp, Unstaged(imp)}),
           sw' = NoSwitch \/ (sw.pc \in {"idle", "wait"} /\ sw' = sw),
           RowsOf(Live') = RowsOf(Live), UNION ImagesHere'.live = UNION ImagesHere.live,
           UNCHANGED <<issued, exports>>, apart => apart', ~ split' => ~ SplitHere,
           ~ behind' => ~ behind /\ ~ LowHere /\ ~ stale', ~ apart' => ~ stale',
           ~ apart' /\ pool' = "open" => imageRoot' = manifest',
           epochs' \in {epochs, epochs + 1}, epochs' = 2 => Live' = Live /\ epochs = 2
    PROVE  Rest'
<1>1. sw'.pc \in {"idle", "wait"} /\ imp'.pc \in {"idle", "wait"} /\ imp \in Import
  BY NoneValues, ImportValues DEF IInv, TypeOK, ProgramType
<1>2. imp'.staged \in {{}, imp'.backup.images}
  <2>1. CASE imp' = NoImport
    BY <2>1 DEF NoImport
  <2>2. CASE imp' \in {imp, Unstaged(imp)}
    BY <1>1, <2>2, ImportKeeps DEF Rest, Installed
  <2>. QED
    BY <2>1, <2>2
<1>3. Installed' /\ Undoing'
  BY <1>1, <1>2 DEF Installed, Undoing, NewIn, AfterMove, UndoStep, UndoDbStep
<1>4. Matched'
  BY <1>1, PairedHere DEF Rest, Matched, UndoHalf
<1>5. Counted'
  <2>1. epochs' >= 2
    BY DEF IInv, TypeOK, CountType, Epoch, Rest, Counted
  <2>2. epochs' = 2 /\ ~ behind' => Past(Live)'
    <3> SUFFICES ASSUME epochs' = 2, ~ behind' PROVE Past(Live)'
      OBVIOUS
    <3>1. Past(Live) /\ Live' = Live
      BY PastHere
    <3>. QED
      BY <3>1 DEF Past, Beyond
  <2>. QED
    BY <1>1, <2>1, <2>2 DEF Counted, BeforeMove, NewIn, AfterMove, UndoDbStep
<1>. QED
  BY <1>3, <1>4, <1>5 DEF Rest

(* An import goes on inside the swap.                                      *)
LEMMA SwapRest ==
    ASSUME IInv, Rest, imp.pc \notin {"idle", "wait", "stage", "counter", "commit"}, SwapSteady,
           imp'.pc \notin {"idle", "wait", "stage", "counter", "removePrevious"},
           trouble' \in {trouble, trouble + 1}, imp'.pc \in UndoStep => trouble' >= 1,
           imp'.backup = imp.backup, imp'.withSettings = imp.withSettings,
           imp'.counter = imp.counter, imp'.staged \in {imp.staged, {}},
           imp'.pc # "commit" => settings' = settings,
           imp'.pc \in {"moveAside", "moveIn"} => Staged' = imp.backup.db,
           imp'.pc \in NewIn => RowsOf(Live') = RowsOf(imp.backup.db),
           imp'.pc \in {"settings", "commit"} /\ imp.backup.images # {}
             => ImagesHere'.live = imp.backup.images,
           imp'.pc = "commit" /\ imp.withSettings => settings' = "backup",
           imp'.pc = "installImages" => ImagesHere'.live = {},
           ~ apart' /\ UndoHalf' => RowsOf(Live') = RowsOf(imp.backup.db),
           apart => apart', ~ apart' => stale' = stale, split' = split,
           behind => behind', ~ behind' => stale' = stale, epochs' \in {epochs, epochs + 1},
           epochs = 2 /\ epochs' = 2 /\ ~ behind' =>
             /\ imp'.pc \in {"moveAside", "reopen"} \cup (NewIn \ {"open", "reset"}) => Past(Live')
             /\ imp'.pc \in AfterMove \cup UndoDbStep \cup {"undoImages", "restoreImages"}
                  => Past(Previous')
    PROVE  Rest'
<1>1. owner = "import" /\ owner' = "import" /\ sw' = sw /\ sw.pc \in {"idle", "wait"}
  BY DEF IInv, Control, SwapSteady, ImportSteady, Underway
<1>2. UNCHANGED <<pool, imageRoot, manifest, before, issued, exports>>
  BY DEF SwapSteady, ImportSteady, Steady
<1>3. Installed'
  BY <1>1 DEF Rest, Installed, NewIn, AfterMove
<1>4. Undoing'
  BY <1>1, <1>2 DEF Rest, Undoing
<1>5. Matched'
  BY <1>1, <1>2 DEF Rest, Matched, UndoHalf
<1>6. Counted'
  <2>1. epochs' >= 2 /\ (epochs' = 2 => epochs = 2)
    BY DEF IInv, TypeOK, CountType, Epoch, Rest, Counted
  <2>2. Past(Live)' <=> Past(Live')
    BY <1>2 DEF Past, Beyond
  <2>3. Past(Previous)' <=> Past(Previous')
    BY <1>2 DEF Past, Beyond
  <2>4. Beyond(imp.counter)' <=> Beyond(imp.counter)
    BY <1>2 DEF Beyond
  <2>5. epochs = 2 /\ ~ behind => Beyond(imp.counter)
    BY DEF Rest, Counted
  <2>. QED
    BY <1>1, <2>1, <2>2, <2>3, <2>4, <2>5 DEF Counted, BeforeMove, NewIn, AfterMove, UndoDbStep
<1>. QED
  BY <1>3, <1>4, <1>5, <1>6 DEF Rest

LEMMA SwapFailsRest ==
    ASSUME IInv, Rest, imp.pc \in AfterMove \cup {"moveAside"}, imp.pc # "commit",
           SwapFails, SwapSteady, UNCHANGED <<stale, apart, split, behind>>
    PROVE  Rest'
<1>1. /\ imp'.pc = UndoFrom(imp.changed) /\ imp'.backup = imp.backup
      /\ imp'.withSettings = imp.withSettings /\ imp'.counter = imp.counter
      /\ imp'.staged = imp.staged
  BY ImportValues, ImportKeeps DEF IInv, TypeOK, ProgramType, SwapFails, ImportTo
<1>2. Live' = Live /\ Previous' = Previous
  BY SameDb DEF SwapFails, SwapSteady, ImportSteady
<1>3. imp'.pc \in {"undoImages", "undoDb", "reopen"}
  BY <1>1 DEF UndoFrom
<1>4. owner = "import"
  BY ImportHolds DEF IInv, AfterMove
<1>5. ~ stale => /\ imp'.pc = "reopen" => imp.pc = "moveAside"
                 /\ imp'.pc \in {"undoImages", "undoDb"} => imp.pc # "moveAside"
                 /\ imp.pc = "moveIn" => Live = {}
  <2> SUFFICES ASSUME ~ stale
               PROVE  /\ imp'.pc = "reopen" => imp.pc = "moveAside"
                      /\ imp'.pc \in {"undoImages", "undoDb"} => imp.pc # "moveAside"
                      /\ imp.pc = "moveIn" => Live = {}
    OBVIOUS
  <2>1. imp.pc # "moveAside" => Previous # {}
    BY <1>4 DEF IInv, Kept, ImportKept, RowsAside
  <2>2. imp.pc = "moveAside" => Previous = {} /\ ~ imp.changed
    BY DEF IInv, Control, BeforeChange, BeforeMove
  <2>3. imp.pc = "moveIn" => Live = {}
    BY <1>4 DEF IInv, Kept, ImportKept
  <2>. QED
    BY <1>1, <2>1, <2>2, <2>3 DEF UndoFrom
<1>6. trouble' = trouble + 1 /\ trouble' >= 1 /\ UNCHANGED <<settings, epochs, images, manifest>>
  BY DEF SwapFails, Fails, IInv, TypeOK, HistoryType, SwapSteady, ImportSteady
<1>7. ~ behind /\ epochs = 2 =>
        /\ imp'.pc = "reopen" => Past(Live')
        /\ imp'.pc \in {"undoImages", "undoDb"} => Past(Previous')
  BY <1>2, <1>5 DEF Rest, Matched, Counted, BeforeMove
<1>8. ~ apart' /\ UndoHalf' => RowsOf(Live') = RowsOf(imp.backup.db)
  <2> SUFFICES ASSUME ~ apart, UndoHalf' PROVE RowsOf(Live) = RowsOf(imp.backup.db)
    BY <1>2
  <2>1. ~ stale
    BY DEF Rest, Matched
  <2>2. imp'.pc \in {"undoImages", "undoDb"} /\ (imp'.pc = "undoDb" => Live # {})
    BY <1>2, <1>3 DEF UndoHalf, Half
  <2>3. imp.pc # "moveIn"
    <3>1. imp.pc = "moveIn" => imp'.pc = "undoDb"
      BY <1>1, <1>3, <2>2 DEF IInv, Control, UndoFrom, BeforeChange
    <3>. QED
      BY <1>5, <2>1, <2>2, <3>1
  <2>4. imp.pc \in NewIn
    BY <1>5, <2>1, <2>2, <2>3 DEF NewIn, AfterMove
  <2>. QED
    BY <2>4 DEF Rest, Installed
<1>. QED
  BY <1>1, <1>3, <1>6, <1>7, <1>8, SwapRest DEF AfterMove, NewIn, UndoDbStep, UndoStep

(* One lemma per action of an import.                                      *)
LEMMA RemovePreviousRest == IInv /\ Rest /\ RemovePrevious => Rest'
<1> SUFFICES ASSUME IInv, Rest, RemovePrevious PROVE Rest'
  OBVIOUS
<1>1. imp.pc = "removePrevious" /\ SwapSteady /\ imp \in Import
  BY DEF IInv, TypeOK, ProgramType, RemovePrevious, ImportAt
<1>2. CASE /\ Works /\ ImportTo("moveAside") /\ db' = PutPrevious(db, manifest, {})
           /\ UNCHANGED <<images, settings, epochs, stale, apart, split, behind>>
  <2>1. /\ imp'.pc = "moveAside" /\ imp'.backup = imp.backup /\ imp'.withSettings = imp.withSettings
        /\ imp'.counter = imp.counter /\ imp'.staged = imp.staged
    BY <1>1, <1>2, ImportValues, ImportKeeps DEF ImportTo
  <2>2. Live' = Live /\ Staged' = Staged
    BY <1>1, <1>2, DbValues
       DEF IInv, TypeOK, DiskType, SwapSteady, ImportSteady, Live, Staged
  <2>3. Staged = imp.backup.db
    BY <1>1 DEF Rest, Installed
  <2>4. epochs = 2 /\ ~ behind => Past(Live')
    BY <1>1, <2>2 DEF Rest, Counted, BeforeMove
  <2>. QED
    BY <1>1, <1>2, <2>1, <2>2, <2>3, <2>4, SwapRest
       DEF Works, AfterMove, NewIn, UndoDbStep, UndoStep, UndoHalf
<1>3. CASE SwapFails /\ apart' = TRUE /\ behind' = TRUE /\ split' = split
  <2>1. /\ imp'.pc = UndoFrom(imp.changed) /\ imp'.backup = imp.backup
        /\ imp'.withSettings = imp.withSettings
        /\ imp'.counter = imp.counter /\ imp'.staged = imp.staged
    BY <1>1, <1>3, ImportValues, ImportKeeps DEF SwapFails, ImportTo
  <2>2. imp'.pc \in {"undoImages", "undoDb", "reopen"}
    BY <2>1 DEF UndoFrom
  <2>3. trouble' = trouble + 1 /\ trouble' >= 1 /\ UNCHANGED <<settings, epochs>>
    BY <1>3 DEF SwapFails, Fails, IInv, TypeOK, HistoryType
  <2>. QED
    BY <1>1, <1>3, <2>1, <2>2, <2>3, SwapRest DEF AfterMove, NewIn, UndoDbStep, UndoStep, UndoHalf
<1>. QED
  BY <1>2, <1>3 DEF RemovePrevious

LEMMA MoveAsideRest == IInv /\ Rest /\ MoveAside => Rest'
<1> SUFFICES ASSUME IInv, Rest, MoveAside PROVE Rest'
  OBVIOUS
<1>1. /\ imp.pc = "moveAside" /\ SwapSteady /\ imp \in Import
      /\ UNCHANGED <<stale, apart, split, behind>>
  BY DEF IInv, TypeOK, ProgramType, MoveAside, ImportAt
<1>2. CASE SwapFails
  BY <1>1, <1>2, SwapFailsRest
<1>3. CASE /\ Works /\ ImportTo("moveIn") /\ db' = Aside(db, manifest)
           /\ UNCHANGED <<images, settings, epochs>>
  <2>1. /\ imp'.pc = "moveIn" /\ imp'.backup = imp.backup /\ imp'.withSettings = imp.withSettings
        /\ imp'.counter = imp.counter /\ imp'.staged = imp.staged
    BY <1>1, <1>3, ImportValues, ImportKeeps DEF ImportTo
  <2>2. Previous' = Live /\ Staged' = Staged
    BY <1>1, <1>3, DbMoved
       DEF IInv, TypeOK, DiskType, SwapSteady, ImportSteady, Live, Previous, Staged
  <2>3. Staged = imp.backup.db
    BY <1>1 DEF Rest, Installed
  <2>4. epochs = 2 /\ ~ behind => Past(Previous')
    BY <1>1, <2>2 DEF Rest, Counted, BeforeMove
  <2>. QED
    BY <1>1, <1>3, <2>1, <2>2, <2>3, <2>4, SwapRest
       DEF Works, AfterMove, NewIn, UndoDbStep, UndoStep, UndoHalf
<1>. QED
  BY <1>2, <1>3 DEF MoveAside

LEMMA MoveInRest == IInv /\ Rest /\ MoveIn => Rest'
<1> SUFFICES ASSUME IInv, Rest, MoveIn PROVE Rest'
  OBVIOUS
<1>1. /\ imp.pc = "moveIn" /\ SwapSteady /\ imp \in Import
      /\ UNCHANGED <<stale, apart, split, behind>>
  BY DEF IInv, TypeOK, ProgramType, MoveIn, ImportAt
<1>2. CASE SwapFails
  BY <1>1, <1>2, SwapFailsRest DEF AfterMove
<1>3. CASE /\ Works /\ ImportTo("open")
           /\ db' = PutStaged(PutLive(db, manifest, Staged), manifest, {})
           /\ UNCHANGED <<images, settings, epochs>>
  <2>1. /\ imp'.pc = "open" /\ imp'.backup = imp.backup /\ imp'.withSettings = imp.withSettings
        /\ imp'.counter = imp.counter /\ imp'.staged = imp.staged
    BY <1>1, <1>3, ImportValues, ImportKeeps DEF ImportTo
  <2>2. Live' = Staged /\ Previous' = Previous
    BY <1>1, <1>3, MovedIn
       DEF IInv, TypeOK, DiskType, SwapSteady, ImportSteady, Live, Previous, Staged
  <2>3. Staged = imp.backup.db
    BY <1>1 DEF Rest, Installed
  <2>4. epochs = 2 /\ ~ behind => Past(Previous')
    BY <1>1, <2>2 DEF Rest, Counted, AfterMove
  <2>. QED
    BY <1>1, <1>3, <2>1, <2>2, <2>3, <2>4, SwapRest
       DEF Works, AfterMove, NewIn, UndoDbStep, UndoStep, UndoHalf
<1>. QED
  BY <1>2, <1>3 DEF MoveIn

LEMMA OpenNewRest == IInv /\ Rest /\ OpenNew => Rest'
<1> SUFFICES ASSUME IInv, Rest, OpenNew PROVE Rest'
  OBVIOUS
<1>1. /\ imp.pc = "open" /\ SwapSteady /\ imp \in Import
      /\ UNCHANGED <<stale, apart, split, behind>>
  BY DEF IInv, TypeOK, ProgramType, OpenNew, ImportAt
<1>2. CASE SwapFails
  BY <1>1, <1>2, SwapFailsRest DEF AfterMove
<1>3. CASE Works /\ ImportTo("reset") /\ OpenDb(db, manifest) /\ UNCHANGED <<images, settings>>
  <2>1. /\ imp'.pc = "reset" /\ imp'.backup = imp.backup /\ imp'.withSettings = imp.withSettings
        /\ imp'.counter = imp.counter /\ imp'.staged = imp.staged
    BY <1>1, <1>3, ImportValues, ImportKeeps DEF ImportTo
  <2>2. RowsOf(Live') = RowsOf(Live) /\ Previous' = Previous
    BY <1>1, <1>3, OpenRows
       DEF IInv, TypeOK, DiskType, SwapSteady, ImportSteady, Live, Previous
  <2>3. RowsOf(Live) = RowsOf(imp.backup.db)
    BY <1>1 DEF Rest, Installed, NewIn, AfterMove
  <2>4. epochs = 2 /\ ~ behind => Past(Previous')
    BY <1>1, <2>2 DEF Rest, Counted, AfterMove
  <2>5. epochs' \in {epochs, epochs + 1}
    BY <1>3 DEF OpenDb
  <2>. QED
    BY <1>1, <1>3, <2>1, <2>2, <2>3, <2>4, <2>5, SwapRest
       DEF Works, AfterMove, NewIn, UndoDbStep, UndoStep, UndoHalf
<1>. QED
  BY <1>2, <1>3 DEF OpenNew

(* The same rows under other counters.                                     *)
LEMMA RowsEqual ==
    ASSUME NEW S, NEW T, \A t \in T : \E d \in S : t.rows = d.rows,
           \A d \in S : \E t \in T : t.rows = d.rows
    PROVE  RowsOf(T) = RowsOf(S)
<1>1. \A r : r \in RowsOf(S) <=> \E d \in S : r \in d.rows
  BY DEF RowsOf
<1>2. \A r : r \in RowsOf(T) <=> \E t \in T : r \in t.rows
  BY DEF RowsOf
<1>3. \A r : r \in RowsOf(S) <=> r \in RowsOf(T)
  BY <1>1, <1>2
<1>. QED
  BY <1>3

(* The larger of two numbers is past what the kept one is past.            *)
LEMMA ResetPast ==
    ASSUME TypeOK, Beyond(imp.counter),
           NEW S, S = {[d EXCEPT !.counter = Larger(@, imp.counter)] : d \in Live}
    PROVE  Past(S)
<1>1. \A d \in Live : d \in Db
  BY DbGet, Places DEF TypeOK, DiskType, Live
<1>2. \A d \in Live : LET e == [d EXCEPT !.counter = Larger(@, imp.counter)]
                      IN  e.rows = d.rows /\ e.counter = Larger(d.counter, imp.counter)
  BY <1>1 DEF Db
<1>3. \A d \in Live : Beyond(Larger(d.counter, imp.counter))
  <2> SUFFICES ASSUME NEW d \in Live, NEW e \in Epoch
               PROVE  Larger(d.counter, imp.counter) >= issued[e]
    BY DEF Beyond
  <2>1. d.counter \in Nat /\ imp.counter \in Nat /\ issued[e] \in Nat
    BY <1>1, DbFields, ImportTypes DEF TypeOK, ProgramType, HistoryType
  <2>2. imp.counter >= issued[e]
    BY DEF Beyond
  <2>. QED
    BY <2>1, <2>2 DEF Larger
<1>. QED
  BY <1>2, <1>3 DEF Past

LEMMA ResetRest == IInv /\ Rest /\ Reset => Rest'
<1> SUFFICES ASSUME IInv, Rest, Reset PROVE Rest'
  OBVIOUS
<1>1. /\ imp.pc = "reset" /\ SwapSteady /\ imp \in Import
      /\ UNCHANGED <<stale, apart, split, behind>>
  BY DEF IInv, TypeOK, ProgramType, Reset, ImportAt
<1>2. CASE SwapFails
  BY <1>1, <1>2, SwapFailsRest DEF AfterMove
<1>3. CASE /\ Works
           /\ ImportTo(IF imp.backup.images # {} THEN "dropOldImages" ELSE AfterImages)
           /\ db' = PutLive(db, manifest,
                            {[d EXCEPT !.counter = Larger(@, imp.counter)] : d \in Live})
           /\ UNCHANGED <<images, settings, epochs>>
  <2>1. /\ imp'.pc = (IF imp.backup.images # {} THEN "dropOldImages" ELSE AfterImages)
        /\ imp'.backup = imp.backup /\ imp'.withSettings = imp.withSettings
        /\ imp'.counter = imp.counter /\ imp'.staged = imp.staged
    BY <1>1, <1>3, ImportValues, ImportKeeps DEF ImportTo
  <2>2. /\ Live' = {[d EXCEPT !.counter = Larger(@, imp.counter)] : d \in Live}
        /\ Previous' = Previous
    BY <1>1, <1>3, DbValues
       DEF IInv, TypeOK, DiskType, SwapSteady, ImportSteady, Live, Previous
  <2>3. RowsOf(Live) = RowsOf(imp.backup.db)
    BY <1>1 DEF Rest, Installed, NewIn, AfterMove
  <2>4. RowsOf(Live') = RowsOf(Live)
    <3>1. \A d \in Live : [d EXCEPT !.counter = Larger(@, imp.counter)].rows = d.rows
      BY DbGet, Places DEF IInv, TypeOK, DiskType, Live, Db
    <3>2. /\ \A t \in Live' : \E d \in Live : t.rows = d.rows
          /\ \A d \in Live : \E t \in Live' : t.rows = d.rows
      BY <2>2, <3>1
    <3>. QED
      BY <3>2, RowsEqual
  <2>5. epochs = 2 /\ ~ behind => Past(Previous') /\ Past(Live')
    BY <1>1, <2>2, ResetPast DEF IInv, Rest, Counted, AfterMove
  <2>6. imp'.pc = "commit" => ~ imp.withSettings
    BY <2>1 DEF AfterImages
  <2>7. imp'.pc \in {"dropOldImages", "settings", "commit"}
        /\ (imp'.pc \in {"settings", "commit"} => imp.backup.images = {})
    BY <2>1 DEF AfterImages
  <2>. QED
    BY <1>1, <1>3, <2>1, <2>2, <2>3, <2>4, <2>5, <2>6, <2>7, SwapRest
       DEF Works, AfterMove, NewIn, UndoDbStep, UndoStep, UndoHalf
<1>. QED
  BY <1>2, <1>3 DEF Reset

LEMMA DropOldImagesRest == IInv /\ Rest /\ DropOldImages => Rest'
<1> SUFFICES ASSUME IInv, Rest, DropOldImages PROVE Rest'
  OBVIOUS
<1>1. /\ imp.pc = "dropOldImages" /\ SwapSteady /\ imp \in Import
      /\ UNCHANGED <<stale, apart, split, behind>>
  BY DEF IInv, TypeOK, ProgramType, DropOldImages, ImportAt
<1>2. CASE SwapFails
  BY <1>1, <1>2, SwapFailsRest DEF AfterMove
<1>3. CASE Works /\ ImportTo("imagesAside") /\ UNCHANGED <<db, settings, epochs>>
  <2>1. /\ imp'.pc = "imagesAside" /\ imp'.backup = imp.backup
        /\ imp'.withSettings = imp.withSettings
        /\ imp'.counter = imp.counter /\ imp'.staged = imp.staged
    BY <1>1, <1>3, ImportValues, ImportKeeps DEF ImportTo
  <2>2. Live' = Live /\ Previous' = Previous
    BY <1>1, <1>3, SameDb DEF SwapSteady, ImportSteady
  <2>3. RowsOf(Live) = RowsOf(imp.backup.db)
    BY <1>1 DEF Rest, Installed, NewIn, AfterMove
  <2>4. epochs = 2 /\ ~ behind => Past(Previous') /\ Past(Live')
    BY <1>1, <2>2 DEF Rest, Counted, NewIn, AfterMove
  <2>. QED
    BY <1>1, <1>3, <2>1, <2>2, <2>3, <2>4, SwapRest
       DEF Works, AfterMove, NewIn, UndoDbStep, UndoStep, UndoHalf
<1>. QED
  BY <1>2, <1>3 DEF DropOldImages

LEMMA ImagesAsideRest == IInv /\ Rest /\ ImagesAside => Rest'
<1> SUFFICES ASSUME IInv, Rest, ImagesAside PROVE Rest'
  OBVIOUS
<1>1. /\ imp.pc = "imagesAside" /\ SwapSteady /\ imp \in Import
      /\ UNCHANGED <<stale, apart, split, behind>>
  BY DEF IInv, TypeOK, ProgramType, ImagesAside, ImportAt
<1>2. CASE SwapFails
  BY <1>1, <1>2, SwapFailsRest DEF AfterMove
<1>3. CASE /\ Works /\ imp' = StepTo(Changed(imp), "installImages")
           /\ images' = Aside(images, manifest) /\ UNCHANGED <<db, settings, epochs>>
  <2>1. /\ imp'.pc = "installImages" /\ imp'.backup = imp.backup
        /\ imp'.withSettings = imp.withSettings
        /\ imp'.counter = imp.counter /\ imp'.staged = imp.staged
    BY <1>1, <1>3 DEF Import, StepTo, Changed
  <2>2. Live' = Live /\ Previous' = Previous
    BY <1>1, <1>3, SameDb DEF SwapSteady, ImportSteady
  <2>3. RowsOf(Live) = RowsOf(imp.backup.db)
    BY <1>1 DEF Rest, Installed, NewIn, AfterMove
  <2>4. epochs = 2 /\ ~ behind => Past(Previous') /\ Past(Live')
    BY <1>1, <2>2 DEF Rest, Counted, NewIn, AfterMove
  <2>5. ImagesHere'.live = {}
    BY <1>1, <1>3, ImageMoved DEF IInv, TypeOK, DiskType, SwapSteady, ImportSteady, ImagesHere
  <2>. QED
    BY <1>1, <1>3, <2>1, <2>2, <2>3, <2>4, <2>5, SwapRest
       DEF Works, AfterMove, NewIn, UndoDbStep, UndoStep, UndoHalf
<1>. QED
  BY <1>2, <1>3 DEF ImagesAside

LEMMA InstallImagesRest == IInv /\ Rest /\ InstallImages => Rest'
<1> SUFFICES ASSUME IInv, Rest, InstallImages PROVE Rest'
  OBVIOUS
<1>1. /\ imp.pc = "installImages" /\ SwapSteady /\ imp \in Import
      /\ UNCHANGED <<stale, apart, split, behind>>
  BY DEF IInv, TypeOK, ProgramType, InstallImages, ImportAt
<1>2. CASE SwapFails
  BY <1>1, <1>2, SwapFailsRest DEF AfterMove
<1>3. RowsOf(Live) = RowsOf(imp.backup.db)
      /\ (epochs = 2 /\ ~ behind => Past(Previous) /\ Past(Live))
  BY <1>1 DEF Rest, Installed, Counted, NewIn, AfterMove
<1>4. CASE /\ imp.staged # {} /\ Works /\ imp' = StepTo(Unstaged(imp), AfterImages)
           /\ images' = PutLive(images, manifest, imp.staged)
           /\ UNCHANGED <<db, settings, epochs>>
  <2>1. /\ imp'.pc = AfterImages /\ imp'.backup = imp.backup
        /\ imp'.withSettings = imp.withSettings
        /\ imp'.counter = imp.counter /\ imp'.staged = {}
    BY <1>1, <1>4 DEF Import, StepTo, Unstaged
  <2>2. Live' = Live /\ Previous' = Previous /\ ImagesHere'.live = imp.staged
    BY <1>1, <1>4, SameDb, ImageValues
       DEF IInv, TypeOK, DiskType, SwapSteady, ImportSteady, ImagesHere
  <2>3. imp.staged = imp.backup.images
    BY <1>4 DEF Rest, Installed
  <2>4. imp'.pc \in {"settings", "commit"} /\ (imp'.pc = "commit" => ~ imp.withSettings)
    BY <2>1 DEF AfterImages
  <2>. QED
    BY <1>1, <1>3, <1>4, <2>1, <2>2, <2>3, <2>4, SwapRest
       DEF Works, AfterMove, NewIn, UndoDbStep, UndoStep, UndoHalf
<1>5. CASE /\ trouble' = trouble + 1 /\ ImportTo(UndoFrom(TRUE))
           /\ UNCHANGED <<db, images, settings, epochs>>
  <2>1. /\ imp'.pc = "undoImages" /\ imp'.backup = imp.backup
        /\ imp'.withSettings = imp.withSettings
        /\ imp'.counter = imp.counter /\ imp'.staged = imp.staged
    BY <1>1, <1>5, ImportValues, ImportKeeps DEF ImportTo, UndoFrom
  <2>2. Live' = Live /\ Previous' = Previous
    BY <1>1, <1>5, SameDb DEF SwapSteady, ImportSteady
  <2>3. trouble' >= 1
    BY <1>5 DEF IInv, TypeOK, HistoryType
  <2>. QED
    BY <1>1, <1>3, <1>5, <2>1, <2>2, <2>3, SwapRest DEF AfterMove, NewIn, UndoDbStep, UndoStep, UndoHalf
<1>. QED
  BY <1>2, <1>4, <1>5 DEF InstallImages

LEMMA ReplaceSettingsRest == IInv /\ Rest /\ ReplaceSettings => Rest'
<1> SUFFICES ASSUME IInv, Rest, ReplaceSettings PROVE Rest'
  OBVIOUS
<1>1. /\ imp.pc = "settings" /\ SwapSteady /\ imp \in Import
      /\ UNCHANGED <<stale, apart, split, behind>>
  BY DEF IInv, TypeOK, ProgramType, ReplaceSettings, ImportAt
<1>2. CASE SwapFails
  BY <1>1, <1>2, SwapFailsRest DEF AfterMove
<1>3. CASE Works /\ ImportTo("commit") /\ settings' = "backup" /\ UNCHANGED <<db, images, epochs>>
  <2>1. /\ imp'.pc = "commit" /\ imp'.backup = imp.backup /\ imp'.withSettings = imp.withSettings
        /\ imp'.counter = imp.counter /\ imp'.staged = imp.staged
    BY <1>1, <1>3, ImportValues, ImportKeeps DEF ImportTo
  <2>2. Live' = Live /\ Previous' = Previous /\ ImagesHere' = ImagesHere
    BY <1>1, <1>3, SameDb, SameImages DEF SwapSteady, ImportSteady
  <2>3. /\ RowsOf(Live) = RowsOf(imp.backup.db)
        /\ imp.backup.images # {} => ImagesHere.live = imp.backup.images
    BY <1>1 DEF Rest, Installed, NewIn, AfterMove
  <2>4. epochs = 2 /\ ~ behind => Past(Previous') /\ Past(Live')
    BY <1>1, <2>2 DEF Rest, Counted, NewIn, AfterMove
  <2>. QED
    BY <1>1, <1>3, <2>1, <2>2, <2>3, <2>4, SwapRest
       DEF Works, AfterMove, NewIn, UndoDbStep, UndoStep, UndoHalf
<1>. QED
  BY <1>2, <1>3 DEF ReplaceSettings

(* The rollback goes on.                                                   *)
LEMMA UndoRest ==
    ASSUME IInv, Rest, imp.pc \in {"undoImages", "restoreImages", "undoDb", "restoreDb"},
           UndoSteady, NEW step \in {"restoreImages", "undoDb", "restoreDb", "reopen"}, ImportTo(step),
           ~ apart /\ UndoHalf' => RowsOf(Live') = RowsOf(imp.backup.db),
           epochs = 2 /\ ~ behind =>
             /\ step = "reopen" => Past(Live')
             /\ step # "reopen" => Past(Previous')
    PROVE  Rest'
<1>1. /\ imp'.pc = step /\ imp'.backup = imp.backup /\ imp'.withSettings = imp.withSettings
      /\ imp'.counter = imp.counter /\ imp'.staged = imp.staged
  BY ImportValues, ImportKeeps DEF IInv, TypeOK, ProgramType, ImportTo
<1>2. trouble' = trouble /\ trouble >= 1
  BY DEF UndoSteady, Works, Rest, Undoing, UndoStep, UndoDbStep
<1>3. SwapSteady /\ UNCHANGED <<settings, epochs, stale, apart, split, behind>>
  BY DEF UndoSteady
<1>. QED
  BY <1>1, <1>2, <1>3, SwapRest DEF AfterMove, NewIn, UndoDbStep, UndoStep, UndoHalf

LEMMA UndoImagesRest == IInv /\ Rest /\ UndoImages => Rest'
<1> SUFFICES ASSUME IInv, Rest, UndoImages PROVE Rest'
  OBVIOUS
<1>1. imp.pc = "undoImages" /\ UndoSteady /\ ImportTo("restoreImages") /\ Previous' = Previous
  BY SameDb DEF UndoImages, ImportAt, UndoSteady, SwapSteady, ImportSteady
<1>2. epochs = 2 /\ ~ behind => Past(Previous')
  BY <1>1 DEF Rest, Counted
<1>3. imp'.pc = "restoreImages" /\ Live' = Live
  BY <1>1, ImportValues, SameDb
     DEF IInv, TypeOK, ProgramType, ImportTo, UndoImages, UndoSteady, SwapSteady, ImportSteady
<1>4. ~ apart => RowsOf(Live) = RowsOf(imp.backup.db)
  BY <1>1 DEF Rest, Matched, UndoHalf, Half
<1>. QED
  BY <1>1, <1>2, <1>3, <1>4, UndoRest
LEMMA RestoreImagesRest == IInv /\ Rest /\ RestoreImages => Rest'
<1> SUFFICES ASSUME IInv, Rest, RestoreImages PROVE Rest'
  OBVIOUS
<1>1. imp.pc = "restoreImages" /\ UndoSteady /\ ImportTo(UndoFrom(FALSE)) /\ Previous' = Previous
  BY SameDb DEF RestoreImages, ImportAt, UndoSteady, SwapSteady, ImportSteady
<1>2. epochs = 2 /\ ~ behind => Past(Previous')
  BY <1>1 DEF Rest, Counted
<1>3. Live' = Live
  BY SameDb DEF RestoreImages, UndoSteady, SwapSteady, ImportSteady
<1>4. ~ apart => RowsOf(Live) = RowsOf(imp.backup.db)
  BY <1>1 DEF Rest, Matched, UndoHalf, Half
<1>5. ~ behind => UndoFrom(FALSE) = "undoDb"
  <2> SUFFICES ASSUME ~ behind PROVE Previous # {}
    BY DEF UndoFrom
  <2>1. ~ stale /\ owner = "import"
    BY <1>1, ImportHolds DEF IInv, Rest, Matched
  <2>. QED
    BY <1>1, <2>1 DEF IInv, Kept, ImportKept, RowsAside
<1>6. UndoFrom(FALSE) \in {"undoDb", "reopen"}
  BY DEF UndoFrom
<1>. QED
  BY <1>1, <1>2, <1>3, <1>4, <1>5, <1>6, UndoRest

LEMMA UndoDbRest == IInv /\ Rest /\ UndoDb => Rest'
<1> SUFFICES ASSUME IInv, Rest, UndoDb PROVE Rest'
  OBVIOUS
<1>1. imp.pc = "undoDb" /\ UndoSteady /\ ImportTo("restoreDb")
  BY DEF UndoDb, ImportAt
<1>2. Previous' = Previous
  BY DbValues DEF IInv, TypeOK, DiskType, UndoDb, UndoSteady, SwapSteady, ImportSteady, Previous
<1>3. epochs = 2 /\ ~ behind => Past(Previous')
  BY <1>1, <1>2 DEF Rest, Counted, UndoDbStep
<1>4. imp'.pc = "restoreDb"
  BY <1>1, ImportValues DEF IInv, TypeOK, ProgramType, ImportTo
<1>. QED
  BY <1>1, <1>3, <1>4, UndoRest DEF UndoHalf

LEMMA RestoreDbRest == IInv /\ Rest /\ RestoreDb => Rest'
<1> SUFFICES ASSUME IInv, Rest, RestoreDb PROVE Rest'
  OBVIOUS
<1>1. imp.pc = "restoreDb" /\ UndoSteady /\ ImportTo("reopen")
  BY DEF RestoreDb, ImportAt
<1>2. Live' = Previous
  BY DbMoved
     DEF IInv, TypeOK, DiskType, RestoreDb, UndoSteady, SwapSteady, ImportSteady, Live, Previous
<1>3. epochs = 2 /\ ~ behind => Past(Live')
  BY <1>1, <1>2 DEF Rest, Counted, UndoDbStep
<1>4. imp'.pc = "reopen"
  BY <1>1, ImportValues DEF IInv, TypeOK, ProgramType, ImportTo
<1>. QED
  BY <1>1, <1>3, <1>4, UndoRest DEF UndoHalf

(* Before the swap.                                                        *)
LEMMA ImportBeginRest == IInv /\ Rest /\ ImportBegin => Rest'
<1> SUFFICES ASSUME IInv, Rest, ImportBegin PROVE Rest'
  OBVIOUS
<1>1. /\ imp.pc = "idle" /\ owner # "import"
      /\ UNCHANGED <<db, images, manifest, settings, exports, pool, imageRoot, owner, sw, epochs>>
      /\ UNCHANGED <<issued, before, trouble, stale, apart, split, behind>>
  BY DEF IInv, Control, ImportBegin, ImportAt, diskVars, ghosts
<1>2. PICK b \in exports \cup {Foreign} :
        imp'.pc = "wait" /\ imp'.backup = b /\ imp'.staged = b.images
  BY NoneTypes DEF ImportBegin, Import
<1>3. Live' = Live /\ ImagesHere' = ImagesHere
  BY <1>1, SameDb, SameImages
<1>4. Installed' /\ Undoing'
  BY <1>1, <1>2 DEF Rest, Installed, Undoing, NewIn, AfterMove, UndoStep, UndoDbStep
<1>5. Matched'
  BY <1>1, <1>2, <1>3 DEF Rest, Matched, UndoHalf
<1>6. Counted'
  <2>1. \A S : Past(S)' <=> Past(S)
    BY <1>1 DEF Past, Beyond
  <2>. QED
    BY <1>1, <1>2, <1>3
       DEF Rest, Counted, Past, Beyond, BeforeMove, NewIn, AfterMove, UndoDbStep
<1>. QED
  BY <1>4, <1>5, <1>6 DEF Rest

LEMMA ImportLockRest == IInv /\ Rest /\ ImportLock => Rest'
<1> SUFFICES ASSUME IInv, Rest, ImportLock PROVE Rest'
  OBVIOUS
<1>1. /\ imp.pc = "wait" /\ owner = "none" /\ owner' = "import" /\ sw.pc \in {"idle", "wait"}
      /\ UNCHANGED <<db, images, manifest, settings, exports, pool, imageRoot, sw, epochs>>
      /\ UNCHANGED <<issued, apart, split, behind>> /\ stale' = FALSE
      /\ before'.rows = RowsOf(Live) /\ before'.images = UNION ImagesHere.live
      /\ before'.settings = settings /\ before'.pool = pool
  BY DEF IInv, Control, ImportLock, ImportAt, diskVars, countVars
<1>2. imp'.pc = "stage" /\ imp'.backup = imp.backup /\ imp'.staged = imp.staged
  BY ImportValues, ImportKeeps DEF IInv, TypeOK, ProgramType, ImportLock, ImportTo
<1>3. Live' = Live /\ ImagesHere' = ImagesHere
  BY <1>1, SameDb, SameImages
<1>4. Installed' /\ Undoing'
  BY <1>1, <1>2 DEF Rest, Installed, Undoing, NewIn, AfterMove, UndoStep, UndoDbStep
<1>5. Matched'
  BY <1>1, <1>2, <1>3 DEF Rest, Matched, UndoHalf
<1>6. Counted'
  BY <1>1, <1>2, <1>3 DEF Rest, Counted, Past, Beyond, BeforeMove, NewIn, AfterMove, UndoDbStep
<1>. QED
  BY <1>4, <1>5, <1>6 DEF Rest

LEMMA StageDatabaseRest == IInv /\ Rest /\ StageDatabase => Rest'
<1> SUFFICES ASSUME IInv, Rest, StageDatabase PROVE Rest'
  OBVIOUS
<1>1. /\ imp.pc = "stage" /\ owner = "import" /\ sw.pc \in {"idle", "wait"}
      /\ ImportSteady /\ UNCHANGED <<images, settings, pool, epochs, stale, apart, split, behind>>
  BY ImportHolds DEF IInv, Control, StageDatabase, ImportAt
<1>2. Live' = Live /\ ImagesHere' = ImagesHere
  BY <1>1, DbValues, SameImages DEF IInv, TypeOK, DiskType, StageDatabase, ImportSteady, Live
<1>3. CASE /\ Works /\ Underway /\ ImportTo("counter")
           /\ db' = PutStaged(db, manifest, imp.backup.db)
  <2>1. imp'.pc = "counter" /\ imp'.backup = imp.backup /\ imp'.staged = imp.staged
    BY <1>3, ImportValues, ImportKeeps DEF IInv, TypeOK, ProgramType, ImportTo
  <2>2. Staged' = imp.backup.db
    BY <1>1, <1>3, DbValues DEF IInv, TypeOK, DiskType, ImportSteady, Staged
  <2>3. Installed' /\ Undoing'
    BY <1>1, <1>3, <2>1, <2>2
       DEF Rest, Installed, Undoing, ImportSteady, Underway, NewIn, AfterMove, UndoStep, UndoDbStep
  <2>4. Matched'
    BY <1>1, <1>2, <1>3, <2>1 DEF Rest, Matched, UndoHalf, ImportSteady, Steady, Underway
  <2>5. Counted'
    BY <1>1, <1>2, <1>3, <2>1
       DEF Rest, Counted, Past, Beyond, ImportSteady, Steady, Underway, BeforeMove, NewIn, AfterMove,
           UndoDbStep
  <2>. QED
    BY <2>3, <2>4, <2>5 DEF Rest
<1>4. CASE ImportEnds("err")
  <2>1. (~ behind => ~ stale) /\ (~ apart => ~ stale /\ (pool = "open" => imageRoot = manifest))
    BY <1>1 DEF Rest, Matched
  <2>. QED
    BY <1>1, <1>2, <1>4, <2>1, EndRest DEF ImportEnds, ImportSteady, Steady, Half, SplitHere, LowHere
<1>. QED
  BY <1>3, <1>4 DEF StageDatabase

LEMMA ReadCounterRest == IInv /\ Rest /\ ReadCounter => Rest'
<1> SUFFICES ASSUME IInv, Rest, ReadCounter PROVE Rest'
  OBVIOUS
<1>1. /\ imp.pc = "counter" /\ owner = "import" /\ sw.pc \in {"idle", "wait"}
      /\ ImportSteady /\ UNCHANGED <<db, images, settings, epochs, stale, apart, split, behind>>
  BY ImportHolds DEF IInv, Control, ReadCounter, ImportAt
<1>2. Live' = Live /\ Staged' = Staged /\ ImagesHere' = ImagesHere
  BY <1>1, SameDb, SameImages DEF ImportSteady
<1>3. ASSUME NEW d \in Live, Works, Underway, pool = "open", pool' = "closed",
             imp' = StepTo(Numbered(imp, d.counter), "removePrevious")
      PROVE  Rest'
  <2>1. Numbered(imp, d.counter) \in Import
    <3>1. d.counter \in Nat
      BY DbGet, DbFields, Places DEF IInv, TypeOK, DiskType, Live
    <3>. QED
      BY <3>1, ImportTypes DEF IInv, TypeOK, ProgramType
  <2>2. /\ imp'.pc = "removePrevious" /\ imp'.backup = imp.backup /\ imp'.staged = imp.staged
        /\ imp'.counter = d.counter
    BY <1>3, <2>1, ImportValues, ImportKeeps DEF IInv, TypeOK, ProgramType
  <2>3. Installed' /\ Undoing'
    BY <1>1, <1>2, <1>3, <2>2
       DEF Rest, Installed, Undoing, ImportSteady, Underway, NewIn, AfterMove, UndoStep, UndoDbStep
  <2>4. Matched'
    BY <1>1, <1>2, <1>3, <2>2 DEF Rest, Matched, UndoHalf, ImportSteady, Steady, Underway
  <2>5. Counted'
    BY <1>1, <1>2, <1>3, <2>2
       DEF Rest, Counted, Past, Beyond, ImportSteady, Steady, Underway, BeforeMove, NewIn, AfterMove,
           UndoDbStep
  <2>. QED
    BY <2>3, <2>4, <2>5 DEF Rest
<1>4. CASE ImportEnds("err") /\ UNCHANGED pool
  <2>1. (~ behind => ~ stale) /\ (~ apart => ~ stale /\ (pool = "open" => imageRoot = manifest))
    BY <1>1 DEF Rest, Matched
  <2>. QED
    BY <1>1, <1>2, <1>4, <2>1, EndRest DEF ImportEnds, ImportSteady, Steady, Half, SplitHere, LowHere
<1>. QED
  BY <1>3, <1>4 DEF ReadCounter

(* The ends of an import.                                                  *)
LEMMA CommitRest == IInv /\ Rest /\ Commit => Rest'
<1> SUFFICES ASSUME IInv, Rest, Commit PROVE Rest'
  OBVIOUS
<1>1. /\ imp.pc = "commit" /\ owner = "import" /\ sw.pc \in {"idle", "wait"}
      /\ ImportEnds("ok") /\ ImportSteady /\ UNCHANGED <<epochs, stale, apart, behind>>
      /\ split' = SplitHere
  BY ImportHolds DEF IInv, Control, Commit, ImportAt
<1>2. Live' = Live /\ ImagesHere'.live = ImagesHere.live
  <2>1. db' \in {db, PutPrevious(db, manifest, {})} /\ images' \in {images, PutPrevious(images, manifest, {})}
    BY DEF Commit
  <2>. QED
    BY <1>1, <2>1, DbValues, ImageValues
       DEF IInv, TypeOK, DiskType, ImportSteady, Live, ImagesHere
<1>3. (~ behind => ~ stale) /\ (~ apart => ~ stale /\ imageRoot = manifest)
  BY <1>1 DEF Rest, Matched
<1>. QED
  BY <1>1, <1>2, <1>3, EndRest DEF ImportEnds, ImportSteady, Steady, Half, SplitHere, LowHere

LEMMA ReopenRest == IInv /\ Rest /\ Reopen => Rest'
<1> SUFFICES ASSUME IInv, Rest, Reopen PROVE Rest'
  OBVIOUS
<1>1. /\ imp.pc = "reopen" /\ owner = "import" /\ sw.pc \in {"idle", "wait"}
      /\ ImportEnds("err") /\ ImportSteady /\ UNCHANGED <<images, stale, apart, split, behind>>
  BY ImportHolds DEF IInv, Control, Reopen, ImportAt
<1>2. PICK f \in {db, PutStaged(db, manifest, {})} : OpenDb(f, manifest)
  BY DEF Reopen
<1>3. f \in DbDisk /\ f[manifest].live = Live /\ manifest \in Dirs
  <2>1. manifest \in Dirs /\ db \in DbDisk
    BY DEF IInv, TypeOK, DiskType
  <2>2. LET g == PutStaged(db, manifest, {}) IN g \in DbDisk /\ g[manifest].live = Live
    BY <2>1, DbClear, DbValues DEF Live
  <2>. QED
    BY <2>1, <2>2 DEF Live
<1>4. RowsOf(Live') = RowsOf(Live)
  BY <1>1, <1>2, <1>3, OpenRows DEF ImportSteady, Live
<1>5. epochs' \in {epochs, epochs + 1} /\ (epochs' = 2 => Live' = Live /\ epochs = 2)
  BY <1>1, <1>2, <1>3, OpenSame DEF IInv, TypeOK, CountType, Rest, Counted, ImportSteady, Live
<1>6. (~ behind => ~ stale) /\ (~ apart => ~ stale /\ imageRoot = manifest)
  BY <1>1 DEF Rest, Matched
<1>. QED
  BY <1>1, <1>4, <1>5, <1>6, SameImages, EndRest DEF ImportEnds, ImportSteady, Steady, Half, SplitHere, LowHere

LEMMA GiveUpRest == IInv /\ Rest /\ GiveUp => Rest'
<1> SUFFICES ASSUME IInv, Rest, GiveUp PROVE Rest'
  OBVIOUS
<1>1. /\ imp.pc \in UndoStep /\ owner = "import" /\ sw.pc \in {"idle", "wait"}
      /\ ImportEnds("err") /\ ImportSteady /\ CutHere /\ apart' = apart
      /\ UNCHANGED <<db, images, pool, epochs, stale>>
  BY ImportHolds DEF IInv, Control, GiveUp, ImportAt, UndoStep, UndoDbStep
<1>2. Live' = Live /\ ImagesHere' = ImagesHere
  BY <1>1, SameDb, SameImages DEF ImportSteady
<1>3. (~ behind => ~ stale) /\ (~ apart => ~ stale /\ imageRoot = manifest)
  BY <1>1 DEF Rest, Matched, UndoStep, UndoDbStep
<1>4. epochs' = epochs /\ (epochs' = 2 => Live' = Live /\ epochs = 2)
  BY <1>1, <1>2
<1>. QED
  BY <1>1, <1>2, <1>3, <1>4, EndRest DEF ImportEnds, ImportSteady, Steady, CutHere, LowHere

-----------------------------------------------------------------------------
(* A switch goes on.                                                       *)
LEMMA SwitchRest ==
    ASSUME IInv, Rest, owner = "switch", SwitchSteady, Underway, UNCHANGED <<imp, apart>>,
           NEW step \in SwitchStep \ {"idle", "wait", "copy"}, SwitchTo(step),
           IF step \in {"rebase", "removeOld"} THEN pool' = "open" ELSE pool' = "closed",
           step = "removeOld" => imageRoot' = sw.to /\ manifest' = sw.to,
           step \in {"unpoint", "clean", "reopen"} => trouble' >= 1,
           epochs' \in {epochs, epochs + 1},
           epochs = 2 /\ epochs' = 2 /\ ~ behind =>
             /\ step \in {"point", "open", "unpoint", "clean", "reopen"} => Past(db'[sw.from].live)
             /\ step \in {"point", "open", "rebase", "removeOld"} => Past(db'[sw.to].live)
             /\ (step = "unpoint" /\ manifest' = sw.to) => Past(db'[sw.to].live)
    PROVE  Rest'
<1>1. sw'.pc = step /\ sw'.from = sw.from /\ sw'.to = sw.to
  BY SwitchValues DEF IInv, TypeOK, ProgramType, SwitchTo
<1>2. /\ imp.pc \in {"idle", "wait"} /\ owner' = "switch"
      /\ UNCHANGED <<settings, before, stale, split, behind, issued, exports>>
  BY DEF IInv, Control, SwitchSteady, Steady, Underway
<1>3. Installed'
  BY <1>1, <1>2 DEF Rest, Installed, NewIn, AfterMove
<1>4. Undoing'
  BY <1>1, <1>2 DEF Rest, Undoing, UndoStep, UndoDbStep
<1>5. Matched'
  BY <1>1, <1>2 DEF Rest, Matched, UndoHalf
<1>6. Counted'
  <2>1. epochs' >= 2 /\ (epochs' = 2 => epochs = 2)
    BY DEF IInv, TypeOK, CountType, Epoch, Rest, Counted
  <2>2. /\ Past(db[sw.from].live)' <=> Past(db'[sw.from].live)
        /\ Past(db[sw.to].live)' <=> Past(db'[sw.to].live)
    BY <1>1, <1>2 DEF Past, Beyond
  <2>. QED
    BY <1>1, <1>2, <2>1, <2>2
       DEF Counted, BeforeMove, NewIn, AfterMove, UndoDbStep, SwitchStep, SwitchSteady
<1>. QED
  BY <1>3, <1>4, <1>5, <1>6 DEF Rest

(* A step of it fails.                                                     *)
LEMMA FailureCounts == IInv /\ Fails => trouble' >= 1
BY DEF IInv, TypeOK, HistoryType, Fails

LEMMA SwitchBeginRest == IInv /\ Rest /\ SwitchBegin => Rest'
<1> SUFFICES ASSUME IInv, Rest, SwitchBegin PROVE Rest'
  OBVIOUS
<1>1. /\ sw.pc = "idle" /\ sw'.pc = "wait" /\ owner # "switch"
      /\ UNCHANGED <<db, images, manifest, settings, exports, pool, imageRoot, owner, imp, epochs>>
      /\ UNCHANGED <<issued, before, trouble, stale, apart, split, behind>>
  BY DEF IInv, Control, SwitchBegin, SwitchAt, diskVars, ghosts
<1>2. Live' = Live /\ Previous' = Previous /\ Staged' = Staged /\ ImagesHere' = ImagesHere
  BY <1>1, SameDb, SameImages
<1>3. Installed' /\ Undoing'
  BY <1>1, <1>2 DEF Rest, Installed, Undoing
<1>4. Matched'
  BY <1>1, <1>2 DEF Rest, Matched, UndoHalf, Half
<1>5. Counted'
  BY <1>1, <1>2 DEF Rest, Counted, Past, Beyond
<1>. QED
  BY <1>3, <1>4, <1>5 DEF Rest

LEMMA SwitchLockRest == IInv /\ Rest /\ SwitchLock => Rest'
<1> SUFFICES ASSUME IInv, Rest, SwitchLock PROVE Rest'
  OBVIOUS
<1>1. /\ sw.pc = "wait" /\ owner = "none" /\ owner' = "switch" /\ imp.pc \in {"idle", "wait"}
      /\ UNCHANGED <<db, images, manifest, settings, exports, pool, imageRoot, imp, epochs>>
      /\ UNCHANGED <<issued, apart, split, behind>> /\ stale' = FALSE /\ manifest = sw.from
      /\ before'.rows = RowsOf(Live) /\ before'.images = UNION ImagesHere.live
      /\ before'.settings = settings
  BY DEF IInv, Control, SwitchLock, SwitchAt, diskVars, countVars
<1>2. sw'.pc = "copy" /\ sw'.from = sw.from /\ sw'.to = sw.to
  BY SwitchValues DEF IInv, TypeOK, ProgramType, SwitchLock, SwitchTo
<1>3. Live' = Live /\ ImagesHere' = ImagesHere
  BY <1>1, SameDb, SameImages
<1>4. Installed' /\ Undoing'
  BY <1>1, <1>2 DEF Rest, Installed, Undoing, NewIn, AfterMove, UndoStep, UndoDbStep
<1>5. Matched'
  BY <1>1, <1>2, <1>3 DEF Rest, Matched, UndoHalf
<1>6. Counted'
  BY <1>1, <1>2, <1>3
     DEF Rest, Counted, Past, Beyond, BeforeMove, NewIn, AfterMove, UndoDbStep, Live
<1>. QED
  BY <1>4, <1>5, <1>6 DEF Rest

LEMMA CopyRest == IInv /\ Rest /\ Copy => Rest'
<1> SUFFICES ASSUME IInv, Rest, Copy PROVE Rest'
  OBVIOUS
<1>1. /\ sw.pc = "copy" /\ owner = "switch" /\ SwitchSteady /\ Underway /\ UNCHANGED <<imp, epochs, apart>>
      /\ sw.from \in Dirs /\ sw.to \in Dirs /\ sw.from # sw.to /\ manifest' = sw.from /\ pool' = "closed"
  BY SwitchHolds, SwitchTypes DEF IInv, TypeOK, ProgramType, Control, Copy, SwitchAt
<1>2. epochs = 2 /\ ~ behind => Past(db[sw.from].live)
  BY <1>1 DEF Rest, Counted
<1>3. CASE SwitchTo("point") /\ db' = Put(db, sw.to, db[sw.from])
  <2>1. db'[sw.from] = db[sw.from] /\ db'[sw.to] = db[sw.from]
    BY <1>1, <1>3, DbValues DEF IInv, TypeOK, DiskType
  <2>. QED
    BY <1>1, <1>2, <1>3, <2>1, SwitchRest DEF SwitchStep
<1>4. CASE Fails /\ SwitchTo("unpoint") /\ \E part : db' = Put(db, sw.to, part)
  <2>1. db'[sw.from] = db[sw.from]
    BY <1>1, <1>4, DbValues DEF IInv, TypeOK, DiskType
  <2>. QED
    BY <1>1, <1>2, <1>4, <2>1, FailureCounts, SwitchRest DEF SwitchStep
<1>. QED
  BY <1>3, <1>4 DEF Copy

LEMMA PointRest == IInv /\ Rest /\ Point => Rest'
<1> SUFFICES ASSUME IInv, Rest, Point PROVE Rest'
  OBVIOUS
<1>1. /\ sw.pc = "point" /\ owner = "switch" /\ SwitchSteady /\ Underway
      /\ UNCHANGED <<imp, db, images, pool, epochs, apart>> /\ pool = "closed"
      /\ manifest = sw.from /\ sw.from # sw.to
  BY SwitchHolds DEF IInv, Control, Point, SwitchAt, Rest, Installed
<1>2. epochs = 2 /\ ~ behind => Past(db[sw.from].live) /\ Past(db[sw.to].live)
  BY <1>1 DEF Rest, Counted
<1>3. CASE SwitchTo("open")
  BY <1>1, <1>2, <1>3, SwitchRest DEF SwitchStep
<1>4. CASE Fails /\ SwitchTo("unpoint")
  BY <1>1, <1>2, <1>4, FailureCounts, SwitchRest DEF SwitchStep
<1>. QED
  BY <1>3, <1>4 DEF Point

LEMMA OpenThereRest == IInv /\ Rest /\ OpenThere => Rest'
<1> SUFFICES ASSUME IInv, Rest, OpenThere PROVE Rest'
  OBVIOUS
<1>1. /\ sw.pc = "open" /\ owner = "switch" /\ SwitchSteady /\ Underway
      /\ UNCHANGED <<imp, images, manifest, apart>> /\ pool = "closed"
  BY SwitchHolds DEF IInv, Control, OpenThere, SwitchAt, Rest, Installed
<1>2. epochs = 2 /\ ~ behind => Past(db[sw.from].live) /\ Past(db[sw.to].live)
  BY <1>1 DEF Rest, Counted
<1>3. CASE SwitchTo("rebase") /\ OpenDb(db, manifest) /\ pool' = "open"
  <2>1. epochs' \in {epochs, epochs + 1} /\ (epochs = 2 /\ epochs' = 2 => db' = db)
    BY <1>3, OpenSame DEF IInv, TypeOK, CountType
  <2>. QED
    BY <1>1, <1>2, <1>3, <2>1, SwitchRest DEF SwitchStep
<1>4. CASE Fails /\ SwitchTo("unpoint") /\ UNCHANGED <<db, epochs, pool>>
  BY <1>1, <1>2, <1>4, FailureCounts, SwitchRest DEF SwitchStep
<1>. QED
  BY <1>3, <1>4 DEF OpenThere

LEMMA UnpointRest == IInv /\ Rest /\ Unpoint => Rest'
<1> SUFFICES ASSUME IInv, Rest, Unpoint PROVE Rest'
  OBVIOUS
<1>1. /\ sw.pc = "unpoint" /\ owner = "switch" /\ SwitchSteady /\ imp.pc \in {"idle", "wait"}
      /\ UNCHANGED <<imp, db, images, pool, epochs, apart>> /\ pool = "closed" /\ trouble >= 1
  BY SwitchHolds DEF IInv, Control, Unpoint, SwitchAt, Rest, Installed, Undoing
<1>2. epochs = 2 /\ ~ behind => Past(db[sw.from].live)
  BY <1>1 DEF Rest, Counted
<1>3. CASE Works /\ Underway /\ SwitchTo("clean")
  BY <1>1, <1>2, <1>3, SwitchRest DEF SwitchStep, Works
<1>4. CASE SwitchEnds("err") /\ UNCHANGED manifest
  <2>1. Live' = Live /\ ImagesHere' = ImagesHere
    BY <1>1, <1>4, SameDb, SameImages
  <2>2. (~ behind => ~ stale) /\ (~ apart => ~ stale)
    BY DEF Rest, Matched
  <2>. QED
    BY <1>1, <1>4, <2>1, <2>2, EndRest DEF SwitchEnds, SwitchSteady, Steady, Half, SplitHere, LowHere
<1>. QED
  BY <1>3, <1>4 DEF Unpoint

LEMMA CleanRest == IInv /\ Rest /\ Clean => Rest'
<1> SUFFICES ASSUME IInv, Rest, Clean PROVE Rest'
  OBVIOUS
<1>1. /\ sw.pc = "clean" /\ owner = "switch" /\ SwitchSteady /\ Underway /\ SwitchTo("reopen")
      /\ UNCHANGED <<imp, manifest, pool, epochs, apart>> /\ sw.from # sw.to
      /\ sw.from \in Dirs /\ sw.to \in Dirs /\ pool = "closed" /\ trouble >= 1
  BY SwitchHolds, SwitchTypes
     DEF IInv, TypeOK, ProgramType, Control, Clean, SwitchAt, Rest, Installed, Undoing
<1>2. db'[sw.from] = db[sw.from]
  BY <1>1, DbValues DEF IInv, TypeOK, DiskType, Clean
<1>3. epochs = 2 /\ ~ behind => Past(db'[sw.from].live)
  BY <1>1, <1>2 DEF Rest, Counted
<1>4. trouble' >= 1
  BY <1>1, FailureCounts DEF Clean, Works
<1>. QED
  BY <1>1, <1>3, <1>4, SwitchRest DEF SwitchStep

(* The ends of a switch.                                                   *)
LEMMA OpenBackRest == IInv /\ Rest /\ OpenBack => Rest'
<1> SUFFICES ASSUME IInv, Rest, OpenBack PROVE Rest'
  OBVIOUS
<1>1. /\ sw.pc = "reopen" /\ owner = "switch" /\ SwitchSteady /\ imp.pc \in {"idle", "wait"}
      /\ SwitchEnds("err") /\ UNCHANGED <<imp, images, manifest, imageRoot>> /\ pool = "closed"
      /\ manifest \in Dirs /\ db \in DbDisk /\ epochs \in Epoch
  BY SwitchHolds
     DEF IInv, TypeOK, DiskType, CountType, Control, OpenBack, SwitchAt, Rest, Installed
<1>2. (~ behind => ~ stale) /\ (~ apart => ~ stale)
  BY DEF Rest, Matched
<1>3. ImagesHere' = ImagesHere
  BY <1>1, SameImages
<1>4. CASE OpenDb(db, manifest) /\ apart' = (apart \/ imageRoot # manifest)
  <2>1. RowsOf(Live') = RowsOf(Live)
    BY <1>1, <1>4, OpenRows DEF Live
  <2>2. epochs' \in {epochs, epochs + 1} /\ (epochs' = 2 => Live' = Live /\ epochs = 2)
    BY <1>1, <1>4, OpenSame DEF Rest, Counted, Live
  <2>. QED
    BY <1>1, <1>2, <1>3, <1>4, <2>1, <2>2, EndRest DEF SwitchEnds, SwitchSteady, Steady, Half, SplitHere, LowHere
<1>5. CASE UNCHANGED <<db, epochs, pool, apart>>
  BY <1>1, <1>2, <1>3, <1>5, SameDb, EndRest DEF SwitchEnds, SwitchSteady, Steady, Half, SplitHere, LowHere
<1>. QED
  BY <1>4, <1>5 DEF OpenBack

LEMMA RebaseRest == IInv /\ Rest /\ Rebase => Rest'
<1> SUFFICES ASSUME IInv, Rest, Rebase PROVE Rest'
  OBVIOUS
<1>1. /\ sw.pc = "rebase" /\ owner = "switch" /\ SwitchSteady /\ imp.pc \in {"idle", "wait"}
      /\ UNCHANGED <<imp, db, images, manifest, pool, epochs>> /\ manifest = sw.to /\ pool = "open"
  BY SwitchHolds DEF IInv, Control, Rebase, SwitchAt, Rest, Installed
<1>2. CASE Underway /\ SwitchTo("removeOld") /\ imageRoot' = manifest /\ UNCHANGED apart
  <2>1. epochs = 2 /\ ~ behind => Past(db[sw.to].live)
    BY <1>1 DEF Rest, Counted
  <2>. QED
    BY <1>1, <1>2, <2>1, SwitchRest DEF SwitchStep
<1>3. CASE SwitchEnds("err") /\ apart' = (apart \/ imageRoot' # manifest)
  <2>1. Live' = Live /\ ImagesHere' = ImagesHere
    BY <1>1, SameDb, SameImages
  <2>2. (~ behind => ~ stale) /\ (~ apart => ~ stale)
    BY DEF Rest, Matched
  <2>. QED
    BY <1>1, <1>3, <2>1, <2>2, EndRest DEF SwitchEnds, SwitchSteady, Steady, Half, SplitHere, LowHere
<1>. QED
  BY <1>2, <1>3 DEF Rebase

LEMMA RemoveOldRest == IInv /\ Rest /\ RemoveOld => Rest'
<1> SUFFICES ASSUME IInv, Rest, RemoveOld PROVE Rest'
  OBVIOUS
<1>1. /\ sw.pc = "removeOld" /\ owner = "switch" /\ SwitchSteady /\ imp.pc \in {"idle", "wait"}
      /\ SwitchEnds("ok") /\ UNCHANGED <<manifest, pool, imageRoot, epochs, apart>>
      /\ manifest = sw.to /\ imageRoot = sw.to /\ sw.from # sw.to
      /\ sw.from \in Dirs /\ sw.to \in Dirs /\ imp' \in {imp, Unstaged(imp)}
  BY SwitchHolds, SwitchTypes
     DEF IInv, TypeOK, ProgramType, Control, RemoveOld, SwitchAt, Rest, Installed
<1>2. db'[sw.to] = db[sw.to] /\ images'[sw.to] = images[sw.to]
  <2>1. db' \in {db, Put(db, sw.from, NoDbs)} /\ images' \in {images, Put(images, sw.from, NoImages)}
    BY DEF RemoveOld
  <2>. QED
    BY <1>1, <2>1, DbValues, ImageValues DEF IInv, TypeOK, DiskType
<1>3. Live' = Live /\ ImagesHere' = ImagesHere
  BY <1>1, <1>2 DEF Live, ImagesHere
<1>4. (~ behind => ~ stale) /\ (~ apart => ~ stale)
  BY DEF Rest, Matched
<1>. QED
  BY <1>1, <1>3, <1>4, EndRest DEF SwitchEnds, SwitchSteady, Steady, Half, SplitHere, LowHere

-----------------------------------------------------------------------------
(* Captures, backups, deaths and starts.                                   *)
LEMMA NoneRest ==
    ASSUME IInv, Rest, owner = "none", owner' = "none",
           imp' = imp \/ imp' = NoImport, sw' = sw \/ sw' = NoSwitch
    PROVE  /\ Installed' /\ Undoing' /\ imp.pc \in {"idle", "wait"} /\ sw.pc \in {"idle", "wait"}
           /\ imp'.pc \in {"idle", "wait"} /\ sw'.pc \in {"idle", "wait"}
<1>1. imp.pc \in {"idle", "wait"} /\ sw.pc \in {"idle", "wait"}
  BY DEF IInv, Control
<1>2. imp'.pc \in {"idle", "wait"} /\ sw'.pc \in {"idle", "wait"}
  BY <1>1, NoneValues
<1>3. imp'.staged \in {{}, imp'.backup.images}
  BY DEF Rest, Installed, NoImport
<1>. QED
  BY <1>1, <1>2, <1>3 DEF Installed, Undoing, NewIn, AfterMove, UndoStep, UndoDbStep

LEMMA CaptureNumbers ==
    ASSUME TypeOK, Capture, Past(Live)
    PROVE  Past(Live)'
<1>1. PICK d \in Live :
        /\ db' = PutLive(db, manifest, {[d EXCEPT !.rows = @ \cup {captured'}, !.counter = @ + 1]})
        /\ issued' = [issued EXCEPT ![d.epoch] = Larger(d.counter + 1, @)]
  BY DEF Capture
<1>2. manifest \in Dirs /\ db \in DbDisk /\ manifest' = manifest /\ issued \in [Epoch -> Nat]
  BY DEF TypeOK, DiskType, HistoryType, Capture
<1>3. Live' = {[d EXCEPT !.rows = @ \cup {captured'}, !.counter = @ + 1]} /\ d \in Db
  BY <1>1, <1>2, DbValues, DbGet, Places DEF Live
<1>4. [d EXCEPT !.rows = @ \cup {captured'}, !.counter = @ + 1].counter = d.counter + 1
  BY <1>3 DEF Db
<1>5. \A e \in Epoch : d.counter + 1 >= issued'[e]
  <2> SUFFICES ASSUME NEW e \in Epoch PROVE d.counter + 1 >= issued'[e]
    OBVIOUS
  <2>1. d.counter \in Nat /\ d.epoch \in Epoch /\ issued[e] \in Nat /\ d.counter >= issued[e]
    BY <1>2, <1>3, DbFields DEF Past, Beyond
  <2>2. CASE e = d.epoch
    BY <1>1, <1>2, <2>1, <2>2 DEF Larger
  <2>3. CASE e # d.epoch
    BY <1>1, <1>2, <2>1, <2>3
  <2>. QED
    BY <2>2, <2>3
<1>. QED
  BY <1>3, <1>4, <1>5 DEF Past, Beyond

LEMMA CapturePairs ==
    ASSUME TypeOK, Capture, imageRoot = manifest, RowsOf(Live) \subseteq UNION ImagesHere.live
    PROVE  RowsOf(Live') \subseteq UNION ImagesHere'.live
<1>1. PICK d \in Live :
        db' = PutLive(db, manifest, {[d EXCEPT !.rows = @ \cup {captured'}, !.counter = @ + 1]})
  BY DEF Capture
<1>2. manifest \in Dirs /\ db \in DbDisk /\ images \in ImageDisk /\ manifest' = manifest
  BY DEF TypeOK, DiskType, Capture
<1>3. Live' = {[d EXCEPT !.rows = @ \cup {captured'}, !.counter = @ + 1]} /\ d \in Db /\ Live = {d}
  BY <1>1, <1>2, DbValues, DbGet, Places DEF Live
<1>4. [d EXCEPT !.rows = @ \cup {captured'}, !.counter = @ + 1].rows = d.rows \cup {captured'}
  BY <1>3 DEF Db
<1>5. RowsOf(Live) = d.rows /\ RowsOf(Live') = d.rows \cup {captured'}
  <2>1. \A e : RowsOf({e}) = e.rows
    BY DEF RowsOf
  <2>. QED
    BY <2>1, <1>3, <1>4
<1>6. ImagesHere'.live = {(UNION ImagesHere.live) \cup {captured'}}
  BY <1>2, ImageValues DEF ImagesHere, Capture
<1>. QED
  BY <1>5, <1>6

LEMMA CaptureRest == IInv /\ Rest /\ Capture => Rest'
<1> SUFFICES ASSUME IInv, Rest, Capture PROVE Rest'
  OBVIOUS
<1>1. /\ owner = "none" /\ pool = "open"
      /\ UNCHANGED <<manifest, settings, exports, pool, imageRoot, owner, imp, sw, epochs>>
      /\ UNCHANGED <<before, trouble, stale, apart, split, behind>>
  BY DEF Capture, progVars
<1>2. Installed' /\ Undoing' /\ imp.pc \in {"idle", "wait"} /\ sw.pc \in {"idle", "wait"}
  BY <1>1, NoneRest
<1>3. Matched'
  <2>1. ~ apart /\ ~ split => RowsOf(Live') \subseteq UNION ImagesHere'.live
    BY <1>1, <1>2, CapturePairs DEF IInv, Rest, Matched
  <2>. QED
    BY <1>1, <1>2, <2>1 DEF Rest, Matched, UndoHalf
<1>4. Counted'
  <2>1. epochs = 2 /\ ~ behind => Past(Live)'
    BY <1>1, CaptureNumbers DEF IInv, Rest, Counted
  <2>. QED
    BY <1>1, <1>2, <2>1 DEF Rest, Counted, BeforeMove, NewIn, AfterMove, UndoDbStep
<1>. QED
  BY <1>2, <1>3, <1>4 DEF Rest

LEMMA ExportRest == IInv /\ Rest /\ Export => Rest'
<1> SUFFICES ASSUME IInv, Rest, Export PROVE Rest'
  OBVIOUS
<1>1. /\ owner = "none" /\ exports' = {[db |-> Live, images |-> ImagesHere.live]}
      /\ UNCHANGED <<db, images, manifest, settings, pool, imageRoot, owner, imp, sw, epochs>>
      /\ UNCHANGED <<issued, before, trouble, stale, apart, split, behind>>
  BY DEF Export, progVars, countVars, ghosts
<1>2. Installed' /\ Undoing' /\ imp.pc \in {"idle", "wait"} /\ sw.pc \in {"idle", "wait"}
  BY <1>1, NoneRest
<1>3. Live' = Live /\ ImagesHere' = ImagesHere
  BY <1>1, SameDb, SameImages
<1>4. Matched'
  BY <1>1, <1>2, <1>3 DEF Rest, Matched, UndoHalf
<1>5. Counted'
  BY <1>1, <1>2, <1>3 DEF Rest, Counted, Past, Beyond, BeforeMove, NewIn, AfterMove, UndoDbStep
<1>. QED
  BY <1>2, <1>4, <1>5 DEF Rest

LEMMA CrashRest == IInv /\ Rest /\ Crash => Rest'
<1> SUFFICES ASSUME IInv, Rest, Crash PROVE Rest'
  OBVIOUS
<1>1. /\ owner' = "none" /\ imp' = NoImport /\ sw' = NoSwitch /\ pool' = "down"
      /\ UNCHANGED <<db, images, manifest, settings, exports, imageRoot, epochs>>
      /\ UNCHANGED <<issued, stale, apart>> /\ CutHere
  BY DEF Crash, diskVars
<1>2. Live' = Live /\ ImagesHere' = ImagesHere
  BY <1>1, SameDb, SameImages
<1>3. (~ behind => ~ stale) /\ (~ apart => ~ stale)
  BY DEF Rest, Matched
<1>4. CASE owner # "none"
  BY <1>1, <1>2, <1>3, <1>4, EndRest DEF CutHere, LowHere
<1>5. CASE owner = "none"
  <2>1. /\ Installed' /\ Undoing' /\ imp'.pc \in {"idle", "wait"} /\ sw'.pc \in {"idle", "wait"}
        /\ sw.pc \in {"idle", "wait"}
    BY <1>1, <1>5, NoneRest
  <2>2. (~ split' => ~ split) /\ (~ behind' => ~ behind)
    BY <1>1, <1>5 DEF IInv, Control, CutHere, SplitHere
  <2>3. Matched'
    BY <1>1, <1>2, <1>5, <2>1, <2>2 DEF Rest, Matched, UndoHalf
  <2>4. Counted'
    BY <1>1, <1>2, <1>5, <2>1, <2>2
       DEF Rest, Counted, Past, Beyond, BeforeMove, NewIn, AfterMove, UndoDbStep
  <2>. QED
    BY <2>1, <2>3, <2>4 DEF Rest
<1>. QED
  BY <1>4, <1>5

LEMMA StartRest == IInv /\ Rest /\ Start => Rest'
<1> SUFFICES ASSUME IInv, Rest, Start PROVE Rest'
  OBVIOUS
<1>1. /\ pool = "down" /\ imageRoot' = manifest /\ OpenDb(db, manifest)
      /\ UNCHANGED <<images, manifest, settings, exports, owner, imp, sw>>
      /\ UNCHANGED <<issued, before, trouble, stale, apart, split, behind>>
  BY DEF Start, ghosts
<1>2. owner = "none"
  BY <1>1 DEF IInv, TypeOK, ProgramType, Control
<1>3. Installed' /\ Undoing' /\ imp.pc \in {"idle", "wait"} /\ sw.pc \in {"idle", "wait"}
  BY <1>1, <1>2, NoneRest
<1>4. RowsOf(Live') = RowsOf(Live) /\ ImagesHere' = ImagesHere
  BY <1>1, OpenRows, SameImages DEF IInv, TypeOK, DiskType, Live
<1>5. epochs' >= 2 /\ (epochs' = 2 => Live' = Live /\ epochs = 2)
  BY <1>1, OpenSame DEF IInv, TypeOK, CountType, Epoch, Rest, Counted, Live
<1>6. Matched'
  BY <1>1, <1>2, <1>3, <1>4 DEF Rest, Matched, UndoHalf
<1>7. Counted'
  BY <1>1, <1>2, <1>3, <1>5 DEF Rest, Counted, Past, Beyond, BeforeMove, NewIn, AfterMove, UndoDbStep
<1>. QED
  BY <1>3, <1>6, <1>7 DEF Rest

LEMMA InitRest == Init => Rest
<1> SUFFICES ASSUME Init PROVE Rest
  OBVIOUS
<1>1. Live = {Fresh(1)} /\ ImagesHere = NoImages
  BY DEF Init, Live, ImagesHere, NoDbs
<1>2. RowsOf(Live) = {} /\ Past(Live)
  BY <1>1 DEF Init, RowsOf, Fresh, Past, Beyond
<1>4. Installed /\ Undoing
  BY DEF Init, Installed, Undoing, NoImport, NoSwitch, NewIn, AfterMove, UndoStep, UndoDbStep
<1>5. Matched
  BY <1>2 DEF Init, Matched, UndoHalf, NoImport, NoSwitch
<1>6. Counted
  BY <1>2
     DEF Init, Counted, NoImport, NoSwitch, BeforeMove, NewIn, AfterMove, UndoDbStep
<1>. QED
  BY <1>4, <1>5, <1>6 DEF Rest

LEMMA NextRest == IInv /\ Rest /\ [Next]_vars => Rest'
<1> SUFFICES ASSUME IInv, Rest, [Next]_vars PROVE Rest'
  OBVIOUS
<1>1. CASE ImportNext
  BY <1>1, ImportBeginRest, ImportLockRest, StageDatabaseRest, ReadCounterRest, RemovePreviousRest,
     MoveAsideRest, MoveInRest, OpenNewRest, ResetRest, DropOldImagesRest, ImagesAsideRest,
     InstallImagesRest, ReplaceSettingsRest, CommitRest, UndoImagesRest, RestoreImagesRest,
     UndoDbRest, RestoreDbRest, ReopenRest, GiveUpRest
     DEF ImportNext
<1>2. CASE SwitchNext
  BY <1>2, SwitchBeginRest, SwitchLockRest, CopyRest, PointRest, OpenThereRest, UnpointRest,
     CleanRest, OpenBackRest, RebaseRest, RemoveOldRest
     DEF SwitchNext
<1>3. CASE Capture \/ Export \/ Crash \/ Start
  BY <1>3, CaptureRest, ExportRest, CrashRest, StartRest
<1>4. CASE UNCHANGED vars
  <2>1. UNCHANGED <<imp, sw, owner, pool, db, images, manifest, settings, exports, imageRoot>>
        /\ UNCHANGED <<epochs, issued, before, trouble, stale, apart, split, behind>>
    BY <1>4 DEF vars, diskVars, progVars, countVars, ghosts
  <2>2. Live' = Live /\ Previous' = Previous /\ Staged' = Staged /\ ImagesHere' = ImagesHere
    BY <2>1, SameDb, SameImages
  <2>3. Installed' /\ Undoing' /\ Matched'
    BY <2>1, <2>2 DEF Rest, Installed, Undoing, Matched, UndoHalf, Half
  <2>4. Counted'
    BY <2>1, <2>2 DEF Rest, Counted, Past, Beyond
  <2>. QED
    BY <2>3, <2>4 DEF Rest
<1>. QED
  BY <1>1, <1>2, <1>3, <1>4 DEF Next


-----------------------------------------------------------------------------
(***************************************************************************)
(* How the operations end.                                                 *)
(***************************************************************************)
LEMMA CommitEnds == IInv /\ Rest /\ Commit => Completed
<1> SUFFICES ASSUME IInv, Rest, Commit PROVE Completed
  OBVIOUS
<1>1. imp.pc = "commit" /\ owner = "import" /\ pool' = "open" /\ UNCHANGED <<settings, manifest>>
  BY ImportHolds DEF IInv, Commit, ImportAt, ImportSteady
<1>2. Live' = Live /\ ImagesHere'.live = ImagesHere.live
  <2>1. db' \in {db, PutPrevious(db, manifest, {})} /\ images' \in {images, PutPrevious(images, manifest, {})}
    BY DEF Commit
  <2>. QED
    BY <1>1, <2>1, DbValues, ImageValues DEF IInv, TypeOK, DiskType, Live, ImagesHere
<1>3. /\ RowsOf(Live) = RowsOf(imp.backup.db)
      /\ imp.backup.images # {} => ImagesHere.live = imp.backup.images
      /\ imp.withSettings => settings = "backup"
  BY <1>1 DEF Rest, Installed, NewIn, AfterMove
<1>. QED
  BY <1>1, <1>2, <1>3 DEF Completed

(* A switch moves no `.previous`, so it never finds one it cannot remove.  *)
SwitchClear == owner = "switch" => ~ stale

LEMMA RemoveOldEnds == IInv /\ Rest /\ SwitchClear /\ RemoveOld => Completed
<1> SUFFICES ASSUME IInv, Rest, SwitchClear, RemoveOld PROVE Completed
  OBVIOUS
<1>1. /\ sw.pc = "removeOld" /\ owner = "switch" /\ ~ stale
      /\ UNCHANGED <<manifest, pool, imageRoot>>
      /\ manifest = sw.to /\ imageRoot = sw.to /\ pool = "open" /\ sw.from # sw.to
      /\ sw.from \in Dirs /\ sw.to \in Dirs
  BY SwitchHolds, SwitchTypes
     DEF IInv, TypeOK, ProgramType, Control, RemoveOld, SwitchAt, Rest, Installed, SwitchClear
<1>2. db'[sw.to] = db[sw.to] /\ images'[sw.to] = images[sw.to]
  <2>1. db' \in {db, Put(db, sw.from, NoDbs)} /\ images' \in {images, Put(images, sw.from, NoImages)}
    BY DEF RemoveOld
  <2>. QED
    BY <1>1, <2>1, DbValues, ImageValues DEF IInv, TypeOK, DiskType
<1>3. before.rows = RowsOf(Live') /\ before.images = UNION ImagesHere'.live
  BY <1>1, <1>2 DEF IInv, Kept, SwitchKept, RowsIn, ImagesIn, Live, ImagesHere
<1>. QED
  BY <1>1, <1>3 DEF Completed

(* Only these two steps report success.                                    *)
LEMMA OnlyTheseSucceed ==
    ASSUME [Next]_vars, report = "running", report' = "ok"
    PROVE  Commit \/ RemoveOld
<1>1. CASE ImportNext
  BY <1>1
     DEF ImportNext, ImportBegin, ImportLock, StageDatabase, ReadCounter, RemovePrevious, MoveAside,
         MoveIn, OpenNew, Reset, DropOldImages, ImagesAside, InstallImages, ReplaceSettings,
         UndoImages, RestoreImages, UndoDb, RestoreDb, Reopen, GiveUp, ImportEnds, Underway,
         SwapSteady, UndoSteady, ghosts
<1>2. CASE SwitchNext
  BY <1>2
     DEF SwitchNext, SwitchBegin, SwitchLock, Copy, Point, OpenThere, Unpoint, Clean, OpenBack,
         Rebase, SwitchEnds, Underway, ghosts
<1>3. CASE Capture \/ Export \/ Crash \/ Start
  BY <1>3 DEF Capture, Export, Crash, Start, ghosts
<1>4. CASE UNCHANGED vars
  BY <1>4 DEF vars, ghosts
<1>. QED
  BY <1>1, <1>2, <1>3, <1>4 DEF Next

LEMMA ClearStays == IInv /\ SwitchClear /\ [Next]_vars => SwitchClear'
<1> SUFFICES ASSUME IInv, SwitchClear, [Next]_vars, owner' = "switch" PROVE ~ stale'
  BY DEF SwitchClear
<1>1. CASE ImportBegin
  BY <1>1 DEF SwitchClear, ImportBegin, ghosts
<1>2. CASE ImportNext /\ ~ ImportBegin
  <2>1. CASE ImportLock
    BY <2>1 DEF ImportLock
  <2>2. CASE ~ ImportLock
    <3>1. imp.pc \notin {"idle", "wait"}
      BY <1>2, <2>2
         DEF ImportNext, ImportLock, StageDatabase, ReadCounter, RemovePrevious, MoveAside,
             MoveIn, OpenNew, Reset, DropOldImages, ImagesAside, InstallImages, ReplaceSettings,
             Commit, UndoImages, RestoreImages, UndoDb, RestoreDb, Reopen, GiveUp, ImportAt
    <3>2. owner = "import"
      BY <3>1, ImportHolds DEF IInv
    <3>3. owner' \in {owner, "none"}
      BY <1>2, <2>2
         DEF ImportNext, StageDatabase, ReadCounter, RemovePrevious, MoveAside,
             MoveIn, OpenNew, Reset, DropOldImages, ImagesAside, InstallImages, ReplaceSettings,
             Commit, UndoImages, RestoreImages, UndoDb, RestoreDb, Reopen, GiveUp, ImportEnds,
             Underway, SwapSteady, UndoSteady
    <3>. QED
      BY <3>2, <3>3
  <2>. QED
    BY <2>1, <2>2
<1>3. CASE SwitchNext
  <2>1. CASE SwitchBegin
    BY <2>1 DEF SwitchClear, SwitchBegin, ghosts
  <2>2. CASE SwitchLock
    BY <2>2 DEF SwitchLock
  <2>3. CASE ~ SwitchBegin /\ ~ SwitchLock
    <3>1. sw.pc \notin {"idle", "wait"} /\ SwitchSteady
      BY <1>3, <2>3
         DEF SwitchNext, Copy, Point, OpenThere, Unpoint, Clean, OpenBack, Rebase, RemoveOld,
             SwitchAt
    <3>. QED
      BY <3>1, SwitchHolds DEF IInv, SwitchClear, SwitchSteady
  <2>. QED
    BY <2>1, <2>2, <2>3
<1>4. CASE Capture \/ Export \/ Crash \/ Start
  BY <1>4 DEF SwitchClear, Capture, Export, Crash, Start, progVars, ghosts
<1>5. CASE UNCHANGED vars
  BY <1>5 DEF SwitchClear, vars, progVars, ghosts
<1>. QED
  BY <1>1, <1>2, <1>3, <1>4, <1>5 DEF Next

(* A failing step leaves one failure, so a second one is one too many.     *)
LEMMA SecondFailure == IInv /\ trouble >= 1 /\ Fails => ~ (trouble' <= 1)
BY DEF IInv, TypeOK, HistoryType, Fails

(* The data is what the operation began with.                              *)
AsBefore ==
    /\ settings = before.settings
    /\ before.rows = RowsOf(Live)
    /\ before.images = UNION ImagesHere.live

LEMMA StageDatabaseUndone ==
    IInv /\ Rest /\ ~ stale /\ StageDatabase => AsBefore' /\ pool' = before'.pool
<1> SUFFICES ASSUME IInv, Rest, ~ stale, StageDatabase PROVE AsBefore' /\ pool' = before'.pool
  OBVIOUS
<1>1. imp.pc = "stage" /\ owner = "import" /\ UNCHANGED <<images, settings, pool, manifest, before>>
  BY ImportHolds DEF IInv, StageDatabase, ImportAt, ImportSteady
<1>2. Live' = Live
  <2>1. \E left : db' = PutStaged(db, manifest, left)
    BY DEF StageDatabase
  <2>. QED
    BY <1>1, <2>1, DbValues DEF IInv, TypeOK, DiskType, Live
<1>3. RowsHere /\ ImagesLive /\ settings = before.settings /\ pool = before.pool
  BY <1>1 DEF IInv, Control, Kept, ImportKept, BeforeMove, BeforeChange, Rest, Undoing
<1>. QED
  BY <1>1, <1>2, <1>3, SameImages DEF AsBefore, RowsHere, ImagesLive

LEMMA ReadCounterUndone ==
    IInv /\ Rest /\ ~ stale /\ ReadCounter /\ report' # report => AsBefore' /\ pool' = before'.pool
<1> SUFFICES ASSUME IInv, Rest, ~ stale, ReadCounter, report' # report
             PROVE  AsBefore' /\ pool' = before'.pool
  OBVIOUS
<1>1. /\ imp.pc = "counter" /\ owner = "import"
      /\ UNCHANGED <<db, images, settings, manifest, before, pool>>
  BY ImportHolds DEF IInv, ReadCounter, ImportAt, ImportSteady, Underway
<1>2. RowsHere /\ ImagesLive /\ settings = before.settings /\ pool = before.pool
  BY <1>1 DEF IInv, Control, Kept, ImportKept, BeforeMove, BeforeChange, Rest, Undoing
<1>. QED
  BY <1>1, <1>2, SameDb, SameImages DEF AsBefore, RowsHere, ImagesLive

LEMMA ReopenUndone == IInv /\ Rest /\ ~ stale /\ Reopen => AsBefore' /\ pool' = "open"
<1> SUFFICES ASSUME IInv, Rest, ~ stale, Reopen PROVE AsBefore' /\ pool' = "open"
  OBVIOUS
<1>1. /\ imp.pc = "reopen" /\ owner = "import" /\ pool' = "open"
      /\ UNCHANGED <<images, settings, manifest, before>>
  BY ImportHolds DEF IInv, Reopen, ImportAt, ImportSteady
<1>2. PICK f \in {db, PutStaged(db, manifest, {})} : OpenDb(f, manifest)
  BY DEF Reopen
<1>3. f \in DbDisk /\ f[manifest].live = Live /\ manifest \in Dirs
  <2>1. manifest \in Dirs /\ db \in DbDisk
    BY DEF IInv, TypeOK, DiskType
  <2>2. LET g == PutStaged(db, manifest, {}) IN g \in DbDisk /\ g[manifest].live = Live
    BY <2>1, DbClear, DbValues DEF Live
  <2>. QED
    BY <2>1, <2>2 DEF Live
<1>4. RowsOf(Live') = RowsOf(Live)
  BY <1>1, <1>2, <1>3, OpenRows DEF Live
<1>5. RowsHere /\ ImagesLive /\ settings = before.settings
  BY <1>1 DEF IInv, Kept, ImportKept, Rest, Undoing
<1>. QED
  BY <1>1, <1>4, <1>5, SameImages DEF AsBefore, RowsHere, ImagesLive

LEMMA GiveUpUndone == IInv /\ Rest /\ GiveUp => ~ (trouble' <= 1)
<1> SUFFICES ASSUME IInv, Rest, GiveUp PROVE ~ (trouble' <= 1)
  OBVIOUS
<1>1. imp.pc \in UndoStep /\ Fails
  BY DEF GiveUp, ImportAt, UndoStep, UndoDbStep
<1>. QED
  BY <1>1, SecondFailure DEF Rest, Undoing

LEMMA UnpointUndone ==
    IInv /\ Rest /\ ~ stale /\ Unpoint /\ report' # report => AsBefore' /\ ~ (trouble' <= 1)
<1> SUFFICES ASSUME IInv, Rest, ~ stale, Unpoint, report' # report
             PROVE  AsBefore' /\ ~ (trouble' <= 1)
  OBVIOUS
<1>1. /\ sw.pc = "unpoint" /\ owner = "switch" /\ Fails /\ manifest \in {sw.from, sw.to}
      /\ UNCHANGED <<db, images, manifest, settings, before>>
  BY SwitchHolds DEF IInv, Control, Unpoint, SwitchAt, SwitchSteady, Underway
<1>2. RowsIn(manifest) /\ ImagesIn(manifest) /\ settings = before.settings
  BY <1>1 DEF IInv, Kept, Control, SwitchKept, Rest, Undoing
<1>3. AsBefore'
  BY <1>1, <1>2, SameDb, SameImages DEF AsBefore, RowsIn, ImagesIn, Live, ImagesHere
<1>. QED
  BY <1>1, <1>3, SecondFailure DEF Rest, Undoing

LEMMA OpenBackUndone ==
    IInv /\ Rest /\ ~ stale /\ OpenBack => AsBefore' /\ (trouble' <= 1 => pool' = "open")
<1> SUFFICES ASSUME IInv, Rest, ~ stale, OpenBack
             PROVE  AsBefore' /\ (trouble' <= 1 => pool' = "open")
  OBVIOUS
<1>1. /\ sw.pc = "reopen" /\ owner = "switch" /\ manifest = sw.from /\ trouble >= 1
      /\ UNCHANGED <<images, manifest, settings, before>>
  BY SwitchHolds DEF IInv, Control, OpenBack, SwitchAt, SwitchSteady, Rest, Undoing
<1>2. RowsOf(Live') = RowsOf(Live)
  <2>1. CASE OpenDb(db, manifest)
    BY <1>1, <2>1, OpenRows DEF IInv, TypeOK, DiskType, Live
  <2>2. CASE UNCHANGED db
    BY <1>1, <2>2, SameDb
  <2>. QED
    BY <2>1, <2>2 DEF OpenBack
<1>3. RowsIn(manifest) /\ ImagesIn(manifest) /\ settings = before.settings
  BY <1>1 DEF IInv, Kept, Control, SwitchKept, Rest, Undoing
<1>4. AsBefore'
  BY <1>1, <1>2, <1>3, SameImages DEF AsBefore, RowsIn, ImagesIn, Live, ImagesHere
<1>. QED
  BY <1>1, <1>4, SecondFailure DEF OpenBack

LEMMA RebaseUndone == IInv /\ Rest /\ ~ stale /\ Rebase => AsBefore' /\ pool' = "open"
<1> SUFFICES ASSUME IInv, Rest, ~ stale, Rebase PROVE AsBefore' /\ pool' = "open"
  OBVIOUS
<1>1. /\ sw.pc = "rebase" /\ owner = "switch" /\ manifest = sw.to /\ pool = "open"
      /\ UNCHANGED <<db, images, manifest, pool, settings, before>>
  BY SwitchHolds DEF IInv, Control, Rebase, SwitchAt, SwitchSteady, Rest, Installed
<1>2. RowsIn(manifest) /\ ImagesIn(manifest) /\ settings = before.settings
  BY <1>1 DEF IInv, Kept, Control, SwitchKept, Rest, Undoing
<1>. QED
  BY <1>1, <1>2, SameDb, SameImages DEF AsBefore, RowsIn, ImagesIn, Live, ImagesHere

(* Only these steps report an error.                                       *)
LEMMA OnlyTheseFail ==
    ASSUME [Next]_vars, report = "running", report' = "err"
    PROVE  \/ StageDatabase \/ ReadCounter \/ Reopen \/ GiveUp
           \/ Unpoint \/ OpenBack \/ Rebase
<1>1. CASE ImportNext
  BY <1>1
     DEF ImportNext, ImportBegin, ImportLock, RemovePrevious, MoveAside, MoveIn, OpenNew, Reset,
         DropOldImages, ImagesAside, InstallImages, ReplaceSettings, Commit, UndoImages,
         RestoreImages, UndoDb, RestoreDb, ImportEnds, Underway, SwapSteady, UndoSteady, ghosts
<1>2. CASE SwitchNext
  BY <1>2
     DEF SwitchNext, SwitchBegin, SwitchLock, Copy, Point, OpenThere, Clean, RemoveOld, SwitchEnds,
         Underway, ghosts
<1>3. CASE Capture \/ Export \/ Crash \/ Start
  BY <1>3 DEF Capture, Export, Crash, Start, ghosts
<1>4. CASE UNCHANGED vars
  BY <1>4 DEF vars, ghosts
<1>. QED
  BY <1>1, <1>2, <1>3, <1>4 DEF Next

(* None of them finds a `.previous`: that is a step of the swap.           *)
LEMMA FailingLeavesStale ==
    ASSUME \/ StageDatabase \/ ReadCounter \/ Reopen \/ GiveUp
           \/ Unpoint \/ OpenBack \/ Rebase
    PROVE  stale' = stale
BY DEF StageDatabase, ReadCounter, Reopen, GiveUp, Unpoint, OpenBack, Rebase, SwitchSteady

LEMMA NextCompletes == IInv /\ Rest /\ SwitchClear /\ [Next]_vars => Completed
<1> SUFFICES ASSUME IInv, Rest, SwitchClear, [Next]_vars PROVE Completed
  OBVIOUS
<1>1. CASE report = "running" /\ report' = "ok"
  BY <1>1, OnlyTheseSucceed, CommitEnds, RemoveOldEnds
<1>2. CASE ~ (report = "running" /\ report' = "ok")
  BY <1>2 DEF Completed
<1>. QED
  BY <1>1, <1>2

LEMMA NextRestores == IInv /\ Rest /\ [Next]_vars => (~ stale' => FailureUndone)
<1> SUFFICES ASSUME IInv, Rest, [Next]_vars, ~ stale', report = "running", report' = "err",
                    trouble' <= 1, before.pool = "open"
             PROVE  Restored'
  BY DEF FailureUndone
<1>1. /\ ~ stale
      /\ \/ StageDatabase \/ ReadCounter \/ Reopen \/ GiveUp
         \/ Unpoint \/ OpenBack \/ Rebase
  BY OnlyTheseFail, FailingLeavesStale
<1>2. AsBefore' /\ pool' \in {"open", before'.pool}
  BY <1>1, StageDatabaseUndone, ReadCounterUndone, ReopenUndone, GiveUpUndone, UnpointUndone,
     OpenBackUndone, RebaseUndone
<1>3. before' = before
  BY <1>1
     DEF StageDatabase, ReadCounter, Reopen, GiveUp, Unpoint, OpenBack, Rebase, ImportSteady,
         SwitchSteady
<1>. QED
  BY <1>2, <1>3 DEF AsBefore, Restored

-----------------------------------------------------------------------------
(***************************************************************************)
(* Every step is one of DataReplace, or a stutter.                         *)
(***************************************************************************)

(* Images are put aside for a backup that has some.                        *)
WithImages ==
    (imp.changed \/ imp.pc \in {"dropOldImages", "imagesAside"}) => imp.backup.images # {}

LEMMA UndoFromValues == \A c : UndoFrom(c) \in {"undoImages", "undoDb", "reopen"}
BY DEF UndoFrom

LEMMA WithImagesStays == IInv /\ WithImages /\ [Next]_vars => WithImages'
<1> SUFFICES ASSUME IInv, WithImages, [Next]_vars PROVE WithImages'
  OBVIOUS
<1> imp \in Import
  BY DEF IInv, TypeOK, ProgramType
<1>1. CASE imp' \in {imp, Unstaged(imp), NoImport}
  BY <1>1, ImportValues, ImportKeeps, NoneValues DEF WithImages
<1>2. CASE ImportBegin
  BY <1>2, NoneTypes DEF ImportBegin, WithImages, NoImport
<1>3. CASE Reset
  <2>1. PICK step \in ImportStep :
          /\ imp' = StepTo(imp, step)
          /\ step = "dropOldImages" => imp.backup.images # {}
          /\ step # "imagesAside"
    BY <1>3, UndoFromValues
       DEF Reset, SwapFails, ImportTo, AfterImages, ImportStep, UndoFrom
  <2>. QED
    BY <2>1, ImportValues, ImportKeeps DEF WithImages
<1>4. CASE DropOldImages \/ ReplaceSettings
  <2>1. PICK step : imp' = StepTo(imp, step) /\ (step = "imagesAside" => imp.backup.images # {})
                    /\ step # "dropOldImages"
    BY <1>4, UndoFromValues
       DEF DropOldImages, ReplaceSettings, SwapFails, ImportTo, ImportAt, WithImages
  <2>. QED
    BY <2>1, ImportValues, ImportKeeps DEF WithImages
<1>5. CASE ImagesAside
  <2>1. imp.backup.images # {} /\ Changed(imp) \in Import
    BY <1>5, ImportTypes DEF ImagesAside, ImportAt, WithImages
  <2>2. imp'.backup = imp.backup
    BY <1>5, <2>1, ImportKeeps DEF ImagesAside, SwapFails, ImportTo
  <2>. QED
    BY <2>1, <2>2 DEF WithImages
<1>6. CASE InstallImages
  <2>1. Unstaged(imp) \in Import
    BY ImportTypes
  <2>2. PICK i, step :
          /\ i \in {imp, Unstaged(imp)}
          /\ imp' = StepTo(i, step) /\ step \notin {"dropOldImages", "imagesAside"}
    <3>1. CASE imp' = StepTo(Unstaged(imp), AfterImages)
      BY <3>1 DEF AfterImages
    <3>2. CASE \E c : imp' = StepTo(imp, UndoFrom(c))
      BY <3>2, UndoFromValues
    <3>. QED
      BY <1>6, <3>1, <3>2 DEF InstallImages, SwapFails, ImportTo
  <2>3. imp'.backup = imp.backup /\ imp'.changed = imp.changed /\ imp'.pc = step
    BY <2>1, <2>2, ImportValues, ImportKeeps
  <2>. QED
    BY <2>2, <2>3 DEF WithImages
<1>7. CASE ReadCounter
  <2>1. \A n \in Nat : Numbered(imp, n) \in Import
    BY ImportTypes
  <2>2. \A d \in Live : d.counter \in Nat
    BY DbGet, DbFields, Places DEF IInv, TypeOK, DiskType, Live
  <2>3. CASE imp' = NoImport
    BY <1>1, <2>3
  <2>4. CASE \E d \in Live : imp' = StepTo(Numbered(imp, d.counter), "removePrevious")
    BY <2>1, <2>2, <2>4, ImportValues, ImportKeeps DEF WithImages
  <2>. QED
    BY <1>7, <2>3, <2>4 DEF ReadCounter, ImportEnds
<1>8. CASE \/ ImportLock \/ StageDatabase \/ RemovePrevious \/ MoveAside \/ MoveIn \/ OpenNew
           \/ UndoImages \/ RestoreImages \/ UndoDb \/ RestoreDb
  <2>1. CASE imp' = NoImport
    BY <1>1, <2>1
  <2>2. CASE \E c : imp' = StepTo(imp, UndoFrom(c))
    BY <2>2, UndoFromValues, ImportValues, ImportKeeps DEF WithImages
  <2>3. CASE \E step \in ImportStep \ {"dropOldImages", "imagesAside"} : imp' = StepTo(imp, step)
    BY <2>3, ImportValues, ImportKeeps DEF WithImages
  <2>4. CASE ImportLock \/ UndoImages \/ UndoDb \/ RestoreDb \/ StageDatabase
    BY <2>1, <2>3, <2>4
       DEF ImportLock, UndoImages, UndoDb, RestoreDb, StageDatabase, ImportTo, ImportEnds,
           ImportStep
  <2>5. CASE RemovePrevious \/ MoveAside \/ MoveIn \/ OpenNew
    <3>1. SwapFails \/ \E step \in {"moveAside", "moveIn", "open", "reset"} : ImportTo(step)
      BY <2>5 DEF RemovePrevious, MoveAside, MoveIn, OpenNew
    <3>. QED
      BY <2>2, <2>3, <3>1 DEF SwapFails, ImportTo, ImportStep
  <2>6. CASE RestoreImages
    BY <2>2, <2>6 DEF RestoreImages, ImportTo
  <2>. QED
    BY <1>8, <2>4, <2>5, <2>6
<1>9. CASE Commit \/ Reopen \/ GiveUp
  BY <1>1, <1>9 DEF Commit, Reopen, GiveUp, ImportEnds
<1>10. CASE SwitchNext
  BY <1>1, <1>10
     DEF SwitchNext, SwitchBegin, SwitchLock, Copy, Point, OpenThere, Unpoint, Clean, OpenBack,
         Rebase, RemoveOld
<1>11. CASE Capture \/ Export \/ Crash \/ Start
  BY <1>1, <1>11 DEF Capture, Export, Crash, Start, progVars
<1>12. CASE UNCHANGED vars
  BY <1>1, <1>12 DEF vars, progVars
<1>. QED
  BY <1>2, <1>3, <1>4, <1>5, <1>6, <1>7, <1>8, <1>9, <1>10, <1>11, <1>12 DEF Next, ImportNext

(* The promise is torn while an operation runs, and stays so.              *)
LEMMA Tearing == IInv /\ [Next]_vars /\ apart' => apart \/ owner # "none"
<1> SUFFICES ASSUME IInv, [Next]_vars, apart', owner = "none" PROVE apart
  OBVIOUS
<1>1. imp.pc \in {"idle", "wait"} /\ sw.pc \in {"idle", "wait"}
  BY DEF IInv, Control
<1>2. CASE ImportBegin \/ ImportLock \/ SwitchBegin \/ SwitchLock
  BY <1>2 DEF ImportBegin, ImportLock, SwitchBegin, SwitchLock, ghosts
<1>3. CASE ImportNext /\ ~ ImportBegin /\ ~ ImportLock
  BY <1>1, <1>3
     DEF ImportNext, StageDatabase, ReadCounter, RemovePrevious, MoveAside, MoveIn, OpenNew, Reset,
         DropOldImages, ImagesAside, InstallImages, ReplaceSettings, Commit, UndoImages,
         RestoreImages, UndoDb, RestoreDb, Reopen, GiveUp, ImportAt
<1>4. CASE SwitchNext /\ ~ SwitchBegin /\ ~ SwitchLock
  BY <1>1, <1>4
     DEF SwitchNext, Copy, Point, OpenThere, Unpoint, Clean, OpenBack, Rebase, RemoveOld, SwitchAt
<1>5. CASE Capture \/ Export \/ Crash \/ Start
  BY <1>1, <1>5 DEF Capture, Export, Crash, Start, ghosts, Half
<1>6. CASE UNCHANGED vars
  BY <1>6 DEF vars, ghosts
<1>. QED
  BY <1>2, <1>3, <1>4, <1>5, <1>6 DEF Next

LEMMA TornStays == [Next]_vars /\ apart => apart'
<1> SUFFICES ASSUME [Next]_vars, apart PROVE apart'
  OBVIOUS
<1>1. CASE ImportNext
  BY <1>1
     DEF ImportNext, ImportBegin, ImportLock, StageDatabase, ReadCounter, RemovePrevious, MoveAside,
         MoveIn, OpenNew, Reset, DropOldImages, ImagesAside, InstallImages, ReplaceSettings, Commit,
         UndoImages, RestoreImages, UndoDb, RestoreDb, Reopen, GiveUp, UndoSteady, ghosts
<1>2. CASE SwitchNext
  BY <1>2
     DEF SwitchNext, SwitchBegin, SwitchLock, Copy, Point, OpenThere, Unpoint, Clean, OpenBack,
         Rebase, RemoveOld, ghosts
<1>3. CASE Capture \/ Export \/ Crash \/ Start
  BY <1>3 DEF Capture, Export, Crash, Start, ghosts
<1>4. CASE UNCHANGED vars
  BY <1>4 DEF vars, ghosts
<1>. QED
  BY <1>1, <1>2, <1>3, <1>4 DEF Next

(* An import that is about to commit has replaced the settings, or not.    *)
SettingsDone == imp.pc = "commit" => settings \in {before.settings, "backup"}

LEMMA SettingsStay == IInv /\ Rest /\ SettingsDone /\ [Next]_vars => SettingsDone'
<1> SUFFICES ASSUME IInv, Rest, SettingsDone, [Next]_vars, imp'.pc = "commit"
             PROVE  settings' \in {before'.settings, "backup"}
  BY DEF SettingsDone
<1> imp \in Import
  BY DEF IInv, TypeOK, ProgramType
<1>1. CASE imp.pc = "commit" /\ UNCHANGED <<settings, before>>
  BY <1>1 DEF SettingsDone
<1>2. CASE imp.pc \notin {"idle", "wait", "commit"} /\ UNCHANGED before
           /\ (UNCHANGED settings \/ settings' = "backup")
  BY <1>2, ImportHolds DEF IInv, Rest, Undoing
<1>3. CASE imp' \in {imp, Unstaged(imp), NoImport} /\ UNCHANGED <<settings, before>>
  BY <1>1, <1>3, ImportValues, NoneValues
<1>4. CASE ImportLock \/ ImportBegin \/ Commit
  <2>1. CASE ImportLock \/ Commit
    BY <2>1, ImportValues, NoneValues DEF ImportLock, Commit, ImportTo, ImportEnds
  <2>2. CASE ImportBegin
    BY <2>2 DEF ImportBegin, NoImport
  <2>. QED
    BY <1>4, <2>1, <2>2
<1>5. CASE ImportNext /\ ~ ImportLock /\ ~ ImportBegin /\ ~ Commit
  <2>1. imp.pc \notin {"idle", "wait", "commit"}
    BY <1>5
       DEF ImportNext, StageDatabase, ReadCounter, RemovePrevious, MoveAside, MoveIn, OpenNew, Reset,
           DropOldImages, ImagesAside, InstallImages, ReplaceSettings, UndoImages, RestoreImages,
           UndoDb, RestoreDb, Reopen, GiveUp, ImportAt
  <2>2. UNCHANGED before
    BY <1>5
       DEF ImportNext, StageDatabase, ReadCounter, RemovePrevious, MoveAside, MoveIn, OpenNew, Reset,
           DropOldImages, ImagesAside, InstallImages, ReplaceSettings, UndoImages, RestoreImages,
           UndoDb, RestoreDb, Reopen, GiveUp, ImportSteady, SwapSteady, UndoSteady
  <2>3. UNCHANGED settings \/ settings' = "backup"
    BY <1>5
       DEF ImportNext, StageDatabase, ReadCounter, RemovePrevious, MoveAside, MoveIn, OpenNew, Reset,
           DropOldImages, ImagesAside, InstallImages, ReplaceSettings, UndoImages, RestoreImages,
           UndoDb, RestoreDb, Reopen, GiveUp, SwapFails, UndoSteady
  <2>. QED
    BY <1>2, <2>1, <2>2, <2>3
<1>6. CASE SwitchLock
  <2>1. imp' = imp /\ imp.pc \in {"idle", "wait"}
    BY <1>6 DEF SwitchLock, IInv, Control
  <2>. QED
    BY <2>1
<1>7. CASE SwitchNext /\ ~ SwitchLock
  BY <1>3, <1>7
     DEF SwitchNext, SwitchBegin, Copy, Point, OpenThere, Unpoint, Clean, OpenBack, Rebase,
         RemoveOld, SwitchSteady, diskVars, ghosts
<1>8. CASE Capture \/ Export \/ Crash \/ Start \/ UNCHANGED vars
  BY <1>3, <1>8 DEF Capture, Export, Crash, Start, vars, progVars, diskVars, ghosts
<1>. QED
  BY <1>4, <1>5, <1>6, <1>7, <1>8 DEF Next

(* The rollback that puts images back finds the backup's, or none.         *)
HalfImages == imp.pc = "undoImages" => ImagesHere.live \in {{}, imp.backup.images}

LEMMA HalfImagesStay == IInv /\ Rest /\ WithImages /\ HalfImages /\ [Next]_vars => HalfImages'
<1> SUFFICES ASSUME IInv, Rest, WithImages, HalfImages, [Next]_vars, imp'.pc = "undoImages"
             PROVE  ImagesHere'.live \in {{}, imp'.backup.images}
  BY DEF HalfImages
<1> imp \in Import /\ Unstaged(imp) \in Import /\ Changed(imp) \in Import
  BY ImportTypes DEF IInv, TypeOK, ProgramType
<1>1. CASE imp' = imp /\ UNCHANGED <<images, manifest>>
  BY <1>1, SameImages DEF HalfImages
<1>2. CASE imp' = NoImport
  BY <1>2, NoneValues
<1>3. CASE \E step \in ImportStep \ {"undoImages"} : imp' = StepTo(imp, step)
  BY <1>3, ImportValues
<1>4. CASE imp' = StepTo(imp, UndoFrom(imp.changed)) /\ UNCHANGED <<images, manifest>>
           /\ imp.pc \in BeforeChange
  <2>1. ~ imp.changed
    BY <1>4 DEF IInv, Control
  <2>. QED
    BY <1>4, <2>1, ImportValues, UndoSteps DEF UndoFrom
<1>5. CASE InstallImages \/ ReplaceSettings
  <2>1. CASE imp' \in {StepTo(Unstaged(imp), AfterImages), StepTo(imp, "commit")}
    BY <2>1, ImportValues DEF AfterImages, ImportStep
  <2>2. CASE (\E c \in BOOLEAN : imp' = StepTo(imp, UndoFrom(c))) /\ UNCHANGED images
    <3>1. UNCHANGED manifest /\ imp'.backup = imp.backup
      <4>1. UNCHANGED manifest
        BY <1>5 DEF InstallImages, ReplaceSettings, SwapSteady, ImportSteady
      <4>2. imp'.backup = imp.backup
        BY <2>2, ImportKeeps
      <4>. QED
        BY <4>1, <4>2
    <3>2. ImagesHere' = ImagesHere
      BY <2>2, <3>1, SameImages
    <3>3. CASE imp.pc = "installImages"
      BY <3>2, <3>3 DEF Rest, Installed
    <3>4. CASE imp.pc = "settings"
      <4>1. imp.changed
        BY <1>5, <2>2, <3>4, ImportValues, UndoSteps
           DEF InstallImages, ReplaceSettings, ImportAt, SwapFails, ImportTo, UndoFrom
      <4>2. imp.backup.images # {}
        BY <4>1 DEF WithImages
      <4>. QED
        BY <3>1, <3>2, <3>4, <4>2 DEF Rest, Installed
    <3>. QED
      BY <1>5, <3>3, <3>4 DEF InstallImages, ReplaceSettings, ImportAt
  <2>. QED
    BY <1>5, <2>1, <2>2
       DEF InstallImages, ReplaceSettings, SwapFails, ImportTo, IInv, TypeOK, ProgramType, Import
<1>6. CASE ImportBegin
  BY <1>6 DEF ImportBegin, NoImport
<1>7. CASE ReadCounter
  <2>1. \A d \in Live : Numbered(imp, d.counter) \in Import
    BY DbGet, DbFields, Places, ImportTypes DEF IInv, TypeOK, DiskType, Live
  <2>2. CASE \E d \in Live : imp' = StepTo(Numbered(imp, d.counter), "removePrevious")
    BY <2>1, <2>2, ImportValues DEF ImportStep
  <2>. QED
    BY <1>2, <1>7, <2>2 DEF ReadCounter, ImportEnds
<1>8. CASE ImagesAside
  <2>1. CASE imp' = StepTo(Changed(imp), "installImages")
    BY <2>1, ImportValues DEF ImportStep
  <2>. QED
    BY <1>4, <1>8, <2>1
       DEF ImagesAside, SwapFails, ImportTo, ImportAt, BeforeChange, SwapSteady, ImportSteady
<1>9. CASE RemovePrevious \/ MoveAside \/ MoveIn \/ OpenNew \/ DropOldImages \/ Reset
  BY <1>3, <1>4, <1>9
     DEF RemovePrevious, MoveAside, MoveIn, OpenNew, DropOldImages, Reset, SwapFails, ImportTo,
         ImportAt, BeforeChange, BeforeMove, SwapSteady, ImportSteady, AfterImages, ImportStep
<1>10. CASE RestoreImages
  <2>1. UndoFrom(FALSE) \in ImportStep \ {"undoImages"}
    BY DEF UndoFrom, ImportStep
  <2>. QED
    BY <1>3, <1>10, <2>1 DEF RestoreImages, ImportTo
<1>11. CASE \/ ImportLock \/ StageDatabase \/ UndoImages \/ UndoDb \/ RestoreDb
            \/ Commit \/ Reopen \/ GiveUp
  BY <1>2, <1>3, <1>11
     DEF ImportLock, StageDatabase, UndoImages, UndoDb, RestoreDb, Commit, Reopen, GiveUp, ImportTo,
         ImportEnds, ImportStep
<1>12. CASE SwitchNext
  <2>1. imp.pc = "undoImages"
    <3>1. imp' \in {imp, Unstaged(imp)}
      BY <1>12
         DEF SwitchNext, SwitchBegin, SwitchLock, Copy, Point, OpenThere, Unpoint, Clean, OpenBack,
             Rebase, RemoveOld
    <3>. QED
      BY <3>1, ImportValues
  <2>2. owner = "import" /\ sw.pc \in {"idle", "wait"}
    BY <2>1, ImportHolds DEF IInv, Control
  <2>3. SwitchBegin
    BY <1>12, <2>2
       DEF SwitchNext, SwitchLock, Copy, Point, OpenThere, Unpoint, Clean, OpenBack, Rebase,
           RemoveOld, SwitchAt
  <2>. QED
    BY <1>1, <2>3 DEF SwitchBegin, diskVars
<1>13. CASE Capture \/ Start
  <2>1. imp.pc \in {"idle", "wait"} /\ imp' = imp
    BY <1>13 DEF Capture, Start, progVars, IInv, Control
  <2>. QED
    BY <2>1
<1>14. CASE Export \/ Crash \/ UNCHANGED vars
  BY <1>1, <1>2, <1>14 DEF Export, Crash, vars, progVars, diskVars
<1>. QED
  BY <1>5, <1>6, <1>7, <1>8, <1>9, <1>10, <1>11, <1>12, <1>13, <1>14 DEF Next, ImportNext

(* What an operation leaves when it stops: all of the old data, no row,    *)
(* all of the new, or in Half the new rows with one of three images.       *)
Taken ==
    /\ RowsOf(Live) = RowsOf(imp.backup.db)
    /\ UNION ImagesHere.live =
         IF imp.backup.images = {} THEN before.images ELSE UNION imp.backup.images
    /\ settings \in {before.settings, "backup"}
Gone == RowsOf(Live) = {} /\ ImagesLive /\ settings = before.settings
Mixed ==
    /\ RowsOf(Live) = RowsOf(imp.backup.db)
    /\ UNION ImagesHere.live \in {before.images, UNION imp.backup.images, {}}
    /\ settings = before.settings

LEMMA Leaves ==
    ASSUME IInv, Rest, WithImages, SettingsDone, HalfImages, ~ apart, owner # "none"
    PROVE  /\ ~ Half => AsBefore \/ Gone \/ (imp.pc \in {"settings", "commit"} /\ Taken)
           /\ Half => Mixed
           /\ imp.pc \in {"settings", "commit"} => Taken
           /\ owner = "switch" => AsBefore
<1>1. ~ stale
  BY DEF Rest, Matched
<1>2. imp.pc # "commit" => settings = before.settings
  BY DEF Rest, Undoing
<1>3. CASE owner = "import"
  <2>1. imp.pc \in ImportStep \ {"idle", "wait"}
    BY <1>3 DEF IInv, TypeOK, ProgramType, Import, Control
  <2>2. CASE imp.pc \in BeforeMove \cup {"reopen"}
    <3>1. RowsHere /\ ImagesLive
      BY <1>1, <1>3, <2>2
         DEF IInv, Kept, Control, ImportKept, BeforeChange, BeforeMove, UndoDbStep
    <3>. QED
      BY <1>2, <1>3, <2>2, <3>1 DEF AsBefore, RowsHere, ImagesLive, BeforeMove, Half
  <2>3. CASE imp.pc \in {"moveIn", "restoreDb"} \/ (imp.pc = "undoDb" /\ Live = {})
    <3>1. Live = {} /\ ImagesLive
      BY <1>1, <1>3, <2>3 DEF IInv, Kept, Control, ImportKept, BeforeChange, UndoDbStep
    <3>. QED
      BY <1>2, <1>3, <2>3, <3>1, NoRows DEF Gone, Half
  <2>4. CASE imp.pc \in {"settings", "commit"}
    <3>1. RowsOf(Live) = RowsOf(imp.backup.db)
      BY <2>4 DEF Rest, Installed, NewIn, AfterMove
    <3>2. settings \in {before.settings, "backup"}
      BY <1>2, <2>4 DEF SettingsDone
    <3>3. Taken
      <4>1. CASE imp.backup.images # {}
        <5>1. ImagesHere.live = imp.backup.images
          BY <2>4, <4>1 DEF Rest, Installed
        <5>. QED
          BY <3>1, <3>2, <4>1, <5>1 DEF Taken
      <4>2. CASE imp.backup.images = {}
        <5>1. ~ imp.changed
          BY <4>2 DEF WithImages
        <5>2. ImagesLive
          BY <1>1, <1>3, <2>4, <5>1 DEF IInv, Kept, ImportKept
        <5>. QED
          BY <3>1, <3>2, <4>2, <5>2 DEF Taken, ImagesLive
      <4>. QED
        BY <4>1, <4>2
    <3>. QED
      BY <1>3, <2>4, <3>3 DEF Half
  <2>5. CASE Half
    <3>1. RowsOf(Live) = RowsOf(imp.backup.db)
      <4>1. CASE UndoHalf
        BY <4>1 DEF Rest, Matched
      <4>2. CASE imp.pc \in NewIn
        BY <4>2 DEF Rest, Installed
      <4>. QED
        BY <2>5, <4>1, <4>2 DEF Half, UndoHalf, NewIn, AfterMove
    <3>2. CASE imp.pc \in {"open", "reset", "dropOldImages", "imagesAside", "undoDb"}
      <4>1. ImagesLive
        BY <1>1, <1>3, <3>2
           DEF IInv, Kept, Control, ImportKept, BeforeChange, BeforeMove, UndoDbStep
      <4>. QED
        BY <1>2, <1>3, <2>5, <3>1, <3>2, <4>1 DEF Mixed, ImagesLive
    <3>3. CASE imp.pc \in {"installImages", "undoImages", "restoreImages"}
      <4>1. ImagesHere.live \in {{}, imp.backup.images}
        BY <1>1, <1>3, <3>3 DEF IInv, Kept, ImportKept, HalfImages, Rest, Installed
      <4>. QED
        BY <1>2, <1>3, <2>5, <3>1, <3>3, <4>1, NoRows DEF Mixed
    <3>. QED
      BY <1>3, <2>5, <3>2, <3>3 DEF Half
  <2>. QED
    BY <1>3, <2>1, <2>2, <2>3, <2>4, <2>5 DEF Half, ImportStep, BeforeMove
<1>4. CASE owner = "switch"
  <2>1. sw.pc \in SwitchStep \ {"idle", "wait"} /\ imp.pc \in {"idle", "wait"}
    BY <1>4 DEF IInv, TypeOK, ProgramType, Switch, Control
  <2>2. RowsIn(manifest) /\ ImagesIn(manifest)
    BY <1>1, <1>4, <2>1 DEF IInv, Kept, Control, SwitchKept, SwitchStep
  <2>. QED
    BY <1>2, <1>4, <2>1, <2>2 DEF RowsIn, ImagesIn, Live, ImagesHere, AsBefore, Half
<1>. QED
  BY <1>3, <1>4 DEF IInv, TypeOK, ProgramType

(* All that is inductive.                                                  *)
Sound == IInv /\ Rest /\ SwitchClear /\ WithImages /\ SettingsDone /\ HalfImages

-----------------------------------------------------------------------------
(***************************************************************************)
(* One lemma per action of DataReplace: what a step of the swap shows when *)
(* it is that action.                                                      *)
(***************************************************************************)
LEMMA FewerBackups ==
    ASSUME exports' \subseteq exports, imp'.backup \in exports \cup {Foreign, imp.backup}
    PROVE  {Packed(b) : b \in exports' \cup {Foreign, imp'.backup}}
             \subseteq {Packed(b) : b \in exports \cup {Foreign, imp.backup}}
OBVIOUS

LEMMA ShowsDiscard ==
    ASSUME UNCHANGED <<owner, report, before, apart, split, exports>>,
           imp'.backup \in exports \cup {Foreign, imp.backup},
           report = "running" \/ trouble' = trouble,
           owner = "none" => /\ RowsOf(Live') = RowsOf(Live) /\ settings' = settings
                             /\ UNION ImagesHere'.live = UNION ImagesHere.live
    PROVE  Replacing!Discard /\ UNCHANGED apart
<1>1. Seen(before.rows, RowsOf(Live))' = Seen(before.rows, RowsOf(Live))
  BY DEF Seen
<1>2. Seen(before.images, UNION ImagesHere.live)' = Seen(before.images, UNION ImagesHere.live)
  BY DEF Seen
<1>3. Seen(before.settings, settings)' = Seen(before.settings, settings)
  BY DEF Seen
<1>. QED
  BY <1>1, <1>2, <1>3, FewerBackups DEF Replacing!Discard, Replacing!data

LEMMA ShowsBegin ==
    ASSUME owner = "none", report # "running", owner' # "none", report' = "running",
           before'.rows = RowsOf(Live), before'.images = UNION ImagesHere.live,
           before'.settings = settings,
           UNCHANGED <<exports, apart, split>>, imp'.backup = imp.backup
    PROVE  Replacing!Begin /\ UNCHANGED apart
<1>1. Seen(before.rows, RowsOf(Live))' = Seen(before.rows, RowsOf(Live))
  BY DEF Seen
<1>2. Seen(before.images, UNION ImagesHere.live)' = Seen(before.images, UNION ImagesHere.live)
  BY DEF Seen
<1>3. Seen(before.settings, settings)' = Seen(before.settings, settings)
  BY DEF Seen
<1>. QED
  BY <1>1, <1>2, <1>3 DEF Replacing!Begin, Replacing!Running, Replacing!data

(* An operation that ends shows the data that lies there.                  *)
LEMMA EndSees ==
    ASSUME owner # "none", owner' = "none"
    PROVE  /\ Seen(before.rows, RowsOf(Live)) = before.rows
           /\ Seen(before.images, UNION ImagesHere.live) = before.images
           /\ Seen(before.settings, settings) = before.settings
           /\ Seen(before.rows, RowsOf(Live))' = RowsOf(Live')
           /\ Seen(before.images, UNION ImagesHere.live)' = UNION ImagesHere'.live
           /\ Seen(before.settings, settings)' = settings'
BY DEF Seen

LEMMA ShowsMove ==
    ASSUME owner # "none", owner' = "none", report = "running", report' = "ok",
           RowsOf(Live') = before.rows, UNION ImagesHere'.live = before.images,
           settings' = before.settings,
           UNCHANGED <<exports, apart, split>>, imp'.backup = imp.backup
    PROVE  Replacing!Move /\ UNCHANGED apart
BY EndSees DEF Replacing!Move, Replacing!Ends, Replacing!Running, Replacing!data

LEMMA ShowsFail ==
    ASSUME owner # "none", owner' = "none", report = "running", report' = "err",
           RowsOf(Live') = before.rows, UNION ImagesHere'.live = before.images,
           settings' = before.settings,
           UNCHANGED <<exports, apart, split>>, imp'.backup \in exports \cup {Foreign, imp.backup}
    PROVE  (Replacing!Fail \/ Replacing!CutShort) /\ UNCHANGED apart
<1>1. CASE trouble' > 1
  <2>1. Replacing!Ends("gaveUp")
    BY <1>1 DEF Replacing!Ends, Replacing!Running
  <2>. QED
    BY <2>1, EndSees, FewerBackups DEF Replacing!CutShort, Replacing!data
<1>2. CASE ~ (trouble' > 1)
  <2>1. Replacing!Ends("err")
    BY <1>2 DEF Replacing!Ends, Replacing!Running
  <2>. QED
    BY <2>1, EndSees, FewerBackups DEF Replacing!Fail, Replacing!data
<1>. QED
  BY <1>1, <1>2

(* What is Taken is what the abstract operation loads.                     *)
LEMMA ShowsLoads ==
    ASSUME owner # "none", owner' = "none", Taken, RowsOf(Live') = RowsOf(Live),
           UNION ImagesHere'.live = UNION ImagesHere.live, UNCHANGED settings,
           split' = ~ WholeBackup(imp.backup)
    PROVE  /\ \E b \in {Packed(b) : b \in exports \cup {Foreign, imp.backup}} : Replacing!Loads(b)
           /\ Seen(before.settings, settings)'
                \in {Seen(before.settings, settings), "backup"}
<1>1. Replacing!Loads(Packed(imp.backup))
  <2>1. /\ Packed(imp.backup).rows = RowsOf(imp.backup.db)
        /\ Packed(imp.backup).images = imp.backup.images
    BY DEF Packed
  <2>2. Seen(before.rows, RowsOf(Live))' = Packed(imp.backup).rows
    BY <2>1, EndSees DEF Taken
  <2>3. Seen(before.images, UNION ImagesHere.live)' =
          IF Packed(imp.backup).images = {} THEN Seen(before.images, UNION ImagesHere.live)
                                            ELSE UNION Packed(imp.backup).images
    BY <2>1, EndSees DEF Taken
  <2>4. split' = ~ Replacing!WholeBackup(Packed(imp.backup))
    BY <2>1 DEF WholeBackup, Replacing!WholeBackup
  <2>. QED
    BY <2>2, <2>3, <2>4 DEF Replacing!Loads
<1>2. Packed(imp.backup) \in {Packed(b) : b \in exports \cup {Foreign, imp.backup}}
  OBVIOUS
<1>3. Seen(before.settings, settings)' \in {Seen(before.settings, settings), "backup"}
  BY EndSees DEF Taken
<1>. QED
  BY <1>1, <1>2, <1>3

LEMMA ShowsReplace ==
    ASSUME owner # "none", owner' = "none", report = "running", report' = "ok",
           Taken, RowsOf(Live') = RowsOf(Live),
           UNION ImagesHere'.live = UNION ImagesHere.live,
           UNCHANGED <<settings, exports, apart>>, split' = ~ WholeBackup(imp.backup),
           imp'.backup \in exports \cup {Foreign, imp.backup}
    PROVE  Replacing!Replace /\ UNCHANGED apart
<1>1. Replacing!Ends("ok")
  BY DEF Replacing!Ends, Replacing!Running
<1>. QED
  BY <1>1, ShowsLoads, FewerBackups DEF Replacing!Replace

(* What is Mixed is half done in the abstract.                             *)
LEMMA ShowsMixes ==
    ASSUME owner # "none", owner' = "none", Mixed, RowsOf(Live') = RowsOf(Live),
           UNION ImagesHere'.live = UNION ImagesHere.live, UNCHANGED settings, split' = TRUE
    PROVE  \E b \in {Packed(b) : b \in exports \cup {Foreign, imp.backup}} : Replacing!Mixes(b)
<1>1. /\ Packed(imp.backup).rows = RowsOf(imp.backup.db)
      /\ Packed(imp.backup).images = imp.backup.images
  BY DEF Packed
<1>2. Seen(before.rows, RowsOf(Live))' = Packed(imp.backup).rows
  BY <1>1, EndSees DEF Mixed
<1>3. Seen(before.images, UNION ImagesHere.live)'
        \in {Seen(before.images, UNION ImagesHere.live), UNION Packed(imp.backup).images, {}}
  BY <1>1, EndSees DEF Mixed
<1>4. Seen(before.settings, settings)' = Seen(before.settings, settings)
  BY EndSees DEF Mixed
<1>5. Replacing!Mixes(Packed(imp.backup))
  BY <1>2, <1>3, <1>4 DEF Replacing!Mixes
<1>. QED
  BY <1>5

LEMMA ShowsCutShort ==
    ASSUME Sound, ~ apart, owner # "none", owner' = "none", report = "running",
           report' = "cut" \/ (report' = "err" /\ trouble' > 1),
           split' = SplitHere, RowsOf(Live') = RowsOf(Live),
           UNION ImagesHere'.live = UNION ImagesHere.live,
           UNCHANGED <<settings, exports, apart>>,
           imp'.backup \in exports \cup {Foreign, imp.backup}
    PROVE  Replacing!CutShort /\ UNCHANGED apart
<1>1. Replacing!Ends("cut") \/ Replacing!Ends("gaveUp")
  BY DEF Replacing!Ends, Replacing!Running
<1>2. CASE imp.pc \in {"settings", "commit"}
  <2>1. Taken /\ split' = ~ WholeBackup(imp.backup)
    BY <1>2, Leaves DEF Sound, SplitHere
  <2>. QED
    BY <1>1, <2>1, ShowsLoads, FewerBackups DEF Replacing!CutShort
<1>3. CASE imp.pc \notin {"settings", "commit"} /\ ~ Half
  <2>1. AsBefore \/ Gone
    BY <1>3, Leaves DEF Sound
  <2>2. UNCHANGED split
    BY <1>3 DEF SplitHere, Sound, IInv, TypeOK, HistoryType
  <2>3. CASE AsBefore
    BY <1>1, <2>2, <2>3, EndSees, FewerBackups DEF Replacing!CutShort, Replacing!data, AsBefore
  <2>4. CASE Gone
    BY <1>1, <2>2, <2>4, EndSees, FewerBackups
       DEF Replacing!CutShort, Replacing!data, Gone, ImagesLive
  <2>. QED
    BY <2>1, <2>3, <2>4
<1>4. CASE imp.pc \notin {"settings", "commit"} /\ Half
  <2>1. Mixed /\ split' = TRUE
    BY <1>4, Leaves DEF Sound, SplitHere
  <2>. QED
    BY <1>1, <2>1, ShowsMixes, FewerBackups DEF Replacing!CutShort
<1>. QED
  BY <1>2, <1>3, <1>4

-----------------------------------------------------------------------------
(***************************************************************************)
(* Which step of the swap is which action.                                 *)
(***************************************************************************)
LEMMA BackupStays ==
    IInv /\ [Next]_vars /\ ~ ImportBegin => imp'.backup \in {imp.backup, Foreign}
<1> SUFFICES ASSUME IInv, [Next]_vars, ~ ImportBegin PROVE imp'.backup \in {imp.backup, Foreign}
  OBVIOUS
<1> imp \in Import /\ Unstaged(imp) \in Import /\ Changed(imp) \in Import
  BY ImportTypes DEF IInv, TypeOK, ProgramType
<1>1. CASE imp' \in {imp, NoImport, Unstaged(imp)}
  BY <1>1, ImportKeeps DEF NoImport
<1>2. CASE \E step : imp' \in {StepTo(imp, step), StepTo(Changed(imp), step),
                               StepTo(Unstaged(imp), step)}
  BY <1>2, ImportKeeps
<1>3. CASE ReadCounter
  <2>1. \A d \in Live : Numbered(imp, d.counter) \in Import
    BY DbGet, DbFields, Places, ImportTypes DEF IInv, TypeOK, DiskType, Live
  <2>2. CASE \E d \in Live : imp' = StepTo(Numbered(imp, d.counter), "removePrevious")
    BY <2>1, <2>2, ImportKeeps
  <2>. QED
    BY <1>1, <1>3, <2>2 DEF ReadCounter, ImportEnds
<1>4. CASE \/ ImportLock \/ StageDatabase \/ RemovePrevious \/ MoveAside \/ MoveIn \/ OpenNew \/ Reset
           \/ DropOldImages \/ ReplaceSettings \/ UndoImages \/ RestoreImages \/ UndoDb \/ RestoreDb
  BY <1>1, <1>2, <1>4
     DEF ImportLock, StageDatabase, RemovePrevious, MoveAside, MoveIn, OpenNew, Reset, DropOldImages,
         ReplaceSettings, UndoImages, RestoreImages, UndoDb, RestoreDb, SwapFails, ImportTo,
         ImportEnds
<1>5. CASE ImagesAside \/ InstallImages
  BY <1>2, <1>5 DEF ImagesAside, InstallImages, SwapFails, ImportTo
<1>6. CASE Commit \/ Reopen \/ GiveUp
  BY <1>1, <1>6 DEF Commit, Reopen, GiveUp, ImportEnds
<1>7. CASE SwitchNext
  BY <1>1, <1>7
     DEF SwitchNext, SwitchBegin, SwitchLock, Copy, Point, OpenThere, Unpoint, Clean, OpenBack,
         Rebase, RemoveOld
<1>8. CASE Capture \/ Export \/ Crash \/ Start \/ UNCHANGED vars
  BY <1>1, <1>8 DEF Capture, Export, Crash, Start, vars, progVars
<1>. QED
  BY <1>3, <1>4, <1>5, <1>6, <1>7, <1>8 DEF Next, ImportNext

LEMMA BeginsReplace ==
    ASSUME IInv, ImportBegin \/ ImportLock \/ SwitchBegin \/ SwitchLock
    PROVE  (Replacing!Discard \/ Replacing!Begin) /\ UNCHANGED apart
<1>1. CASE ImportBegin
  <2>1. imp'.backup \in exports \cup {Foreign}
    <3>1. PICK b \in exports \cup {Foreign}, s \in BOOLEAN :
            imp' = [NoImport EXCEPT !.pc = "wait", !.backup = b, !.withSettings = s,
                                    !.staged = b.images, !.dir = manifest]
      BY <1>1 DEF ImportBegin
    <3>. QED
      BY <3>1 DEF NoImport
  <2>2. /\ UNCHANGED <<owner, report, before, apart, split, exports, trouble, db, images, manifest, settings>>
    BY <1>1 DEF ImportBegin, diskVars, ghosts
  <2>. QED
    BY <2>1, <2>2, SameDb, SameImages, ShowsDiscard
<1>2. CASE SwitchBegin
  <2>1. UNCHANGED <<owner, report, before, apart, split, exports, trouble, db, images, manifest, settings, imp>>
    BY <1>2 DEF SwitchBegin, diskVars, ghosts
  <2>. QED
    BY <2>1, SameDb, SameImages, ShowsDiscard
<1>3. CASE ImportLock \/ SwitchLock
  <2>1. /\ owner = "none" /\ owner' # "none" /\ report' = "running"
        /\ before' = [rows |-> RowsOf(Live), images |-> UNION ImagesHere.live,
                      settings |-> settings, pool |-> pool]
        /\ UNCHANGED <<exports, apart, split>>
        /\ imp' \in {imp, StepTo(imp, "stage")}
    BY <1>3 DEF ImportLock, SwitchLock, ImportTo, diskVars
  <2>2. report # "running" /\ imp \in Import
    BY <2>1 DEF IInv, Control, TypeOK, ProgramType
  <2>. QED
    BY <2>1, <2>2, ImportKeeps, ShowsBegin
<1>. QED
  BY <1>1, <1>2, <1>3

LEMMA CaptureReplaces ==
    ASSUME IInv, Rest, ~ apart, Capture
    PROVE  Replacing!Capture /\ UNCHANGED apart
<1>1. /\ owner = "none" /\ owner' = "none" /\ pool = "open" /\ report # "running"
      /\ UNCHANGED <<manifest, settings, exports, imp, report, trouble, apart, split>>
      /\ captured' \in Row
  BY DEF Capture, progVars, IInv, Control, TypeOK, CountType, Row
<1>2. imageRoot = manifest
  BY <1>1 DEF IInv, Control, Rest, Matched
<1>3. PICK d \in Live :
        db' = PutLive(db, manifest, {[d EXCEPT !.rows = @ \cup {captured'}, !.counter = @ + 1]})
  BY DEF Capture
<1>4. manifest \in Dirs /\ db \in DbDisk /\ images \in ImageDisk
  BY DEF IInv, TypeOK, DiskType
<1>5. Live' = {[d EXCEPT !.rows = @ \cup {captured'}, !.counter = @ + 1]} /\ d \in Db /\ Live = {d}
  BY <1>1, <1>3, <1>4, DbValues, DbGet, Places DEF Live
<1>6. [d EXCEPT !.rows = @ \cup {captured'}, !.counter = @ + 1].rows = d.rows \cup {captured'}
  BY <1>5 DEF Db
<1>7. RowsOf(Live') = RowsOf(Live) \cup {captured'}
  <2>1. \A e : RowsOf({e}) = e.rows
    BY DEF RowsOf
  <2>. QED
    BY <2>1, <1>5, <1>6
<1>8. UNION ImagesHere'.live = (UNION ImagesHere.live) \cup {captured'}
  <2>1. ImagesHere'.live = {(UNION ImagesHere.live) \cup {captured'}}
    BY <1>1, <1>2, <1>4, ImageValues DEF ImagesHere, Capture
  <2>. QED
    BY <2>1
<1>9. /\ Seen(before.rows, RowsOf(Live))' = Seen(before.rows, RowsOf(Live)) \cup {captured'}
      /\ Seen(before.images, UNION ImagesHere.live)'
           = Seen(before.images, UNION ImagesHere.live) \cup {captured'}
      /\ Seen(before.settings, settings)' = Seen(before.settings, settings)
  BY <1>1, <1>7, <1>8 DEF Seen
<1>. QED
  BY <1>1, <1>9 DEF Replacing!Capture, Replacing!Running

LEMMA ExportReplaces ==
    ASSUME IInv, Export
    PROVE  Replacing!Save /\ UNCHANGED apart
<1>1. /\ owner = "none" /\ exports' = {[db |-> Live, images |-> ImagesHere.live]}
      /\ report # "running"
      /\ UNCHANGED <<owner, db, images, manifest, settings, imp, report, before, trouble, apart, split>>
  BY DEF Export, progVars, ghosts, IInv, Control
<1> DEFINE new == [db |-> Live, images |-> ImagesHere.live]
<1>2. /\ Packed(new).rows = Seen(before.rows, RowsOf(Live))
      /\ UNION Packed(new).images = Seen(before.images, UNION ImagesHere.live)
  BY <1>1 DEF Packed, Seen
<1>3. /\ {Packed(b) : b \in exports' \cup {Foreign, imp'.backup}}
           \subseteq {Packed(b) : b \in exports \cup {Foreign, imp.backup}} \cup {Packed(new)}
      /\ Packed(new) \in {Packed(b) : b \in exports' \cup {Foreign, imp'.backup}}
  BY <1>1
<1>4. /\ Seen(before.rows, RowsOf(Live))' = Seen(before.rows, RowsOf(Live))
      /\ Seen(before.images, UNION ImagesHere.live)' = Seen(before.images, UNION ImagesHere.live)
      /\ Seen(before.settings, settings)' = Seen(before.settings, settings)
  BY <1>1, SameDb, SameImages DEF Seen
<1>. QED
  BY <1>1, <1>2, <1>3, <1>4 DEF Replacing!Save, Replacing!Running, Replacing!data

LEMMA CrashReplaces ==
    ASSUME Sound, ~ apart, ~ apart', Crash
    PROVE  Replacing!Next
<1>1. /\ UNCHANGED <<db, images, manifest, settings, exports, before, trouble, apart>>
      /\ owner' = "none" /\ imp' = NoImport /\ split' = SplitHere
      /\ report' = IF owner = "none" THEN report ELSE "cut"
  BY DEF Crash, CutHere, diskVars
<1>2. imp'.backup = Foreign /\ RowsOf(Live') = RowsOf(Live) /\ ImagesHere' = ImagesHere
  BY <1>1, SameDb, SameImages DEF NoImport
<1>3. CASE owner = "none"
  <2>1. imp.pc \in {"idle", "wait"} /\ split \in BOOLEAN
    BY <1>3 DEF Sound, IInv, Control, TypeOK, HistoryType
  <2>2. UNCHANGED split
    BY <1>1, <2>1 DEF SplitHere, Half
  <2>. QED
    BY <1>1, <1>2, <1>3, <2>2, ShowsDiscard DEF Replacing!Next
<1>4. CASE owner # "none"
  <2>1. report = "running"
    BY <1>4 DEF Sound, IInv, Control
  <2>. QED
    BY <1>1, <1>2, <1>4, <2>1, ShowsCutShort DEF Replacing!Next
<1>. QED
  BY <1>3, <1>4

LEMMA StartReplaces ==
    ASSUME IInv, Start
    PROVE  Replacing!Discard /\ UNCHANGED apart
<1>1. /\ OpenDb(db, manifest)
      /\ UNCHANGED <<images, manifest, settings, exports, owner, imp, report, before, trouble, apart,
                  split>>
  BY DEF Start, ghosts
<1>2. RowsOf(Live') = RowsOf(Live) /\ ImagesHere' = ImagesHere
  BY <1>1, OpenRows, SameImages DEF IInv, TypeOK, DiskType, Live
<1>. QED
  BY <1>1, <1>2, ShowsDiscard

(* The steps between lock and end show nothing.                            *)
LEMMA InsideReplaces ==
    ASSUME IInv, [Next]_vars, ~ ImportBegin, UNCHANGED <<owner, report, before, apart, split, exports>>,
           report = "running"
    PROVE  Replacing!Discard /\ UNCHANGED apart
<1>1. owner # "none"
  BY DEF IInv, Control
<1>2. imp'.backup \in exports \cup {Foreign, imp.backup}
  BY BackupStays
<1>. QED
  BY <1>1, <1>2, ShowsDiscard

LEMMA CommitReplaces ==
    ASSUME Sound, ~ apart, Commit
    PROVE  Replacing!Replace /\ UNCHANGED apart
<1>1. /\ imp.pc = "commit" /\ owner = "import" /\ owner' = "none" /\ report' = "ok"
      /\ imp' = NoImport /\ UNCHANGED <<settings, manifest, exports, apart>>
      /\ split' = ~ WholeBackup(imp.backup)
  BY ImportHolds DEF Sound, IInv, Commit, SplitHere, ImportAt, ImportEnds, ImportSteady, Steady
<1>2. Live' = Live /\ ImagesHere'.live = ImagesHere.live
  <2>1. db' \in {db, PutPrevious(db, manifest, {})} /\ images' \in {images, PutPrevious(images, manifest, {})}
    BY DEF Commit
  <2>. QED
    BY <1>1, <2>1, DbValues, ImageValues DEF Sound, IInv, TypeOK, DiskType, Live, ImagesHere
<1>3. report = "running"
  BY <1>1 DEF Sound, IInv, Control
<1>4. Taken
  BY <1>1, <1>3, Leaves DEF Sound
<1>5. imp'.backup = Foreign
  BY <1>1 DEF NoImport
<1>. QED
  BY <1>1, <1>2, <1>3, <1>4, <1>5, ShowsReplace

LEMMA RemoveOldReplaces ==
    ASSUME Sound, ~ apart, RemoveOld
    PROVE  Replacing!Move /\ UNCHANGED apart
<1>1. /\ sw.pc = "removeOld" /\ owner = "switch" /\ owner' = "none" /\ report' = "ok"
      /\ imp' \in {imp, Unstaged(imp)} /\ imp.pc \in {"idle", "wait"}
      /\ UNCHANGED <<settings, manifest, before, exports, apart, split>>
  BY SwitchHolds
     DEF Sound, IInv, Control, RemoveOld, SwitchAt, SwitchEnds, SwitchSteady, Steady
<1>2. report = "running" /\ imp \in Import
  BY <1>1 DEF Sound, IInv, Control, TypeOK, ProgramType
<1>3. AsBefore
  BY <1>1, <1>2, Leaves DEF Sound
<1>4. before.rows = RowsOf(Live') /\ before.images = UNION ImagesHere'.live
  BY <1>1, <1>2, RemoveOldEnds DEF Sound, Completed
<1>5. imp'.backup = imp.backup
  BY <1>1, <1>2, ImportKeeps
<1>. QED
  BY <1>1, <1>2, <1>3, <1>4, <1>5, ShowsMove DEF AsBefore

LEMMA FailsReplaces ==
    ASSUME Sound, Sound', ~ apart, ~ apart', [Next]_vars, report = "running", report' = "err"
    PROVE  Replacing!Next
<1>1. ~ stale /\ owner # "none" /\ UNCHANGED apart
  BY DEF Sound, IInv, TypeOK, HistoryType, Control, Rest, Matched
<1>2. \/ StageDatabase \/ ReadCounter \/ Reopen \/ GiveUp
      \/ Unpoint \/ OpenBack \/ Rebase
  BY OnlyTheseFail
<1>3. /\ owner' = "none" /\ UNCHANGED <<before, exports>> /\ ~ ImportBegin
      /\ imp'.backup \in exports \cup {Foreign, imp.backup}
  <2>1. owner' = "none" /\ UNCHANGED <<before, exports>>
    BY <1>2
       DEF StageDatabase, ReadCounter, Reopen, GiveUp, Unpoint, OpenBack, Rebase, ImportEnds,
           SwitchEnds, Underway, ImportSteady, SwitchSteady, Steady
  <2>2. ~ ImportBegin
    BY DEF ImportBegin, ghosts
  <2>. QED
    BY <2>1, <2>2, BackupStays DEF Sound
<1>4. CASE ~ GiveUp
  <2>1. AsBefore'
    BY <1>1, <1>2, <1>4, StageDatabaseUndone, ReadCounterUndone, ReopenUndone, UnpointUndone,
       OpenBackUndone, RebaseUndone DEF Sound
  <2>2. UNCHANGED split
    BY <1>2, <1>4
       DEF StageDatabase, ReadCounter, Reopen, Unpoint, OpenBack, Rebase, SwitchSteady
  <2>. QED
    BY <1>1, <1>3, <2>1, <2>2, ShowsFail DEF AsBefore, Replacing!Next
<1>5. CASE GiveUp
  <2>1. split' = SplitHere /\ UNCHANGED <<db, images, manifest, settings>>
    BY <1>5 DEF GiveUp, CutHere, ImportSteady
  <2>2. trouble' > 1
    BY <1>5, GiveUpUndone DEF Sound, IInv, TypeOK, HistoryType, GiveUp, Fails
  <2>3. RowsOf(Live') = RowsOf(Live) /\ ImagesHere' = ImagesHere
    BY <2>1, SameDb, SameImages
  <2>. QED
    BY <1>1, <1>3, <2>1, <2>2, <2>3, ShowsCutShort DEF Replacing!Next
<1>. QED
  BY <1>4, <1>5

(* While an operation runs it shows nothing, or it ends.                   *)
LEMMA RunningStep ==
    ASSUME Sound, Sound', [Next]_vars, ~ ImportBegin, ~ Crash, report = "running", ~ apart, ~ apart'
    PROVE  UNCHANGED <<owner, report, before, apart, split, exports>> \/ report' \in {"ok", "err"}
<1>1. owner # "none" /\ UNCHANGED apart
  BY DEF Sound, IInv, Control, TypeOK, HistoryType
<1>2. CASE ImportNext
  BY <1>1, <1>2
     DEF ImportNext, ImportLock, StageDatabase, ReadCounter, RemovePrevious, MoveAside, MoveIn,
         OpenNew, Reset, DropOldImages, ImagesAside, InstallImages, ReplaceSettings, Commit,
         UndoImages, RestoreImages, UndoDb, RestoreDb, Reopen, GiveUp, ImportEnds, Underway,
         SwapSteady, UndoSteady, ImportSteady, Steady
<1>3. CASE SwitchNext
  BY <1>1, <1>3
     DEF SwitchNext, SwitchBegin, SwitchLock, Copy, Point, OpenThere, Unpoint, Clean, OpenBack,
         Rebase, RemoveOld, SwitchEnds, Underway, SwitchSteady, Steady, diskVars, ghosts
<1>4. CASE Capture \/ Export \/ Start \/ UNCHANGED vars
  BY <1>1, <1>4 DEF Capture, Export, Start, vars, diskVars, progVars, ghosts
<1>. QED
  BY <1>2, <1>3, <1>4 DEF Next

LEMMA StepReplaces == Sound /\ Sound' /\ [Next]_vars => [Replacing!Next]_(Replacing!vars)
<1> SUFFICES ASSUME Sound, Sound', [Next]_vars PROVE [Replacing!Next]_(Replacing!vars)
  OBVIOUS
<1>1. CASE apart'
  <2>1. apart \/ report = "running"
    BY <1>1, Tearing DEF Sound, IInv, Control
  <2>. QED
    BY <1>1, <2>1 DEF Replacing!Next, Replacing!Tear, Replacing!Running
<1>2. CASE ~ apart'
  <2>1. ~ apart
    BY <1>2, TornStays
  <2>2. CASE ImportBegin \/ ImportLock \/ SwitchBegin \/ SwitchLock
    BY <2>2, BeginsReplace DEF Sound, Replacing!Next
  <2>3. CASE Capture \/ Export \/ Start
    BY <2>1, <2>3, CaptureReplaces, ExportReplaces, StartReplaces DEF Sound, Replacing!Next
  <2>4. CASE Crash
    BY <1>2, <2>1, <2>4, CrashReplaces
  <2>5. CASE report = "running" /\ ~ ImportBegin /\ ~ Crash
    <3>1. CASE report' = "ok"
      BY <2>1, <2>5, <3>1, OnlyTheseSucceed, CommitReplaces, RemoveOldReplaces DEF Replacing!Next
    <3>2. CASE report' = "err"
      BY <1>2, <2>1, <2>5, <3>2, FailsReplaces
    <3>3. CASE UNCHANGED <<owner, report, before, apart, split, exports>>
      BY <2>5, <3>3, InsideReplaces DEF Sound, Replacing!Next
    <3>. QED
      BY <1>2, <2>1, <2>5, <3>1, <3>2, <3>3, RunningStep
  <2>6. CASE UNCHANGED vars
    <3>1. /\ UNCHANGED <<owner, report, before, apart, split, exports, imp, trouble, settings>>
          /\ UNCHANGED <<db, images, manifest>>
      BY <2>6 DEF vars, diskVars, progVars, ghosts
    <3>. QED
      BY <3>1, SameDb, SameImages, ShowsDiscard DEF Replacing!Next
  <2>7. (ImportNext \/ SwitchNext) /\ report # "running"
          => ImportBegin \/ ImportLock \/ SwitchBegin \/ SwitchLock
    <3>1. (imp.pc \in {"idle", "wait"} /\ sw.pc \in {"idle", "wait"}) \/ report = "running"
      BY DEF Sound, IInv, Control
    <3>. QED
      BY <3>1
         DEF ImportNext, StageDatabase, ReadCounter, RemovePrevious, MoveAside, MoveIn, OpenNew, Reset,
             DropOldImages, ImagesAside, InstallImages, ReplaceSettings, Commit, UndoImages,
             RestoreImages, UndoDb, RestoreDb, Reopen, GiveUp, ImportAt, SwitchNext, Copy, Point,
             OpenThere, Unpoint, Clean, OpenBack, Rebase, RemoveOld, SwitchAt
  <2>. QED
    BY <2>2, <2>3, <2>4, <2>5, <2>6, <2>7 DEF Next
<1>. QED
  BY <1>1, <1>2

LEMMA InitReplaces == Init => Replacing!Init
<1> SUFFICES ASSUME Init PROVE Replacing!Init
  OBVIOUS
<1>1. /\ manifest = Home /\ db \in DbDisk /\ images \in ImageDisk
      /\ Live = {Fresh(1)} /\ ImagesHere.live = {}
  BY InitType DEF Init, TypeOK, DiskType, Live, ImagesHere, NoDbs, NoImages
<1>2. RowsOf(Live) = {}
  BY <1>1 DEF RowsOf, Fresh
<1>3. /\ Seen(before.rows, RowsOf(Live)) = {}
      /\ Seen(before.images, UNION ImagesHere.live) = {}
      /\ Seen(before.settings, settings) = "own"
  BY <1>1, <1>2 DEF Init, Seen
<1>. QED
  BY <1>3 DEF Init, Replacing!Init
-----------------------------------------------------------------------------
(***************************************************************************)
(* The results.                                                            *)
(***************************************************************************)
(* Every state of the swap is of the declared shape: at most one database  *)
(* and one resources directory in a place, a row of each counter within    *)
(* its bound, whatever fails and whenever the process dies.                *)
THEOREM TypeCorrect == Spec => []TypeOK
<1>1. Init => TypeOK
  BY InitType
<1>2. TypeOK /\ [Next]_vars => TypeOK'
  BY NextType
<1>. QED
  BY <1>1, <1>2, PTL DEF Spec

(* What overwrite_import and switch_storage_location start from survives   *)
(* them: while they run, when they fail and when the process dies at any   *)
(* step, all rows and images are on the disk, live or under `.previous`,   *)
(* in the directory storage.json names.                                    *)
THEOREM OldDataIsKept == Spec => []OldDataKept
<1>1. IInv /\ [Next]_vars => IInv'
  BY NextType, NextKept DEF IInv
<1>. QED
  BY <1>1, InitKept, KeptMeans, PTL DEF Spec

LEMMA Inductive == Spec => []Sound
<1>1. Init => Sound
  <2>1. Init => WithImages /\ SettingsDone /\ HalfImages
    BY NoneValues DEF Init, WithImages, SettingsDone, HalfImages
  <2>. QED
    BY <2>1, InitKept, InitRest DEF Init, SwitchClear, Sound
<1>2. Sound /\ [Next]_vars => Sound'
  BY NextType, NextKept, NextRest, ClearStays, WithImagesStays, SettingsStay, HalfImagesStay
     DEF Sound, IInv
<1>. QED
  BY <1>1, <1>2, PTL DEF Spec

(* When no operation holds the locks and the pool is open, every row has   *)
(* its image where the paths of storage.json lead, whatever failed or died *)
(* before, with the exceptions RowsHaveImages lists: a death or a rollback *)
(* that stopped between the backup's database and its images (until a      *)
(* whole backup is imported), a `.previous` that came back, and images     *)
(* written elsewhere than the manifest says.                               *)
THEOREM RowsKeepImages == Spec => []RowsHaveImages
<1>1. Sound => RowsHaveImages
  BY DEF Sound, Rest, Matched, RowsHaveImages
<1>. QED
  BY <1>1, Inductive, PTL

(* While no database was lost and created anew, the counter of the live    *)
(* one is past every number given out under its epoch: reset_after_import  *)
(* carries it into the imported database, and every way back restores the  *)
(* old one (db/sync.rs).  A death of the process, or a rollback that       *)
(* stops, before MoveIn or after Reset does not change that; one between   *)
(* the two may (`behind`), and so may a `.previous` that came back.        *)
THEOREM CounterIsKept == Spec => []CounterCovers
<1>1. Sound => CounterCovers
  <2> SUFFICES ASSUME Sound, epochs = 2, owner = "none", ~ behind, NEW d \in Live
               PROVE  d.counter >= issued[d.epoch]
    BY DEF CounterCovers, NumbersNotReused
  <2>1. Past(Live)
    BY DEF Sound, Rest, Counted
  <2>2. d.epoch \in Epoch
    BY DbGet, DbFields, Places DEF Sound, IInv, TypeOK, DiskType, Live
  <2>. QED
    BY <2>1, <2>2 DEF Past, Beyond
<1>. QED
  BY <1>1, Inductive, PTL

(* An import that reports success has put the rows, images and settings of *)
(* the backup in place; a switch that does has all the old data in the new *)
(* directory, with ImageStore writing there; both leave the pool open.     *)
THEOREM SuccessMeansAll == Spec => SuccessIsComplete
<1>1. Sound /\ [Next]_vars => [Completed]_vars
  BY NextCompletes DEF Sound
<1>. QED
  BY <1>1, Inductive, PTL DEF Spec, SuccessIsComplete

(* An operation that began on an open pool and reports an error after one  *)
(* failing step has left the pool open on the rows, images and settings it *)
(* began with, unless it found a `.previous` it could not remove.          *)
THEOREM FailuresAreUndone == Spec => FailureRestores
<1>1. Sound /\ [Next]_vars => [~ stale' => FailureUndone]_vars
  BY NextRestores DEF Sound
<1>. QED
  BY <1>1, Inductive, PTL DEF Spec, FailureRestores

(* overwrite_import and switch_storage_location as coded implement         *)
(* DataReplace: one that reports success has taken effect as a whole, one  *)
(* that reports an error after one failure not at all.  One cut short by a *)
(* death of the process or by a rollback that stops leaves the old data,   *)
(* the new, no row, or the new rows with the old images, the new or none,  *)
(* and nothing else; the data is then split until a whole backup replaces  *)
(* it.  Only the mishaps of `apart` end the promise.                       *)
THEOREM ImplementsReplace == Spec => TakesEffectWhole
<1>1. Sound /\ Sound' /\ [Next]_vars => [Replacing!Next]_(Replacing!vars)
  BY StepReplaces
<1>. QED
  BY <1>1, InitReplaces, Inductive, PTL DEF Spec, TakesEffectWhole, Replacing!Spec

(* The promise of DataReplace alone, whoever keeps it, is enough: every    *)
(* row seen has its image, while an operation runs and after any number of *)
(* them succeeded or failed, unless a cut has split the data.  So only a   *)
(* death or a rollback that stops in mid-swap shows rows without images,   *)
(* and a later import of a backup with all its images ends that.           *)
THEOREM PromiseKeepsWhole == TakesEffectWhole => []Replacing!Whole
<1>1. Replacing!Init => Replacing!Whole
  BY DEF Replacing!Init, Replacing!Whole
<1>2. Replacing!Whole /\ [Replacing!Next]_(Replacing!vars) => Replacing!Whole'
  <2> SUFFICES ASSUME Replacing!Whole, [Replacing!Next]_(Replacing!vars) PROVE Replacing!Whole'
    OBVIOUS
  <2>1. CASE apart'
    BY <2>1 DEF Replacing!Whole
  <2>2. CASE UNCHANGED Replacing!vars
    BY <2>2 DEF Replacing!Whole, Replacing!vars, Replacing!data
  <2>3. CASE ~ apart' /\ Replacing!Next
    <3>1. ~ apart
      BY <2>3 DEF Replacing!Next, Replacing!Tear
    <3>2. CASE Replacing!Capture
      BY <3>1, <3>2 DEF Replacing!Whole, Replacing!Capture
    <3>3. CASE Replacing!Save
      BY <3>1, <3>3 DEF Replacing!Whole, Replacing!Save, Replacing!data
    <3>4. CASE Replacing!Discard \/ Replacing!Begin \/ Replacing!Move \/ Replacing!Fail
      BY <3>1, <3>4
         DEF Replacing!Whole, Replacing!Discard, Replacing!Begin, Replacing!Move, Replacing!Fail,
             Replacing!data
    <3>5. CASE Replacing!Replace \/ Replacing!CutShort
      BY <3>1, <3>5
         DEF Replacing!Whole, Replacing!Replace, Replacing!CutShort, Replacing!Loads,
             Replacing!Mixes, Replacing!WholeBackup, Replacing!data
    <3>. QED
      BY <2>3, <3>2, <3>3, <3>4, <3>5 DEF Replacing!Next, Replacing!Tear
  <2>. QED
    BY <2>1, <2>2, <2>3
<1>. QED
  BY <1>1, <1>2, PTL DEF TakesEffectWhole, Replacing!Spec
=============================================================================
