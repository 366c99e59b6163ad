------------------------------ MODULE DataSwap ------------------------------
(***************************************************************************)
(* The two operations that replace the database under the running program: *)
(*                                                                         *)
(*   overwrite_import          backup.rs      puts a backup in its place   *)
(*   switch_storage_location   ops/storage.rs moves everything elsewhere   *)
(*                                                                         *)
(* Both hold the capture pause, the OCR suspension, the cleanup lock and   *)
(* upsert_lock (here: `owner`) and run inside close_and_replace, so the    *)
(* old pool is closed before a file moves.  Every step on the disk may     *)
(* fail, and the process may die between any two of them.                  *)
(*                                                                         *)
(* Sidecars travel with their database; the closed pool has left none.  An *)
(* image is the row it belongs to.                                         *)
(***************************************************************************)
EXTENDS Integers, FiniteSets

CONSTANTS
    Dirs,         \* data directories
    Home,         \* the one storage.json names at first
    MaxRow,       \* bound: rows captured on this device
    MaxMishaps,   \* bound: failing steps and crashes
    MaxEpoch,     \* bound: databases ever created
    MaxOps,       \* bound: imports and switches begun
    Ops           \* operations of this instance: "import", "switch", "export"

ASSUME DirsAssumption   == Home \in Dirs
ASSUME BoundsAssumption == MaxRow \in Nat /\ MaxMishaps \in Nat /\ MaxOps \in Nat
                            /\ MaxEpoch \in Nat \ {0, 1}

Row   == 0 .. MaxRow                   \* 0: a row of another device
Epoch == 1 .. MaxEpoch                 \* 1: this database, 2: another device's
Db    == [rows : SUBSET Row, epoch : Epoch, counter : Nat]
Fresh(e) == [rows |-> {}, epoch |-> e, counter |-> 0]

(* A place on the disk holds one of these, or nothing.                     *)
Place(S) == {T \in SUBSET S : \A x, y \in T : x = y}

(* What a backup file holds; no resources directory: {}. *)
Backup  == [db : Place(Db), images : Place(SUBSET Row)]
Foreign == [db |-> {[rows |-> {0}, epoch |-> 2, counter |-> 1]}, images |-> {{0}}]

VARIABLES
    \* the disk
    db,           \* per directory: the live database, `.previous`, `.importing`
    images,       \* per directory: the resources directory, its `.previous`
    manifest,     \* storage.json, and with it CorePaths.resolved
    settings,     \* settings.json
    exports,      \* backup files to choose from
    \* the program
    pool,         \* the pool in DatabaseState; "down": not running
    imageRoot,    \* ImageStore.images_root
    owner,        \* holder of the locks
    imp,          \* the import under way
    sw,           \* the switch under way
    \* bookkeeping
    captured,     \* rows captured so far
    epochs,       \* databases created so far
    mishaps,      \* failing steps and crashes so far
    begun,        \* operations begun so far
    \* history, read by no action
    issued,       \* largest number given out, per epoch
    report,       \* how the last operation ended
    before,       \* rows that were there when its work began
    trouble,      \* mishaps of that operation
    stale,        \* it found a `.previous` it could not remove
    apart,        \* a stale database came back, or images went to another place
    split,        \* the rows were put in without their images
    behind        \* the database was put in without the counter

diskVars  == <<db, images, manifest, settings, exports>>
progVars  == <<pool, imageRoot, owner, imp, sw>>
countVars == <<captured, epochs, mishaps, begun>>
ghosts    == <<issued, report, before, trouble, stale, apart, split, behind>>
vars      == <<diskVars, progVars, countVars, ghosts>>

ImportStep ==
    { "idle", "wait", "stage", "counter", "removePrevious", "moveAside", "moveIn", "open",
      "reset", "dropOldImages", "imagesAside", "installImages", "settings", "commit",
      "undoImages", "restoreImages", "undoDb", "restoreDb", "reopen" }
SwitchStep ==
    {"idle", "wait", "copy", "point", "open", "unpoint", "clean", "reopen", "rebase", "removeOld"}

(* staged: the copied resources, in a temporary directory below dir;       *)
(* changed: resources_changed.                                             *)
Import == [pc : ImportStep, backup : Backup, withSettings : BOOLEAN,
           staged : Place(SUBSET Row), dir : Dirs, counter : Nat, changed : BOOLEAN]
NoImport == [pc |-> "idle", backup |-> Foreign, withSettings |-> FALSE,
             staged |-> {}, dir |-> Home, counter |-> 0, changed |-> FALSE]
Switch == [pc : SwitchStep, from : Dirs, to : Dirs]
NoSwitch == [pc |-> "idle", from |-> Home, to |-> Home]

NoDbs    == [live |-> {}, previous |-> {}, staged |-> {}]
NoImages == [live |-> {}, previous |-> {}]

(* A place of directory d changed; renamed aside, and back.                *)
Put(f, d, x)         == [f EXCEPT ![d] = x]
PutLive(f, d, x)     == [f EXCEPT ![d].live = x]
PutPrevious(f, d, x) == [f EXCEPT ![d].previous = x]
PutStaged(f, d, x)   == [f EXCEPT ![d].staged = x]
Aside(f, d) == PutLive(PutPrevious(f, d, f[d].live), d, {})
Back(f, d)  == PutPrevious(PutLive(f, d, f[d].previous), d, {})

StepTo(h, step) == [h EXCEPT !.pc = step]
Numbered(h, n)  == [h EXCEPT !.counter = n]
Changed(h)      == [h EXCEPT !.changed = TRUE]
Unstaged(h)     == [h EXCEPT !.staged = {}]

Larger_First(m, n) == m                 \* mutant: what was imported stays
Larger_Gap(m, n)   == m - n             \* mutant: the difference
Larger(m, n)  == IF m > n THEN m ELSE n
RowsOf(dbs)   == UNION {d.rows : d \in dbs}
Live          == db[manifest].live
Previous      == db[manifest].previous
Staged        == db[manifest].staged
ImagesHere    == images[manifest]

DbPlace    == [live : Place(Db), previous : Place(Db), staged : Place(Db)]
ImagePlace == [live : Place(SUBSET Row), previous : Place(SUBSET Row)]
Contents   == [rows : SUBSET Row, images : SUBSET Row, settings : {"own", "backup"},
               pool : {"open", "closed", "down"}]

DbDisk     == [Dirs -> DbPlace]
ImageDisk  == [Dirs -> ImagePlace]

DiskType ==
    /\ db \in DbDisk /\ images \in ImageDisk
    /\ manifest \in Dirs
    /\ settings \in {"own", "backup"}
    /\ exports \subseteq Backup
ProgramType ==
    /\ pool \in {"open", "closed", "down"}
    /\ imageRoot \in Dirs
    /\ owner \in {"none", "import", "switch"}
    /\ imp \in Import /\ sw \in Switch
CountType ==
    /\ captured \in 0 .. MaxRow /\ epochs \in Epoch
    /\ mishaps \in 0 .. MaxMishaps /\ begun \in 0 .. MaxOps
HistoryType ==
    /\ issued \in [Epoch -> Nat]
    /\ report \in {"none", "running", "ok", "err", "cut"}
    /\ before \in Contents
    /\ trouble \in Nat /\ stale \in BOOLEAN
    /\ apart \in BOOLEAN /\ split \in BOOLEAN /\ behind \in BOOLEAN
TypeOK == DiskType /\ ProgramType /\ CountType /\ HistoryType

Init ==
    /\ db = [d \in Dirs |-> IF d = Home THEN [NoDbs EXCEPT !.live = {Fresh(1)}] ELSE NoDbs]
    /\ images = [d \in Dirs |-> NoImages]
    /\ manifest = Home /\ imageRoot = Home
    /\ settings = "own" /\ exports = {}
    /\ pool = "open" /\ owner = "none" /\ imp = NoImport /\ sw = NoSwitch
    /\ captured = 0 /\ epochs = 2 /\ mishaps = 0 /\ begun = 0
    /\ issued = [e \in Epoch |-> 0]
    /\ report = "none" /\ trouble = 0 /\ stale = FALSE
    /\ apart = FALSE /\ split = FALSE /\ behind = FALSE
    /\ before = [rows |-> {}, images |-> {}, settings |-> "own", pool |-> "open"]

(***************************************************************************)
(* A step works, or it fails; the failures of an operation are counted.    *)
(***************************************************************************)
Works == UNCHANGED <<mishaps, trouble>>
Fails == mishaps < MaxMishaps /\ mishaps' = mishaps + 1 /\ trouble' = trouble + 1

ImportAt(step) == imp.pc = step
ImportTo(step) == imp' = StepTo(imp, step)
SwitchAt(step) == sw.pc = step
SwitchTo(step) == sw' = StepTo(sw, step)

(* The live database and the live images are of two histories.             *)
Half == \/ imp.pc \in {"open", "reset", "dropOldImages", "imagesAside", "installImages",
                        "undoImages", "restoreImages"}
        \/ imp.pc = "undoDb" /\ Live # {}

(* What a cut leaves.  In Half the rows of one history stay with the       *)
(* images of another, and before reset_after_import under a counter that   *)
(* may be smaller than the one to keep; later the data is the backup's.    *)
WholeBackup(b) == RowsOf(b.db) \subseteq UNION b.images
SplitHere ==
    IF imp.pc \in {"settings", "commit"} THEN ~ WholeBackup(imp.backup) ELSE split \/ Half
CutHere ==
    /\ split' = SplitHere
    /\ behind' = (behind \/ (Half /\ \E d \in Live : d.counter < imp.counter))

(* The handler returns: its locks go, the pause ends.                      *)
ImportEnds(how) == imp' = NoImport /\ report' = how /\ owner' = "none"
SwitchEnds(how) == sw' = NoSwitch /\ report' = how /\ owner' = "none"
Underway        == UNCHANGED <<report, owner>>

(* db::init opens the database of a directory, or creates an empty one.    *)
OpenDb(dbs, d) ==
    IF dbs[d].live = {}
    THEN /\ epochs < MaxEpoch /\ epochs' = epochs + 1
         /\ db' = PutLive(dbs, d, {Fresh(epochs + 1)})
    ELSE db' = dbs /\ UNCHANGED epochs

Steady       == UNCHANGED <<exports, captured, begun, issued>>
ImportSteady == Steady /\ UNCHANGED <<manifest, imageRoot, sw, before>>
SwitchSteady == Steady /\ UNCHANGED <<settings, before, stale, split, behind>>

(***************************************************************************)
(* Everything else: captures, backups, crashes and the next start.         *)
(***************************************************************************)

(* A watched copy is numbered and stored; its image goes below imageRoot.  *)
Capture ==
    /\ pool = "open" /\ owner = "none" /\ captured < MaxRow
    /\ captured' = captured + 1
    /\ \E d \in Live :
         /\ db' = PutLive(db, manifest,
                          {[d EXCEPT !.rows = @ \cup {captured'}, !.counter = @ + 1]})
         /\ issued' = [issued EXCEPT ![d.epoch] = Larger(d.counter + 1, @)]
    /\ images' = PutLive(images, imageRoot, {(UNION images[imageRoot].live) \cup {captured'}})
    /\ UNCHANGED <<manifest, settings, exports, progVars, epochs, mishaps, begun,
                   report, before, trouble, stale, apart, split, behind>>

Export ==
    /\ "export" \in Ops
    /\ pool = "open" /\ owner = "none"
    /\ exports' = {[db |-> Live, images |-> ImagesHere.live]}
    /\ exports' # exports
    /\ UNCHANGED <<db, images, manifest, settings, progVars, countVars, ghosts>>

(* Death of the process at any point; the disk stays as it is.             *)
Crash ==
    /\ pool # "down" /\ mishaps < MaxMishaps
    /\ mishaps' = mishaps + 1
    /\ pool' = "down" /\ owner' = "none" /\ imp' = NoImport /\ sw' = NoSwitch
    /\ report' = IF owner = "none" THEN report ELSE "cut"
    /\ CutHere
    /\ UNCHANGED <<diskVars, imageRoot, captured, epochs, begun, issued, before, trouble>>
    /\ UNCHANGED <<stale, apart>>

Start ==
    /\ pool = "down"
    /\ pool' = "open" /\ imageRoot' = manifest
    /\ OpenDb(db, manifest)
    /\ UNCHANGED <<images, manifest, settings, exports, owner, imp, sw, captured, mishaps,
                   begun, ghosts>>

(***************************************************************************)
(* Overwrite import.  The resources are copied before anything is locked.  *)
(***************************************************************************)
ImportBegin ==
    /\ "import" \in Ops
    /\ pool # "down" /\ ImportAt("idle") /\ begun < MaxOps
    /\ \E b \in exports \cup {Foreign}, s \in BOOLEAN :
         imp' = [NoImport EXCEPT !.pc = "wait", !.backup = b, !.withSettings = s,
                                 !.staged = b.images, !.dir = manifest]
    /\ begun' = begun + 1
    /\ UNCHANGED <<diskVars, pool, imageRoot, owner, sw, captured, epochs, mishaps, ghosts>>

ImportLock ==
    /\ ImportAt("wait") /\ ImportTo("stage") /\ owner = "none"
    /\ owner' = "import" /\ report' = "running" /\ trouble' = 0 /\ stale' = FALSE
    /\ before' = [rows |-> RowsOf(Live), images |-> UNION ImagesHere.live,
                  settings |-> settings, pool |-> pool]
    /\ UNCHANGED <<diskVars, pool, imageRoot, sw, countVars, issued, apart, split, behind>>

(* stage_backup_database: a failure removes what it copied, if it can.     *)
StageDatabase ==
    /\ ImportAt("stage")
    /\ \/ /\ Works /\ Underway /\ ImportTo("counter")
          /\ db' = PutStaged(db, manifest, imp.backup.db)
       \/ /\ Fails /\ ImportEnds("err")
          /\ \E left \in {Staged, {}, imp.backup.db} :
               db' = PutStaged(db, manifest, left)
    /\ ImportSteady /\ UNCHANGED <<images, settings, pool, epochs, stale, apart, split, behind>>

(* The number to keep is read, then close_and_replace closes the pool.     *)
ReadCounter ==
    /\ ImportAt("counter")
    /\ \/ /\ Works /\ Underway /\ pool = "open" /\ pool' = "closed"
          /\ \E d \in Live : imp' = StepTo(Numbered(imp, d.counter), "removePrevious")
       \/ /\ Fails /\ ImportEnds("err") /\ UNCHANGED pool
       \/ /\ Works /\ ImportEnds("err") /\ pool = "closed" /\ UNCHANGED pool
    /\ ImportSteady /\ UNCHANGED <<db, images, settings, epochs, stale, apart, split, behind>>

(* A step inside the swap failed: back to the old data.                    *)
(* Mutants: no look whether there is a `.previous`; only the database.     *)
UndoFrom_Always(changed) == IF changed THEN "undoImages" ELSE "undoDb"
UndoFrom_Db(changed)     == IF Previous # {} THEN "undoDb" ELSE "reopen"
UndoFrom(changed) ==
    IF changed THEN "undoImages" ELSE IF Previous # {} THEN "undoDb" ELSE "reopen"
SwapFails == Fails /\ ImportTo(UndoFrom(imp.changed)) /\ UNCHANGED <<db, images, settings, epochs>>
SwapSteady == ImportSteady /\ Underway /\ UNCHANGED pool

RemovePrevious ==
    /\ ImportAt("removePrevious")
    /\ \/ /\ Works /\ ImportTo("moveAside")
          /\ db' = PutPrevious(db, manifest, {})
          /\ UNCHANGED <<images, settings, epochs, stale, apart, behind>>
       \/ /\ Previous # {} /\ SwapFails
          /\ stale' = TRUE /\ apart' = TRUE /\ behind' = TRUE
    /\ SwapSteady /\ UNCHANGED split

MoveAside ==
    /\ ImportAt("moveAside")
    /\ \/ /\ Works /\ ImportTo("moveIn")
          /\ db' = Aside(db, manifest)
          /\ UNCHANGED <<images, settings, epochs>>
       \/ SwapFails
    /\ SwapSteady /\ UNCHANGED <<stale, apart, split, behind>>

MoveIn ==
    /\ ImportAt("moveIn")
    /\ \/ /\ Works /\ ImportTo("open")
          /\ db' = PutStaged(PutLive(db, manifest, Staged), manifest, {})
          /\ UNCHANGED <<images, settings, epochs>>
       \/ SwapFails
    /\ SwapSteady /\ UNCHANGED <<stale, apart, split, behind>>

OpenNew ==
    /\ ImportAt("open")
    /\ \/ Works /\ ImportTo("reset") /\ OpenDb(db, manifest) /\ UNCHANGED <<images, settings>>
       \/ SwapFails
    /\ SwapSteady /\ UNCHANGED <<stale, apart, split, behind>>

(* reset_after_import: the counter does not go back.                       *)
AfterImages_Skip == "commit"            \* mutant: the settings are forgotten
AfterImages == IF imp.withSettings THEN "settings" ELSE "commit"
Reset ==
    /\ ImportAt("reset")
    /\ \/ /\ Works
          /\ ImportTo(IF imp.backup.images # {} THEN "dropOldImages" ELSE AfterImages)
          /\ db' = PutLive(db, manifest,
                           {[d EXCEPT !.counter = Larger(@, imp.counter)] : d \in Live})
          /\ UNCHANGED <<images, settings, epochs>>
       \/ SwapFails
    /\ SwapSteady /\ UNCHANGED <<stale, apart, split, behind>>

DropOldImages ==
    /\ ImportAt("dropOldImages")
    /\ \/ /\ Works /\ ImportTo("imagesAside")
          /\ images' = PutPrevious(images, manifest, {})
          /\ UNCHANGED <<db, settings, epochs>>
       \/ ImagesHere.previous # {} /\ SwapFails
    /\ SwapSteady /\ UNCHANGED <<stale, apart, split, behind>>

(* Mutant: resources_changed is set once the new ones are in.              *)
ImagesAside_Late ==
    /\ ImportAt("imagesAside")
    /\ \/ /\ Works /\ ImportTo("installImages")
          /\ images' = Aside(images, manifest)
          /\ UNCHANGED <<db, settings, epochs>>
       \/ ImagesHere.live # {} /\ SwapFails
    /\ SwapSteady /\ UNCHANGED <<stale, apart, split, behind>>
ImagesAside ==
    /\ ImportAt("imagesAside")
    /\ \/ /\ Works /\ imp' = StepTo(Changed(imp), "installImages")
          /\ images' = Aside(images, manifest)
          /\ UNCHANGED <<db, settings, epochs>>
       \/ ImagesHere.live # {} /\ SwapFails
    /\ SwapSteady /\ UNCHANGED <<stale, apart, split, behind>>

(* The copied resources are gone when a switch has removed their directory.*)
InstallImages ==
    /\ ImportAt("installImages")
    /\ \/ /\ imp.staged # {} /\ Works
          /\ imp' = StepTo(Unstaged(imp), AfterImages)
          /\ images' = PutLive(images, manifest, imp.staged)
          /\ UNCHANGED <<db, settings, epochs>>
       \/ imp.staged # {} /\ SwapFails
       \/ /\ imp.staged = {} /\ trouble' = trouble + 1 /\ ImportTo(UndoFrom(TRUE))
          /\ UNCHANGED <<db, images, settings, epochs, mishaps>>
    /\ SwapSteady /\ UNCHANGED <<stale, apart, split, behind>>

ReplaceSettings ==
    /\ ImportAt("settings")
    /\ \/ Works /\ ImportTo("commit") /\ settings' = "backup" /\ UNCHANGED <<db, images, epochs>>
       \/ SwapFails
    /\ SwapSteady /\ UNCHANGED <<stale, apart, split, behind>>

(* The old data goes; a removal that fails is only logged.                 *)
Commit ==
    /\ ImportAt("commit")
    /\ \E leftImages, leftDb \in BOOLEAN :
         /\ IF leftImages \/ leftDb THEN Fails ELSE Works
         /\ images' = IF imp.changed /\ ~ leftImages
                      THEN PutPrevious(images, manifest, {}) ELSE images
         /\ db' = IF leftDb THEN db ELSE PutPrevious(db, manifest, {})
    /\ pool' = "open" /\ ImportEnds("ok") /\ split' = SplitHere
    /\ ImportSteady /\ UNCHANGED <<settings, epochs, stale, apart, behind>>

(***************************************************************************)
(* Rollback of an import.  A step that fails in turn leaves the rest.      *)
(***************************************************************************)
UndoSteady == SwapSteady /\ Works /\ UNCHANGED <<settings, epochs, stale, apart, split, behind>>

UndoImages ==
    /\ ImportAt("undoImages") /\ ImportTo("restoreImages")
    /\ images' = PutLive(images, manifest, {})
    /\ UndoSteady /\ UNCHANGED db

RestoreImages ==
    /\ ImportAt("restoreImages") /\ ImportTo(UndoFrom(FALSE))
    /\ images' = IF ImagesHere.previous = {} THEN images
                 ELSE Back(images, manifest)
    /\ UndoSteady /\ UNCHANGED db

UndoDb ==
    /\ ImportAt("undoDb") /\ ImportTo("restoreDb")
    /\ db' = PutLive(db, manifest, {})
    /\ UndoSteady /\ UNCHANGED images

RestoreDb ==
    /\ ImportAt("restoreDb") /\ ImportTo("reopen")
    /\ db' = Back(db, manifest)
    /\ UndoSteady /\ UNCHANGED images

(* The staged database goes, if it can; the live one opens again.          *)
Reopen ==
    /\ ImportAt("reopen") /\ ImportEnds("err")
    /\ \/ Works /\ OpenDb(PutStaged(db, manifest, {}), manifest)
       \/ Staged # {} /\ Fails /\ OpenDb(db, manifest)
    /\ pool' = "open"
    /\ ImportSteady /\ UNCHANGED <<images, settings, stale, apart, split, behind>>

(* A `?` of the rollback: the error goes up, the closed pool stays.        *)
GiveUp ==
    /\ \/ ImportAt("undoImages")    /\ ImagesHere.live # {}
       \/ ImportAt("restoreImages") /\ ImagesHere.previous # {}
       \/ imp.pc \in {"undoDb", "restoreDb", "reopen"}
    /\ Fails /\ ImportEnds("err")
    /\ CutHere
    /\ ImportSteady /\ UNCHANGED <<db, images, settings, pool, epochs, stale, apart>>

(***************************************************************************)
(* Switch of the data directory.  The checks come before the locks; the    *)
(* target holds no database then.                                          *)
(***************************************************************************)
SwitchBegin ==
    /\ "switch" \in Ops
    /\ pool # "down" /\ SwitchAt("idle") /\ begun < MaxOps
    /\ \E d \in Dirs \ {manifest} :
         /\ db[d] = NoDbs
         /\ sw' = [pc |-> "wait", from |-> manifest, to |-> d]
    /\ begun' = begun + 1
    /\ UNCHANGED <<diskVars, pool, imageRoot, owner, imp, captured, epochs, mishaps, ghosts>>

(* close_and_replace closes the pool first.                                *)
SwitchLock ==
    /\ SwitchAt("wait") /\ SwitchTo("copy") /\ owner = "none"
    /\ owner' = "switch" /\ report' = "running" /\ trouble' = 0 /\ stale' = FALSE
    /\ before' = [rows |-> RowsOf(Live), images |-> UNION ImagesHere.live,
                  settings |-> settings, pool |-> pool]
    /\ UNCHANGED <<diskVars, pool, imageRoot, imp, countVars, issued, apart, split, behind>>

(* copy_storage_data; `resources.previous` is not below what is copied.    *)
Copy ==
    /\ SwitchAt("copy")
    /\ pool' = "closed"
    /\ \/ /\ Works /\ SwitchTo("point")
          /\ db' = Put(db, sw.to, db[sw.from])
          /\ images' = PutLive(images, sw.to, images[sw.from].live)
       \/ /\ Fails /\ SwitchTo("unpoint")
          /\ \E part \in {NoDbs, db[sw.from]} : db' = Put(db, sw.to, part)
          /\ UNCHANGED images
    /\ SwitchSteady /\ Underway /\ UNCHANGED <<manifest, imageRoot, imp, epochs, apart>>

(* set_app_data_dir: the manifest, then CorePaths.                         *)
Point ==
    /\ SwitchAt("point")
    /\ \/ Works /\ SwitchTo("open") /\ manifest' = sw.to
       \/ Fails /\ SwitchTo("unpoint") /\ UNCHANGED manifest
    /\ SwitchSteady /\ Underway /\ UNCHANGED <<db, images, pool, imageRoot, imp, epochs, apart>>

OpenThere ==
    /\ SwitchAt("open")
    /\ \/ Works /\ SwitchTo("rebase") /\ OpenDb(db, manifest) /\ pool' = "open"
       \/ Fails /\ SwitchTo("unpoint") /\ UNCHANGED <<db, epochs, pool>>
    /\ SwitchSteady /\ Underway /\ UNCHANGED <<images, manifest, imageRoot, imp, apart>>

(* While the manifest may name the target, the target stays.               *)
Unpoint ==
    /\ SwitchAt("unpoint")
    /\ \/ Works /\ Underway /\ SwitchTo("clean") /\ manifest' = sw.from
       \/ Fails /\ SwitchEnds("err") /\ UNCHANGED manifest
    /\ SwitchSteady /\ UNCHANGED <<db, images, pool, imageRoot, imp, epochs, apart>>

(* cleanup_partial_target; a failure is only logged.                       *)
Clean ==
    /\ SwitchAt("clean") /\ SwitchTo("reopen")
    /\ \/ /\ Works
          /\ db' = Put(db, sw.to, NoDbs)
          /\ images' = PutLive(images, sw.to, {})
       \/ Fails /\ UNCHANGED <<db, images>>
    /\ SwitchSteady /\ Underway /\ UNCHANGED <<manifest, pool, imageRoot, imp, epochs, apart>>

OpenBack ==
    /\ SwitchAt("reopen") /\ SwitchEnds("err")
    /\ \/ /\ Works /\ OpenDb(db, manifest) /\ pool' = "open"
          /\ apart' = (apart \/ imageRoot # manifest)
       \/ Fails /\ UNCHANGED <<db, epochs, pool, apart>>
    /\ SwitchSteady /\ UNCHANGED <<images, manifest, imageRoot, imp>>

(* rebase_storage_states: settings, window, images, icons, one by one.     *)
Rebase ==
    /\ SwitchAt("rebase")
    /\ \/ Works /\ Underway /\ SwitchTo("removeOld") /\ imageRoot' = manifest /\ UNCHANGED apart
       \/ /\ Fails /\ SwitchEnds("err")
          /\ imageRoot' \in {imageRoot, manifest}
          /\ apart' = (apart \/ imageRoot' # manifest)
    /\ SwitchSteady /\ UNCHANGED <<db, images, manifest, pool, imp, epochs>>

(* remove_old_storage_data; an import's copied resources go with it.       *)
RemoveOld ==
    /\ SwitchAt("removeOld") /\ SwitchEnds("ok")
    /\ \/ /\ Works
          /\ db' = Put(db, sw.from, NoDbs)
          /\ images' = Put(images, sw.from, NoImages)
          /\ imp' = IF imp.dir = sw.from THEN Unstaged(imp) ELSE imp
       \/ /\ Fails /\ UNCHANGED imp
          /\ db' \in {db, Put(db, sw.from, NoDbs)}
          /\ images' \in {images, Put(images, sw.from, NoImages)}
    /\ SwitchSteady /\ UNCHANGED <<manifest, pool, imageRoot, epochs, apart>>

ImportNext ==
    \/ ImportBegin \/ ImportLock \/ StageDatabase \/ ReadCounter \/ RemovePrevious \/ MoveAside
    \/ MoveIn \/ OpenNew \/ Reset \/ DropOldImages \/ ImagesAside \/ InstallImages
    \/ ReplaceSettings \/ Commit
    \/ UndoImages \/ RestoreImages \/ UndoDb \/ RestoreDb \/ Reopen \/ GiveUp
SwitchNext ==
    \/ SwitchBegin \/ SwitchLock \/ Copy \/ Point \/ OpenThere
    \/ Unpoint \/ Clean \/ OpenBack \/ Rebase \/ RemoveOld

Next == Capture \/ Export \/ Crash \/ Start \/ ImportNext \/ SwitchNext
Spec == Init /\ [][Next]_vars

(***************************************************************************)
(* Properties.                                                             *)
(***************************************************************************)

(* While an import or a switch runs, and after it failed or died, every    *)
(* row and image of the data it started from is on the disk, live or under *)
(* `.previous`, in the directory the manifest names: no order of renames,  *)
(* removals and failures loses them.  One case is left out: a `.previous`  *)
(* that an earlier run left behind and that cannot be removed.             *)
OldDataKept ==
    (report \in {"running", "err", "cut"} /\ ~ stale)
        => /\ before.rows \subseteq RowsOf(Live \cup Previous)
           /\ before.images \subseteq UNION (ImagesHere.live \cup ImagesHere.previous)

(* One failing step is undone: when the operation reports an error the     *)
(* program works on an open pool with the rows, images and settings it had *)
(* (backup.rs: 任何一步失败都把原来的库与资源换回去重新打开).  Where they   *)
(* are is not part of it: a switch whose rebase failed stays in the new    *)
(* directory, with a full copy of the data.                                *)
Restored ==
    /\ pool = "open" /\ settings = before.settings
    /\ before.rows = RowsOf(Live)
    /\ before.images = UNION ImagesHere.live
FailureUndone ==
    (report = "running" /\ report' = "err" /\ trouble' <= 1 /\ before.pool = "open") => Restored'
FailureRestores     == [][~ stale' => FailureUndone]_vars
EveryFailureRestores == [][FailureUndone]_vars

(* Success means all of it: rows, images and settings are the backup's, or *)
(* all the old ones in the new place, on an open pool.                     *)
Completed ==
    (report = "running" /\ report' = "ok")
        => /\ pool' = "open"
           /\ owner = "import" =>
                /\ RowsOf(Live') = RowsOf(imp.backup.db)
                /\ imp.backup.images # {} => ImagesHere'.live = imp.backup.images
                /\ imp.withSettings => settings' = "backup"
           /\ owner = "switch" =>
                /\ manifest' = sw.to /\ imageRoot' = sw.to
                /\ before.rows = RowsOf(Live') /\ before.images = UNION ImagesHere'.live
SuccessIsComplete == [][Completed]_vars

(* A number once given out under an epoch is never given out again         *)
(* (db/sync.rs: 计数器不回退，已配对设备记着的水位线仍然有效) by an import, a  *)
(* failed import, a switch or a crash, with two exceptions.  One the code  *)
(* does not cover: it dies, or its rollback stops, after the backup's      *)
(* database was renamed into place and before reset_after_import raised    *)
(* its counter; a backup made here earlier then gives numbers out again.   *)
(* The other is the `.previous` that could not be removed and came back.   *)
NumbersNotReused ==
    (pool = "open" /\ owner = "none" /\ ~ behind)
        => \A d \in Live : d.counter >= issued[d.epoch]

(* The same while no database was lost and created anew: a new database    *)
(* counts from 0, and an import carries that into the epoch it brings back.*)
CounterCovers == epochs = 2 => NumbersNotReused

(* No row without its image once an operation is over.  It is not so after *)
(* the program died, or a rollback stopped, while the backup's rows were   *)
(* in place and its images not, until an import of a backup that is whole  *)
(* succeeds (`split`); nor for good (`apart`) after a `.previous` that     *)
(* could not be removed came back, after a failed rebase, or when the      *)
(* manifest could not be put back and the rollback of the next switch      *)
(* opens a pool below which ImageStore does not write.                     *)
RowsHaveImages ==
    (pool = "open" /\ owner = "none" /\ ~ apart /\ ~ split)
        => RowsOf(Live) \subseteq UNION ImagesHere.live

(* The swap keeps the promise of DataReplace: what is seen of the data     *)
(* while an operation runs is what it began with; one that reports success *)
(* has taken effect as a whole, one that reports an error after a single   *)
(* failure not at all; and one cut short, by a death at any step or by a   *)
(* rollback that stops, leaves the old data, the backup's, no row, or the  *)
(* backup's rows with images that are the old ones, the backup's or none.  *)
(* After such a cut the promise goes on; only the three mishaps of `apart` *)
(* listed above end it.                                                    *)
Seen(old, now) == IF owner = "none" THEN now ELSE old
Packed(b)      == [rows |-> RowsOf(b.db), images |-> b.images]
Replacing == INSTANCE DataReplace WITH
    rows     <- Seen(before.rows, RowsOf(Live)),
    images   <- Seen(before.images, UNION ImagesHere.live),
    settings <- Seen(before.settings, settings),
    backups  <- {Packed(b) : b \in exports \cup {Foreign, imp.backup}},
    last     <- IF report = "err" /\ trouble > 1 THEN "gaveUp" ELSE report,
    torn     <- apart
TakesEffectWhole == Replacing!Spec
=============================================================================
