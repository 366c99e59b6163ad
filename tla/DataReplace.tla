---------------------------- MODULE DataReplace ----------------------------
(***************************************************************************)
(* What replacing the data promises (backup.rs, overwrite_import;          *)
(* ops/storage.rs, switch_storage_location), with no file, lock or step of *)
(* the swap in sight.                                                      *)
(*                                                                         *)
(* There is one set of data: rows, their images, the settings.  While an   *)
(* operation runs nothing is seen of it.  Then it has taken effect as a    *)
(* whole, or it has failed and not taken effect.  Only the death of the    *)
(* process or a failing rollback may end it otherwise: then the data is    *)
(* the old, the new, no row at all (the old database lies under            *)
(* `.previous`), or it is split: the backup's rows, with the old images,   *)
(* the backup's, or none.  It stays split until a backup whose rows have   *)
(* their images replaces it.                                               *)
(*                                                                         *)
(* This is promised until one of the mishaps that `torn` stands for.       *)
(***************************************************************************)
CONSTANT Row

VARIABLES
    rows,       \* rows of the history
    images,     \* rows whose image is there
    settings,   \* "own", or "backup": replaced by an import
    backups,    \* backups an import may come from
    last,       \* how the last operation ended, or "running"
    split,      \* rows may lack their images
    torn        \* the promise is off

data == <<rows, images, settings>>
vars == <<data, backups, last, split, torn>>

Running  == last = "running"
Ends(how) == Running /\ last' = how

(* The data of a backup; one without a resources directory leaves images. *)
WholeBackup(b) == b.rows \subseteq UNION b.images
Loads(b) ==
    /\ rows' = b.rows /\ images' = (IF b.images = {} THEN images ELSE UNION b.images)
    /\ split' = ~ WholeBackup(b)

(* Half done: its rows, and the images of before or after, or none.        *)
Mixes(b) ==
    /\ rows' = b.rows /\ images' \in {images, UNION b.images, {}}
    /\ split' = TRUE /\ UNCHANGED settings

Init ==
    /\ rows = {} /\ images = {} /\ settings = "own"
    /\ last = "none" /\ split = FALSE /\ torn = FALSE

Capture ==
    /\ ~ Running
    /\ \E r \in Row : rows' = rows \cup {r} /\ images' = images \cup {r}
    /\ UNCHANGED <<settings, backups, last, split>>

(* A backup is made of the data as it is; old ones are thrown away.        *)
Save ==
    /\ ~ Running
    /\ \E b \in backups' : /\ b.rows = rows /\ UNION b.images = images
                           /\ backups' \subseteq backups \cup {b}
    /\ UNCHANGED <<data, last, split>>
Discard == backups' \subseteq backups /\ UNCHANGED <<data, last, split>>

Begin == ~ Running /\ last' = "running" /\ UNCHANGED <<data, backups, split>>

Replace ==
    /\ Ends("ok") /\ backups' \subseteq backups
    /\ \E b \in backups : Loads(b)
    /\ settings' \in {settings, "backup"}
Move == Ends("ok") /\ UNCHANGED <<data, backups, split>>
Fail == Ends("err") /\ UNCHANGED <<data, split>> /\ backups' \subseteq backups

(* The process dies, or the rollback fails too.                            *)
CutShort ==
    /\ Ends("cut") \/ Ends("gaveUp")
    /\ backups' \subseteq backups
    /\ \/ UNCHANGED <<data, split>>
       \/ rows' = {} /\ UNCHANGED <<images, settings, split>>
       \/ (\E b \in backups : Loads(b)) /\ settings' \in {settings, "backup"}
       \/ \E b \in backups : Mixes(b)

Tear == torn' /\ (torn \/ Running)

Next ==
    \/ UNCHANGED torn /\ (Capture \/ Save \/ Discard \/ Begin \/ Replace \/ Move \/ Fail \/ CutShort)
    \/ Tear

Spec == Init /\ [][Next]_vars

(* What the promise is worth: no row without its image in what is seen,    *)
(* however many operations fail, unless the data is split; and an import   *)
(* of a whole backup mends what a cut has split.                           *)
Whole == torn \/ split \/ rows \subseteq images
=============================================================================
