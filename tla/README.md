# KwikPaste: a verification project

KwikPaste is a clipboard manager: one process watches the system clipboard, stores what is copied in
a SQLite database, shows it in a panel and, optionally, exchanges it with paired devices on the same
network. This directory models the parts of it where several activities meet — tasks, connections,
crashes, two devices — as TLA+ modules, checks them with TLC on small instances and proves theorems
about them with TLAPS. All paths below are under `src/crates/kwikpaste-core/src/` unless they say
otherwise.

## Inventory

| Component | State it keeps | Operations | What is hard | What makes it correct |
|---|---|---|---|---|
| LAN catch-up, live pushes, checkpoints (`sync/service.rs`, `sync/engine.rs`, `db/sync.rs`, `sync/peers.rs`) | sync counter and epoch, a number per row; per connection a queue and a live cursor; per peer a watermark | capture, number, push, catch-up request, page, checkpoint | captures, pages and connections interleave; full queues; restarts; rebuilt databases | a watermark never passes a row the peer is owed and misses; catch-up ends; live contents arrive |
| LAN connections (`sync/service.rs`, `sync/discovery.rs`) | registry of one connection per peer, dial state | dial, accept, register, unregister, revoke, back off | both sides dial at once; revoke races a handshake | one session per peer; both sides agree on it; none after a revoke |
| LAN pairing (`sync/pairing.rs`, `sync/service.rs`) | pairing code and attempts, list of trusted peers | begin attempt, confirm, commit, remove | the last message is lost; attempts race | at most five guesses per code; both sides end paired or neither keeps believing it |
| Clipboard capture (`clipboard/watcher.rs`, `guard.rs`, `ingest.rs`, `persist.rs`) | pause switch, repeat filter, write-back guard, insert lock | clipboard event, pause, store | events of our own write-back; two tasks with one content | no own write-back is stored as a copy; one row per content |
| Image store and cleanup (`clipboard/storage.rs`, `clipboard/cleanup.rs`) | image files, cleanup flags, publication lock | write image, delete rows with their files, sweep | a sweep against a capture that has written its file and not its row; long operations at one lock | no image of a row is removed; every operation gets its turn |
| Storage switch (`ops/storage.rs`, `db/state.rs`), backups (`backup.rs`) | connection pool; live, staged and previous files; the manifest that names the directory | export, merge, copy, swap, roll back | a crash or failure between two renames; imports and switches that overlap; a merge against captures | the old data stays on the disk until the new data is complete; an error means nothing changed; no sync number is used twice |
| Settings (`settings/`) | snapshot, file | update, load, migrate | concurrent updates, failed writes | memory and file agree after a successful update |
| OCR (`ocr/`) and extensions (`extensions/`) | session thread, helper process, queue mark, suspension count | nudge, suspend, resume, recognise | a nudge at the end of a session; a suspension during a job; a helper that dies or is killed | nothing is at work during a suspension; no image in the queue is forgotten |
| Updater (`src/crates/kwikpaste-updater/`) | downloaded file, hand-off record | download, verify, install, recover | crash during the hand-off | only verified files are installed |
| OS key hooks (`src/crates/kwikpaste-os/src/double_tap.rs`, `hook_keys.rs`) | key state | key event, timeout | lost key-up events | a double tap fires once per two taps |

How they interact: every capture goes `watcher -> persist_and_notify -> store_and_emit ->
assign_sync_seq -> on_local_capture`; contents received from a peer join at `store_and_emit` and may
be written to the clipboard, which the watcher sees again. Everyone who writes an image and its row
holds the publication lock shared, everyone who removes one holds it exclusively (deletions, cleanup
passes and swaps suspend OCR before that); the insert lock (`upsert_lock`) comes last.
`PROJECT.json` lists every component with its status and, under `hazards`, each place where one of
these interactions can go wrong.

## Modules

| Module | What it is |
|---|---|
| `WatermarkSync` | The promise of catch-up (`sync/PROTOCOL.md` 6.2, 6.3): a peer moves its watermark only to a number below which nothing it is owed is missing. No connections, no messages. |
| `WatermarkSyncProofs` | The promise is kept by its own steps. |
| `LanCatchUp` | One device numbering and sending what is copied on it, and the devices that take it in: captures, queues, live cursors, catch-up answers, checkpoints, watermarks. |
| `MCLanCatchUp` | Its small instances. |
| `LanCatchUpProofs` | Type correctness. |
| `LanCatchUpSafety` | The inductive invariant, and the safety properties from it. |
| `LanCatchUpRefinement` | `LanCatchUp` implements `WatermarkSync`. |
| `LanSessions` | Two devices that pair, dial each other, register one connection, remove each other, stop and restart. |
| `MCLanSessions` | Its small instances. |
| `LanSessionsProofs` | A sound registry, uniqueness of the session, and the end of sessions after a removal. |
| `DataReplace` | The promise of a replacement of the data: success takes effect as a whole, an error not at all, and what an operation cut short may leave. No files, no locks, no steps. |
| `DataSwap` | An overwrite import or a storage switch replaces the database and the images under the running program, step by step on the disk, with failures and crashes. |
| `MCDataSwap`, `DataSwapProofs` | Its instances; its safety properties, and that it implements `DataReplace`. |
| `ContentStore` | Rows and image files, and all tasks that write or remove them, with the two locks that keep their steps apart. |
| `MCContentStore`, `ContentStoreProofs` | Its instance; its four safety invariants. |
| `OcrQueue` | The OCR session thread, its helper, the nudges that start it and the suspensions that stop it. |
| `MCOcrQueue`, `OcrQueueProofs` | Its instance; its safety invariants, and that suspensions are counted exactly. |

The two modules about sync meet at the registry: `LanSessions` says which connections a device has
registered at any time, `LanCatchUp` what happens on them. In `LanCatchUp` a connection is opened by
either end and closed by either end at any step (with `"drop"`), replaces its predecessor in the
registry, and its old end runs on until it notices; this covers every history of one device's
registry that `LanSessions` has, dialling and pairing left out.

The three modules about data are cut along locks and steps. `ContentStore` is the whole store with
every operation at the grain of the locks; its `SwapData` is one step, in which the data is replaced
or, after a failure, put back. `DataSwap` is that step in detail: `owner` stands for the pause, the
suspension and both locks, so nothing of `ContentStore` but the swap runs meanwhile, which is why
only captures before and after it appear there. That a failed swap puts the old data back is
`DataSwap`'s `FailureRestores`, with the one exception under Findings; a crash in the middle of a
swap, or a rollback that fails in turn, may leave the backup's rows without their images, or its
database under a counter that is too small, and is `DataSwap`'s alone.
Deletions, cleanup passes and swaps suspend OCR first: `OcrQueue` says what that means, and its `Change` and
`Swap` are what the others do meanwhile. The numbers `LanCatchUp` relies on are those whose counter
`DataSwap` carries through an import.

### LanCatchUp and the code

| Variables | In the code |
|---|---|
| `epoch`, `counter` | `sync_counter.created_at` and `.value` (`db/sync.rs`) |
| `rows`, `seqOf`, `stale` | rows of `clipboard_items`, their `sync_seq` (0 for NULL), whether last used more than `CATCH_UP_DAYS` ago |
| `stored`, `numbered` | captures in `persist_and_notify` (`clipboard/persist.rs`): row stored; number assigned, `on_local_capture` still to run. Each capture is a task of its own, so these are sets |
| `captures` | the channel between `on_local_capture` and `send_captures`; its head may be the capture the loop is preparing, hence one more than the channel's capacity |
| `lastSynced` | `EchoFilter.last` |
| `src`, `registered`, `cursor`, `task` | of the source's end of a connection: read loop, entry in `Shared.connections`, its `LiveCursor`, the task spawned for a catch-up request with the values it has read so far |
| `out` | `outgoing` channel, socket and the peer's read half, as one FIFO |
| `rcv`, `inn` | the peer's end of the connection; catch-up requests on their way to the source |
| `taken`, `wm` | contents the peer has stored; its `PeerStore` watermark and epoch for the source |
| `waived`, `echoed` | history, read by no action: which rows a window passed over, which captures were held back as echoes |

| Actions | In the code |
|---|---|
| `StoreCapture`, `NumberCapture`, `NumberFails` | the two database transactions of `persist_and_notify` |
| `OnLocalCapture` | `SyncService::on_local_capture`: registry empty, echo filter, `try_send`, `deliver_failed` when the queue is full |
| `Deliver`, `DeliverFailed` | one round of `send_captures`: `prepare_push`, then `deliver` to every registered connection; the cursor marks, runs over handled numbers and may send a checkpoint |
| `TakeFromPeer` | `engine::receive` of a live push on the source (a peer mirrors contents back) |
| `DeleteRow`, `AgeRow` | rows deleted by the user or by cleanup; time passing |
| `SourceOpens`, `SourceCloses` | `run_session` up to `register`; the end of `read_loop` with `unregister` |
| `SourceTakesRequest` | `read_loop`, `CatchUp`: ignored while `catching_up` is set |
| `ReadCounter`, `ReadPage`, `CollectFails` | `collect_catch_up`, query by query |
| `SendRow`, `SendPage`, `SendFails` | `send_catch_up`: each send waits for room, and fails when the writer is gone |
| `ConfirmCatchUp`, `ReleaseTask` | `confirm_catch_up`; `catching_up` is cleared afterwards, as a step of its own |
| `Restart`, `RestartRebuilt` | the process dies, and comes back with its database or with a new one |
| `PeerOpens`, `PeerCloses` | `run_session` of the peer, which sends `catchUp(watermark)`; the end of its read loop |
| `PeerTakesPush`, `PeerFailsPush`, `PeerTakesPage` | `read_loop` of the peer: `receive`, a failure of which ends the connection; `advance_watermark` and the next request |

Every step of a task between two awaits that touch shared state is one action; a query or an
acquired lock is atomic. Contents are model values with a `Kind`, which is what the sync rules do
with them: never a candidate, not in the settings, too big, or travelling.

### LanSessions and the code

| Variables | In the code |
|---|---|
| `trusted` | `PeerStore` contains the other device |
| `dialing`, `waiting` | `DialState.dialing`; `next_at` lies ahead |
| `registry` | `Shared.connections`, for the other device |
| `removing` | `remove_device` tasks that hold a connection they are about to tell and then close |
| `dialer`, `goal` | who opened the TCP connection in a slot, and the `DialGoal` |
| `end` | where each device's task for that connection stands |
| `wire` | messages on their way to a device |
| `killed` | the kill switch of a device's end |

`StartDial` to `BackoffOver` are `dial_loop`, `dial_candidates`, `dial_peer` and `finish_dial`;
`ConnectTo` and `PairWith` are the two user-driven dials. `AnswerSync`, `AnswerPair`, `CommitPair`
are `handle_incoming`; `TakeWelcome`, `TakeNotPaired`, `TakeDone`, `TakeWrongCode`,
`HandshakeFails` are `dial` and what its callers do with the answer. `Register` is `register`, with
the second look at the peer list under the registry's lock and the rule of the preferred dialler;
`RegisterStopped` is the same in a runtime that has been stopped, whose registry nothing else
reaches. `TakeUnpair`, `SessionEnds`, `Unregister` end a session. `RemoveDevice`, `TellRemoved`,
`KillRemoved` are the three stages of `remove_device`, `StopSync` is `stop` followed by `start`, and
`Restart` a crash; what is saved on disk (`trusted`) survives it.

### DataSwap and the code

| Variables | In the code |
|---|---|
| `db`, `images` | per directory the database file with `.previous` and `.importing`, and the resources directory with `.previous` |
| `manifest`, `settings`, `exports` | `storage.json` (and `CorePaths`), `settings.json`, backup files |
| `pool`, `imageRoot` | the pool in `DatabaseState`; `ImageStore.images_root` |
| `owner` | who holds the pause, the suspension and both locks |
| `imp`, `sw` | the import (`import_backup`, `overwrite_import`) and the switch under way, step by step; both may be begun at a time, one waits for the locks |
| `issued`, `before`, `report`, `trouble` | history: largest number given out per epoch, the data the operation began with, how it ended, how many steps failed |
| `stale`, `apart` | history: a `.previous` that could not be removed came back; or that, or a failed rebase, or a manifest that could not be put back, has parted rows from images for good |
| `split`, `behind` | history: a cut has left a backup's rows without their images; its database without the counter that is to be kept. No action's effect on disk or program depends on any of these |

`ImportBegin` to `Commit` are `overwrite_import` and `swap_in_staged_database`, one action for each
thing done to the disk; `UndoImages` to `Reopen` are the rollback, `GiveUp` is each `?` in it.
`SwitchBegin` to `RemoveOld` are `switch_storage_location` with `copy_storage_data`,
`set_app_data_dir`, `cleanup_partial_target`, `rebase_storage_states` and `remove_old_storage_data`.
Every step has a branch in which it fails. `Crash` is the death of the process between any two
steps, `Start` the next start, which opens whatever the manifest names or creates an empty database.
A database is the set of its rows with its counter and epoch; an image is the row it belongs to.

`Replacing` maps this to `DataReplace`. While an operation holds the locks nothing is seen of the
disk, so the mapping shows the data it began with (`Seen`); afterwards it shows what the pool and
the manifest lead to, as every reader of the program does. Backups are their rows and images,
without their counters. `report` becomes `last`, with an error after more than one mishap apart
("gaveUp"), and `split` becomes `split`: an import cut in the middle, by a death or by a rollback
that stops, leaves the backup's rows with the old images, the backup's or none, and the promise goes
on from there. Only `apart` becomes `torn`, which ends it: a `.previous` that could not be removed
and came back (Findings), a failed rebase, a manifest that could not be put back. `FailureRestores`
and `SuccessIsComplete` speak of the end of an operation; `TakesEffectWhole` also of what happens
between two of them, and of operations cut short.

### ContentStore and the code

| Variables | In the code |
|---|---|
| `rows`, `files` | `clipboard_items` by content hash; image files by content hash |
| `line` | `CleanupScheduler.running`, a fair `RwLock`: tasks waiting, first come first |
| `serial` | `upsert_lock`: the task that holds it and those behind it |
| `paused`, `was` | `WatcherPause`, and what `PauseGuard` will restore |
| `op`, `pc`, `cur`, `hand` | what each task runs, where it stands, the image it stores, what it has listed |
| `bare`, `raced` | ghosts: rows a merge has committed ahead of their files; images a merge gave a second row |

| Operation | In the code |
|---|---|
| `capture`, `receive`, `history` | `handle_change` of the watcher, `engine::receive` of a live record or of one of the peer's history; "read the clipboard now" runs as a `receive`. `Ask`, `Build`, `Known`, `Find`, `Insert` |
| `eco`, `merge` | `import_ecopaste`; `merge_import`: rows in one transaction, then images |
| `export` | `export_backup`: database, then resources |
| `delete` | deleting, clearing and the cleanup passes: rows in one transaction, then their files |
| `sweep` | the sweep of the image directory for files no row names |
| `swap` | overwrite import and storage switch, one step of data here |

Every operation can fail or end early wherever the code returns early, and `Crash` ends all of them.

### OcrQueue and the code

| Variables | In the code |
|---|---|
| `text`, `tries` | `ocr_*` columns of an image's row: state and attempts |
| `running`, `dirty`, `priority`, `suspended`, `stopped`, `child`, `startup` | `State` of the scheduler; `startup` is the delayed nudge of `startup()`, which a failing query leaves out |
| `current` | the session's generation is still the scheduler's |
| `at`, `job`, `asked`, `answer`, `helper`, `stumbled` | the session thread: its step, the image and whether the user asked for it, the outcome, its helper process and whether it failed last |
| `doomed` | `invalidate` has taken the helper's handle and is about to kill it |
| `owed`, `resolved` | callers about to call `nudge`; one of them has found that the extension resolves and is about to take the lock |
| `place`, `woken` | tasks in `suspend`, and whether `finished` has notified them since they began to listen |
| `ending` | threads between the end of a session and its `notify_waiters` |
| `enabled` | `extensions.resolve("ocr")` |
| `broken`, `unsaid` | ghosts: the last session failed (no thread, or its database); an image was queued by somebody who nudges nobody. The next nudge that starts a session or leaves its mark clears them |

`Resolve` and `Nudge` are the two halves of `nudge`, before and under the lock, so that the extension
may be switched off in between; `Connect` to `Finish` are `session` and the closure that runs it;
`Save` and `Write` are `write_if_current`, before and after it looks at the generation under
`upsert_lock`; `Suspend`, `Resolving`, `Count`, `Bump`, `Look`, `Sleep`, `Wake` are `suspend`:
is anything running, does the extension resolve, count, invalidate, wait. `Release` is dropping the
`Suspension`, `Stop` is `shutdown`. `Change`, `Toggle` and `Swap` are what is done under a suspension.
`Store` has both endings of an import that adds rows: the nudge, and the error after the rows were
committed, which returns before it (`backup.rs:1391-1401`, `1263-1311`).

## Runs

`PROJECT.json` lists the runs and their properties. What each of them asks:

| Run | Instance | What it shows |
|---|---|---|
| `lan_reconnect` | 2 contents, 2 connections of one peer, one-row pages, failing stores, restarts and one rebuild | connections overlap and replace each other, and messages of the old process are still under way: the watermark passes no row that is missing (`WatermarkSound`) and grows within an epoch (`WatermarkMonotone`), a cursor covers only what its own connection carries (`CursorSound`), the protocol implements `WatermarkSync` (`KeepsPromise`) |
| `lan_faults` | contents that travel, are switched off or private; failing reads, stores and numbering; deleted and aged rows; drops | only rows that the rules pass over are skipped; a deleted newest row does not give its number to another (`WatermarkSound`) |
| `lan_live` | fair, a catch-up of one page, a captures queue of one, drops, a peer that mirrors, captures out of order | `CatchUpEnds`, `OnlineDelivery`, `AnswerEnds`; no row falls between the catch-up and the live pushes (`NothingForgotten`); what was held back as an echo is there although captures are dropped from a full queue (`EchoHeld`); no gap under a checkpoint (`CursorSound`) |
| `lan_busy` | fair, a catch-up of two pages | violation: see Findings |
| `sess_remove` | both paired, removals, drops, sync switched off and on | `OneSession`: no session runs that the registry does not name; `UntrustedSessionEnds`: a removal leaves no session that nothing ends |
| `sess_pair` | one side paired, pairing and connecting by hand, restarts, fair | left alone, the two devices share one connection or none has the other paired (`Settles`) |
| `sess_unlisted` | one side paired, pairing anew | violation: see Findings |
| `swap_faults` | 2 directories, 2 rows, 2 failures or crashes, 3 imports or switches | the old data is live or under `.previous` until the new data is complete (`OldDataKept`); one failure is undone (`FailureRestores`); success means all of it (`SuccessIsComplete`); no sync number is given out again (`CounterCovers`) and rows have their images (`RowsHaveImages`), with the exceptions these name; seen from outside success takes effect as a whole, an error not at all, and a cut leaves one of four mixtures (`TakesEffectWhole`) |
| `swap_previous` | the same with imports only | violation: see Findings |
| `store` | 1 image, 3 tasks: every operation meets every other one, fair, crashes | `RowHasImage`, `OneRowEach`, `InHand`, `BackupWhole`; every operation ends (`TaskEnds`) |
| `store_merge` | the same | violation: see Findings |
| `ocr` | 1 image, 1 task that suspends, fair | nothing is at work during a suspension (`Quiet`), which is never kept waiting (`SuspensionHolds`, `NoLostNotice`); no wake-up is lost but for the two cases `NoLostWake` names; no attempt is charged for a helper the program killed (`NotCharged`) |

### Bounds

- `MaxSeq` numbers per epoch: two, which give a page boundary and two captures in either order. The
  properties relate a watermark to single rows.
- `MaxInFlight` captures under way: two, so that they overtake each other; one where two
  connections supply the interleavings.
- `MaxEpoch` numberings: two, so that a watermark or a message of an older one meets the present one.
- Two connections, each used once: an old and a new one is what a registry entry can be confused
  about; they end by being replaced, by a content that cannot be stored and by restarts, and the
  single connection of the other runs by a drop at any step. Where captures overtake each other
  (`lan_live`) one connection is enough. One peer; the
  theorems hold for any number of them.
- `QueueCap = 1` (a queue that is full as soon as one message waits) makes overflow the normal case;
  `lan_busy` has 2, which is closer to the code (64), so that the finding is not one of a full queue.
- `PageSize = 1` makes every catch-up of two rows a catch-up of two pages; `Total = 2` puts the
  500-row window to use: two rows fill it, and in `lan_faults` rows that age or are deleted move it,
  which is all that moves it there.
- `LanSessions`: two slots, i.e. two TCP connections at a time, used again without bound; both
  devices dialling at once needs two. `QueueCap = 1` bounds unpair messages waiting on a connection.
- `DataSwap`: `MaxRow` rows captured here, `MaxMishaps` failures and crashes, `MaxEpoch` databases
  ever created (this one, another device's, two made after a loss), `MaxOps` operations begun. Two
  rows tell data from before an import from data after it; two mishaps are one in the operation and
  one in its rollback, or a crash and what follows; three operations are one that leaves something
  behind, one that meets it, and one that overlaps. Two directories suffice for a switch there and
  back.
- `ContentStore`: one image, because every property speaks of one image at a time and the locks do
  not look at it; three tasks, because a third must wait at a lock while two others meet. `EachKind`
  gives the slots their operations so that each pair of kinds can meet. A row count never exceeds
  two, which `TypeOK` states and is proved.
- `OcrQueue`: one image and one holder, for liveness in reasonable time. The safety properties speak
  of one image or one holder at a time, and their theorems hold for any number. With one holder no
  empty suspension meets a task that enables the extension: that case is the theorems' alone.
  `MaxTries` is 2 in the run and 3 in the code: one attempt that leaves the image in the queue and
  one that ends it. `MaxOwed` and `MaxEnding` bound callers on their way to a nudge and threads on
  their way to their notification, one each, with one place kept for the scheduler's own nudges; one
  nudge at a time is between its two halves (`resolved`).
- `lan_live` has a captures queue of one (`CaptureCap`; 64 in the code), which two captures overflow.
- The theorems below hold for all values, so the bounds limit only what TLC alone checks.

`store` and `ocr` check for deadlock. The others do not: a state in which nobody copies anything and
nobody dials, or in which the bounds on operations are used up, is a state these systems may stay in.

### Fairness

`LanCatchUp`: spawned tasks run on (the numbering and handing over of a stored capture, the
`send_captures` loop, the task of an answer); read loops take messages that have arrived; an end
whose other end is gone, or that has been told to stop, notices. Nothing is assumed of captures, new
connections, drops or faults. A task that waits for room in a queue is disabled meanwhile, so
`OnlineDelivery` and `AnswerEnds` do not rest on the queue getting room.

`LanSessions`: likewise for handshakes, sessions, the dial loop and its back-off. Handshakes have
time-outs in the code, which is why an end whose other end is gone always leaves. One assumption is
strong: a device that is dialled again and again is reached some time (`SF` on `DialAddress`) —
without it two devices may simply be on different networks for ever. `Settles` is conditional: from
some moment on no user acts, nothing crashes, and no dial round falls between the end of a dial and
the registration of its session. That gap lasts microseconds and the code wakes the dial loop
whenever a session ends, so a round can fall into it; that it does so time after time, each
connection displacing the one before, is the livelock this premise leaves out.

`ContentStore`: a task that can go on does (`WF` on each task's steps); the runtime polls ready tasks
and both locks are fair in the code (tokio's are queues), so nothing stronger is needed. No operation
has to begin.

`OcrQueue`: nudges, the session thread and each step of a suspending task are weakly fair; nothing is
assumed of a suspension's end, of the killing of a helper or of the delayed nudge of the start. The
end of a session is told some time, and this is strong (`SF`) only because the bound on `owed`
disables it now and then, which the code does not. A helper answers or is given up: the code waits
for it with a time-out (`Ask`).

`DataSwap` has safety only.

## Theorems

All are for every value of the constants under the assumptions named in the modules (finite
contents, positive page, window and queue sizes).

- `WatermarkSyncProofs!PromiseComplete`: in the abstract specification a watermark in the epoch in
  use stands only where nothing owed is missing.
- `LanCatchUpProofs!TypeCorrect`: `TypeOK`, which includes that the registry has one connection per
  peer and only running ones, and that only they have a live cursor.
- `LanCatchUpSafety!WatermarksAreSound`, `CursorsAreSound`, `WatermarksNeverFall`. `WatermarkSound`
  is not inductive: a page in a queue moves the watermark later, and says nothing of where its
  `until` came from. `Core`, the first part of `IInv`, follows the number back: a page in a queue is
  preceded by, or the peer already has, every row owed up to it (`QueueSound`); a task about to send
  a page still holds, or has queued, those rows (`AnswerSound`); a request asks from where nothing
  is missing (`AskedSound`); a live cursor covers only what is taken or queued on its own
  connection, and so does each number it has handled, unless the connection dropped a push
  (`LiveCursorSound`); a capture that will not be sent is exempt (`CapturesSound`); and numbers are
  handed out once (`NumbersSound`). The proof has a lemma per action; steps that leave the rows,
  numbers and exemptions alone share the lemmas `CalmStep`, `QuietStep` and `LocalStep`. The
  arithmetic heart is `RunEndProperties` (the cursor's run has no gap) and `OnThePage` (a candidate
  in the window and not above the last row of a page is on the page).
- `LanCatchUpSafety!EchoesAreHeld`: `EchoHeld`, for one peer and rows that stay where a catch-up finds
  them (`Steady`: nothing is deleted, left without a number or older than the window, and the window
  holds all contents). Drops, restarts, rebuilt databases, failing reads and stores, full queues,
  captures out of order and contents that come from the peer are all in. Under `Steady` an echo is no
  excuse any more (`Excused`), so `Core` says more of an echo's number than it did, and needs to
  know where the content is that the filter remembers: whichever connection is registered has it
  taken or queued, or will bring it with the page that its unconfirmed catch-up has yet to read or is
  sending (`Ahead`), or has a broken cursor, which lets no checkpoint pass it; or else the capture that
  sends it is still queued before the capture held back for it (`Promised`, `EchoesSound`). A
  connection that opens has its whole catch-up ahead, because no task runs for it yet; this and what
  `Steady` means for the rows is `Grounds`. `KeptCarries` and `EchoesKept` cover the steps that only move
  messages along; the rest is a lemma per action.
- `LanCatchUpSafety!NothingIsForgotten`: `NothingForgotten`, the safety half of `OnlineDelivery`, under
  every fault of the model and for any number of peers. A capture numbered while the last page is
  read, sent or confirmed must be found by one of the two ways: its number is above the counter that
  `collect_catch_up` read first, and then its push is still to come on this connection, or it is not,
  and then it is on the page. `AllAttended` says so of a connection that is not confirmed yet
  (`CatchUpBrings`): what is due there is taken, queued, a capture under way, or not above the counter
  read and part of a page to come. It is inductive beside `IInv`, which it uses for what the requests
  ask for, for the page (`OnThePage`, `PageBrings`) and for a connection's having no task before it opens.
- `LanCatchUpRefinement!ImplementsPromise`: with `exempt` mapped to the contents that do not travel,
  were passed over by a window or judged an echo, every step is a step of `WatermarkSync` or none.
- `LanSessionsProofs!SessionsAreUnique`: at most one session per device that is not told to stop,
  and it is the registered one. Inductive once the registry is known to name no session that is over
  and an unused slot to have no ends (`WellFormed`).
- `LanSessionsProofs!UntrustedSessionsEnd`: without pairing anew (`"pair"` not among the events),
  a device that has removed its peer is left with no session that nothing ends. The invariant
  (`Quiet`) is that what is on the wire tells only of removals that hold; `Ebbs` is what every step
  does to trust and sessions. `sess_unlisted` shows that the assumption is needed.
- `LanSessionsProofs!SessionsAreWellFormed`: that `WellFormed`, on its own.
- `DataSwapProofs!OldDataIsKept`, `RowsKeepImages`, `CounterIsKept`, `SuccessMeansAll`,
  `FailuresAreUndone`, `TypeCorrect`: for any number of directories, operations, failures and
  crashes. The properties speak of places ("live or `.previous`") and of ends; the invariant
  (`Sound`) says for every step in between what lies where. `Kept` has the old data before the
  renames in the live place, after them aside, rows and images each by their own flag, and during a
  switch in the directory it leaves, from `point` on in both; `Installed` has the backup's data in
  the live place once its part is done, `Undoing` what the rollback has put back so far;
  `Matched` says of every database with which images it belongs, at rest and under way, and
  `Counted` that its counter is past what was issued under its epoch, in every place from which it
  can become live again: `.previous`, and both directories of a switch; and that the number an import
  carries over is past all of them. `SwitchClear`
  has the target of a switch hold nothing of its own, `WithImages` has the images replaced only
  by a backup that has some, `SettingsDone` follows the settings file. None of them is inductive alone: which
  database a rollback makes live depends on the flags (`Control`), and what the flags mean on the disk.
  `CounterIsKept` and `RowsKeepImages` have the exceptions of their properties: a cut between the
  rename of the backup's database and the counter that is put into it (`behind`), or its images
  (`split`), is the code's, and the theorems say how far it reaches. `Counted` and `Matched` therefore
  hold unless `behind`, or `split`; an import of a whole backup ends `split`.
- `DataSwapProofs!ImplementsReplace`: every step is a step of `DataReplace` or a stutter. The proof
  has one lemma for each way a step leaves the live place (`AsBefore`, `Taken`, `Gone`), one for the
  mixtures a cut leaves (`HalfImagesStay`, `ShowsMixes`), and one for each abstract action. Trying
  it found a case that the model had wrongly left among the sound ones: after a switch whose
  `unpoint` failed the manifest names one directory and `ImageStore` writes to another, and a later
  rollback that opens the pool again separates rows from images (`OpenBack`).
- `DataSwapProofs!PromiseKeepsWhole`: the promise alone implies that no row is seen without its image,
  unless a cut has split the data, and that importing a whole backup mends that.
- `ContentStoreProofs!RowsKeepImages`, `OneRowUnlessRaced`, `InHandIsKept`, `BackupIsWhole`,
  `TypeCorrect`: for any number of images and tasks and any `Work`. The four are inductive together
  once it is known that a remover is alone inside the reader-writer lock (`Alone`), that a task
  between its look-up and its insert is the head of `serial` (`SerialHeld`), that what it saw still
  holds but for a merge (`Midway`), and that what a remover or a backup has listed still holds
  (`Hands`).
- `OcrQueueProofs!SuspendedIsQuiet`, `KilledIsNotCharged`, `SuspensionsAreCounted`, `NoWakeIsLost`,
  `NoNoticeIsLost`, `TypeCorrect`: for any number of images and suspending tasks. `suspended` counts
  exactly the tasks at certain places (`Counting`, which `SuspensionsAreCounted` states on its own),
  so no release takes away another one's suspension, and no session starts while one of them holds
  (`Still`); a dead helper belongs to an invalid session (`Stale`), whose results are thrown away; a
  session that is invalid, about to end, or past its last look at the queue leaves a mark or a nudge
  behind (`Due`), which is what makes `NoLostWake` inductive; a task that sleeps has listened before
  it looked (`Heard`). `NoWakeIsLost` needs no assumption on overlapping suspensions; what the code
  queues without a nudge is excepted by `unsaid`, for no longer than until the next nudge.

Only model-checked: the liveness properties (`CatchUpEnds`, `OnlineDelivery`, `AnswerEnds`,
`Settles`, `TaskEnds`, `SuspensionHolds`), which are out of the prover's reach; of `OnlineDelivery` the
safety half is proved (`NothingForgotten`).

## Findings

- `lan_busy`: a `catchUp` request is ignored while `catching_up` is set (`sync/service.rs:1593`),
  and the flag is cleared only after the page that prompts the next request has been queued (the last
  one confirmed, too). A peer that answers quickly has its request ignored; neither side repeats it, so the
  catch-up stands still, and with it the checkpoints, until the connection is replaced. No content
  is lost: the watermark stays where it is. The comment above the code expects this only of a peer
  that misbehaves.
- `sess_unlisted`: `dial_peer` takes a late `reject { notPaired }` as a removal that still holds
  (`sync/service.rs:1442`) and drops the connections that `revoke` returns. If the devices were
  paired anew while the dial waited, the new pairing disappears from this side's list and its session
  runs on there until the connection breaks.
- `swap_previous`: the swap of an import starts by removing a left-over `.previous`
  (`backup.rs:1572`). If that fails, the rollback sees the left-over, takes it for the database it
  moved aside, removes the live one and puts the left-over in its place: what was copied since the
  earlier import is lost. `FailureRestores` holds with this case left out.
- `store_merge`: `merge_import` does not take `upsert_lock` (`backup.rs:1387`), so it can commit a row
  between a capture's look-up and its insert. The image has two rows then; deleting one removes the
  file under the other, which `db/items.rs:482` relies on never to happen. `OneRowEach` shows that
  this is the only way to a second row.

## Left out of these models

- *Both directions of one connection.* They share a queue; `LanCatchUp` has one direction, so two
  read loops that wait for each other's queues are not in it (listed as a hazard).
- *Time.* Back-off, the 60 s write and idle time-outs and the echo window are choices. A
  connection whose other end is silent is covered by `"drop"`.
- *A row whose image exists and cannot be read* (`sync/engine.rs:139`) fails each answer that
  includes it. `CollectFails` keeps the watermark sound; the catch-up does not end while the row
  stays as it is, and `CatchUpEnds` is checked without this fault.
- *Rows re-read by id.* `catch_up_page` reads ids and then rows; they are one step here.
- *Saving `peers.json`.* A save that fails, followed by a restart, would bring back an older
  watermark or an older peer list. An older watermark is safe (contents are sent again); loss of
  power between write and sync is not modelled.
- *Echo filter with several peers.* It is shared: a content taken from one peer is held back from the
  others (`PROTOCOL.md:195`), so `EchoHeld` is stated, and checked, with one.
- *Echo filter after a lost push.* The filter remembers the last content sent, not whether it
  arrived. With one peer and drops, restarts, rebuilt databases, failing reads and stores `EchoHeld`
  still holds, because the catch-up of the next connection brings what was lost. It fails once that
  row is no longer there to be caught up with: the push is lost with its connection, the row deleted
  (or without a number, or older than the window), and the same content copied again within
  `ECHO_WINDOW` (`sync/engine.rs:26`) is held back while the checkpoint passes its number. The
  properties about watermarks excuse it (`echoed`), and `EchoHeld` is checked and proved without these
  events (`EchoesAreHeld`).
- *Choice of addresses, discovery, the limit on pending handshakes, protocol versions, identity
  and encryption.* A dial reaches the other device or does not; a message arrives as it was sent,
  in order, or the connection breaks.
- *The code of a pairing.* `AnswerPair` accepts or refuses; how often a code may be tried is planned
  (`LanPairing`).
- *After a crash in a swap.* Nothing at start-up looks for `.previous`: the program starts with what
  is live, an empty database if nothing is, and the next import removes `.previous`. `OldDataKept`
  speaks of the disk until another operation begins. A death, or a rollback that stops, between the
  rename of the backup's database and `reset_after_import` leaves the counter of the backup: if the
  backup was made here earlier, its epoch is the one in use and numbers are given out again, against
  what `db/sync.rs:114` says. `CounterCovers` excepts it (`behind`), because nothing in the code keeps
  it from happening. It also excepts a database lost and created anew (`epochs = 2`): importing one's
  own backup afterwards can give out numbers of the former epoch again.
- *Rows without images after such a death* (`split`): nothing at start-up looks for them; a whole
  backup that is imported mends them. `RowsHaveImages` and `TakesEffectWhole` say so.
- *A rebase that fails* after a switch (`ops/storage.rs:351`) leaves `ImageStore` at the old root
  until the program restarts, and so does a manifest that could not be put back when the rollback of
  the next operation opens the pool (`OpenBack`); `RowsHaveImages` leaves both cases out.
- *Resources copied for an import* lie below the directory a switch may remove meanwhile; the import
  then fails and is rolled back (`InstallImages`).
- *The main database file of a full backup.* `checkpoint_database` ignores that the checkpoint may be
  busy, and the file is copied while captures go on; `ContentStore` takes the copy as one step.
- *A backup made during a merge* packs rows without images (`bare`), and OCR charges such an image an
  attempt, as for a file that is missing.
- *Overlapping pauses.* `PauseGuard` restores what it saw, so two swaps that overlap resume the
  watcher too early or leave it paused. The model has the guard and states nothing of it.
- *Repeat filter and write-back guard* (`watcher.rs:220`): both are windows of time.
- *Cleanup flags and thumbnails.* `take_due` clears what is due before it has been done, so a pass
  that fails is not tried again before the next trigger, whereas the comment at `cleanup.rs:373`
  says it is. Thumbnails may be made after their image was removed.
- *An extension enabled under somebody's empty suspension* (`ocr/mod.rs:262`): while the extension is
  off a suspension counts nothing, so that a session started by the enabling task can run during
  the other one's work. The model has this; `Quiet` speaks only of counted suspensions, because
  nothing else is true, and what is queued under the empty one nudges nobody (`unsaid`).
- *Images queued without a nudge* (`unsaid`), for which the next nudge must come from elsewhere: a
  merge import that fails after its rows are committed (`backup.rs:1391-1401`), an EcoPaste import
  that fails half way (`1263-1311`), and a start whose query of the queue fails
  (`ocr/mod.rs:147-153`). So it is for a session that ended for want of a thread or for a database
  error (`broken`). `NoLostWake` excepts them, no promise of the code covers them.
- *The 1.x application* (`src/src-tauri`) is superseded by the crates modelled here.

## Plan

Done: `WatermarkSync`, `LanCatchUp`, `LanSessions`, `DataSwap`, `ContentStore`, `OcrQueue`, with their
proofs. Next, in this order:

1. `ContentStore`'s `SwapData` shown to be a step of `DataReplace`.
2. `CapturePipeline`: overlapping pauses, repeat filter, write-back guard (`clipboard/watcher.rs`,
   `guard.rs`), composed for two devices that mirror each other.
3. `LanPairing`: the attempts a code allows, its refresh, parallel attempts
   (`sync/pairing.rs`). Worth proving: no more than five guesses are judged against one code.
4. Both directions of a connection and its queue.
5. Cleanup flags and scheduling, settings, updater hand-off, key hooks.
