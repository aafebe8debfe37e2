# mcpbrain: specifications, model checking and proofs

mcpbrain keeps one person's memory (mail, files, calendar, notes) in a local SQLite store. A
single daemon fills it, enriches it, and backs it up to Google Drive; other machines and a wizard
restore it. This directory holds TLA+ models of the parts of that program whose correctness
depends on the order of many small durable steps or on the interplay of its threads, the TLC runs
that check them on small instances, and TLAPS proofs of some of their invariants for every value of
the constants.

Everything here is translated from the source under `src/mcpbrain/`. `PROJECT.json` names, for
every definition, the lines it stands for, and for every property a plausible bug in those lines
("mutant") that the property catches.

## 1. The system

### Components and the state they keep

| component | code | state it keeps | operations |
|---|---|---|---|
| backup outbox | `backup_outbox.py` | `backup/outbox/*` (sidecars and their files), `pages.idx`, `capture.json` | capture (copy, diff, commit), sweep, coalesce |
| backup uploader | `backup_uploader.py` | `journal.json`; chain folders, files and manifests on Drive | upload step, commit, finish, discard |
| backup prune | `backup_prune.py` | `pending_deletes` of the journal; the same folders | prune step: queue, then trash |
| backup restore | `backup_restore.py` | `<backup>/restore` (verified downloads), the staged store | walk the candidates newest first, build, verify, swap, place |
| restore hold | `daemon.py` (start-up restore, probe), `control_api.py` (`/api/backup/auto`), `backup.py` (`swap_in_store`) | `restore_pending.json`, the watchdog's exits, the hold in memory | restore on first run, hold, probe, restart |
| daemon scheduler | `daemon.py` | bulk lock, progress stamps, cadence stamps, watchdog exits, stashed pass requests | cycle thread, maintenance thread, watchdog, control threads |
| sync queue | `sync/queue.py`, the queue tables of `store.py` | `sync_queue`, `sync_cursors` | enqueue-and-advance, work, fail, defer, complete |
| mail | `sync/gmail.py`, `sync/__init__.py` | the history cursor, the backfill floor and its empty count | list a page, reset, work a message, walk a backfill window |
| shared drives | `sync/drive.py`, `sync/__init__.py`, `ingest_cache.py` | a cursor and a floor per drive, chunks stamped with a drive, pending publications, known drives and their absences | list drives and changes, count absences, purge, extract or import, publish, collect, backfill |
| other sources | `sync/calendar.py`, `sync/anarlog.py`, My Drive in `sync/drive.py`, `reflow.py` | one cursor per source | discovery page by page, handlers |
| enrichment | `prepare.py`, `thread_enrich.py`, `drain.py`, the claim and push tools of `tools.py` | unit files, leases, inbox files; `enriched`, `enrich_state`, `enrich_attempts` of the chunks | prepare, claim, push, drain, give up |
| graph | `graph_write.py`, `resolve.py`, `graph_view.py`, `contract.py`, the merge of `store.py` | entities, relations with their validity, distinct pairs, field locks, hides | validate, upsert, merge, edit, hide |
| corrections | `graph_corrections.py` | the ledger `graph_corrections` with a snapshot per entry | submit, approve, decline, undo |
| review | `review_apply.py` | suggestion rows, audit rows | apply once |
| shared cache and organisation | `ingest_cache.py`, `org_*.py`, `fleet*.py` | files on shared drives, presence counters | publish, import, revoke |
| resumable upload | `drive_resumable.py`, the file loop of `backup_uploader._upload_item` | a session (uri, offset) and a count of mismatches in the journal | start, query, send a chunk, start over, verify |
| the rest | MCP server, tools, retrieval, records, configuration, tray, doctor, plugin | | request/response, reports, files |

### How they interact

* The **daemon's loop thread** runs, one after the other in each iteration: a sync cycle, retries
  of what Google refused (among them the probe of a pending restore), a capture when one is due,
  one time-boxed upload step, and a prune step with the budget that is left. So capture, upload
  and prune never overlap; they interleave with the store changing under them, with the process
  dying between any two writes, and with Drive.
* They share two files by convention only: `capture.json`, written by capture and removed by the
  uploader, and `journal.json`, written by the uploader and by prune.
* A **cycle** syncs, prepares units for enrichment and drains answers, in that order. Discovery puts
  rows on the queue and moves its cursor in one transaction; handlers work the rows; the backfill
  walks into the past beside them. Model **sessions**, which are other processes, lease unit files and
  answer them in the inbox at any moment of a cycle. **Other installs** read and write the artifact
  folders of the shared drives.
* **Extraction**, the passes that merge duplicates, the graph UI and the user's corrections (a tool the
  model calls, or the dashboard) write the same graph tables, each in transactions of its own.
* The **maintenance thread** runs cadence passes and the watchdog; both threads take the bulk lock
  for chunk writes. The **HTTP threads** of the control API can restore a store while the loop runs.
* A **restore** replaces the store file as a whole. Before anything writes, a daemon with an empty
  store restores; while Google cannot be reached it holds everything else.

### What is hard

Crashes between two renames or between a remote commit and its local record; an index that
describes another item than the state does; files that rot or vanish in the outbox for a week while
a laptop is offline; a merge of items some of which are half uploaded; a retention rule evaluated
on what has been committed *so far*; a restore that must tell "broken" from "not reachable right
now"; a check of emptiness that is acted on minutes later on another thread; a cursor, a queue row, a
backfill floor and a remote history that together must leave no message out; one file in two feeds
after a move; a unit file rewritten while its old contents are being answered; corrections undone in any
order over a graph that extraction and merges go on changing; a watchdog that cannot see a wedge but only
stamps that are old. `PROJECT.json` lists
the hazards one by one, at their lines, with the properties that cover them.

### What makes each part correct

* **Outbox**: the next delta misses no changed page whichever of its three files a capture got to
  write; no sweep, name clash or merge loses an un-uploaded item; an item's name is never reused.
* **Uploader**: a manifest on Drive rebuilds exactly the captured store; what the journal calls
  committed is on Drive; what is queued for deletion is in no manifest; the outbox drains.
* **Resumable upload**: no chunk starts where Drive is not; what counts as uploaded is the captured
  file; no second copy; every upload ends.
* **Prune**: never the newest restore point, never a point in retention, never a chain without a
  restorable successor.
* **Restore**: the newest usable point, over all chains; no older one for a transient reason.
* **Hold**: an empty store is not filled while a good restore point exists, a populated one is not
  overwritten, failures surface, and the hold ends.
* **Mail**: every message is stored, queued, ahead of the cursor or ahead of the backfill; new mail
  arrives whatever else fails; the backfill ends.
* **Shared drives**: what the store has of a file is what the drive has, or something that will
  correct it is on its way; nothing stays of a drive the file has left or of one the account lost.
* **Enrichment**: a chunk is marked only when its text was read or it was given up; everything is
  marked or set aside in the end.
* **Corrections**: what the user said stays in force, whatever is observed and merged; what he undoes
  leaves no trace, in whatever order.
* **Scheduler**: a wedged daemon is restarted, a healthy one is not; gated passes get the lock.

## 2. The modules

```
RestorePoints                 abstract: snapshots wait, are published exactly, or are superseded
      ^ refinement
BackupOutbox  <- BackupUploader  <- BackupPrune      BackupRestore      RestoreHold   DaemonLoop
                  ^                  ^      ^             ^                    ^         ^
             MCBackup  BackupUploaderProofs MCPrune    MCRestore               DaemonProofs
                                                       BackupRestoreProofs

SyncQueue  <- MailSync            SharedDrives         EnrichQueue          DriveResumable
               ^      ^                ^                    ^                      ^
           MCMail  MailSyncProofs   MCDrives            MCEnrich           DriveResumableProofs
                                    SharedDrivesProofs  EnrichQueueProofs

KnowledgeGraph  <- GraphCorrections  <- MCCorrections
                          ^
                   KnowledgeGraphProofs
```

### BackupOutbox (`backup_outbox.py`)

`items` are the sidecars in the outbox with the pages and records they carry; `idx` and `cap` are
`pages.idx` and `capture.json`, `None` when absent or unreadable; `mem` is what the running process
still has to do. A page's bytes are a member of `Val` and a store is a function from its page
numbers to `Val`; a digest of a content is the content itself (SHA-256 is taken to be injective).

| action | code |
|---|---|
| `CaptureDelta`, `CaptureBase` | `capture` and `_capture_copy` up to the sidecar's rename, with the sweep they begin with. Which of the two is possible follows the code's conditions (`CanExtend`, `NothingNew`); the size and age rules, whose numbers are abstracted, leave a free choice to take a base. |
| `SaveIndex`, `SaveState` | the other two renames of `_commit`. `Crash` may come before either. |
| `Coalesce` | `coalesce` with `_first_run`: the run may be cut by the deadline after any second item; with `left < b.seq` the process dies while unlinking the merged-away sidecars. |
| `Sweep` | `_sweep` alone, as in a capture that finds nothing new. |
| `LoseFile`, `CorruptFile`, `LoseIndex`, `LoseState` | the environment: what `_local_complete`, `_corrupt_item` and `_load_state` exist for. |

### BackupUploader (`backup_uploader.py`)

The journal's tables (`entries`, `committed`, `files`, `started`, `sent`, `deletes`, `refused`) and
Drive (`folders`, `manifests`, `nextId`). An upload step decides everything from what is on disk,
so each of its durable writes is an action of its own and a crash between two of them is simply
another action coming next; only the rest of a capture and the rest of a discard depend on memory.
`StartItem`, `SendFile`, `PutManifest`, `RecordCommit`, `FinishDropState`, `FinishDelete` are the
steps of `_upload_item`, `_commit` and `_finish_local`, in the code's order by their guards.
`DiscardGap`, `DiscardMissing`, `DiscardCorrupt`, `DiscardRefused`, `DiscardUnmergeable` are the five
reasons of `_discard_from`; `DiscardDropState` and `DiscardVictim` are its later writes.
`LoseJournal` is `load_journal` setting an unreadable journal aside.

`fp` (in items and manifests) is a history variable: the records as they were at the capture.

### DriveResumable (`drive_resumable.py`, `_upload_item` of `backup_uploader.py`)

What BackupUploader takes in one step as `SendFile`, `Mismatch` or `DiscardRefused`, request by request,
for one file. `sessions` is what Drive has of each session, in quanta; `journal` the session or the file
id the journal has; `session` and `ask` are `upload_file`'s own.

| action | code |
|---|---|
| `Start`, `DiscardRotten` | the digest against the sidecar, then `upload_file` with the journal's session |
| `Initiate`, `Query`, `SendChunk` | the three requests; `Answered` is what 308, 200 and 404 lead to, with the save of the session |
| `SendChunkBadly`, `LoseAnswer`, `RequestFails`, `Deadline` | a chunk Drive keeps a part of, or gets garbled; an answer lost or not saved before a crash; a failure, after which Drive is asked or the step ends; the budget |
| `Confirm`, `ConfirmRefuses`, `ConfirmFails`, `Shrank` | `_confirm` with `verify_uploaded`; `_note_mismatch` with its limit |
| `Forget`, `Rot` | Drive forgets a session; the local file rots |

### BackupPrune (`backup_prune.py`)

Adds `queued`, `touched`, `cutoff` and `pruning` to the pipeline. The k-th capture happens at time k
and a chain is named for its first one; a prune may run with any cutoff that does not lie behind an
earlier one. A prune step evaluates the hold once, queues (`PruneQueue`) or holds (`PruneHeld`), and
then trashes the queue entry by entry; `TrashChainCrash` dies between Drive and the journal.
`Pipeline` is any step of BackupUploader.

### BackupRestore (`backup_restore.py`)

`restore_latest` as a merge of chains by capture time: `ReadHead`, `Pop`, `Fetch`, `Fallback`,
`Swap`, `PlaceRecords`, `NothingLeft`, with `Abort` for every failure that is no evidence against
the candidate, and `Crash` between the swap and the records. What is on Drive and what is damaged is
any choice of the initial state. How pages are put together is `Rebuilt` in BackupUploader.

### RestoreHold (`daemon.py`, `control_api.py`, `backup.py`)

`Boot`, `StartWithout`, `StartHeld`, `StartSwap`, `StartPlace` are `_startup_restore`; `Hold` and
`Release` its two helpers, each with a marker file that may refuse to be written or removed.
`RetryUnlink` and the `Probe...` actions are `_retry_pending_restore`, with the watchdog's restart
budget. `WizardCheck` and `WizardSwap` are the two ends of `/api/backup/auto`, on another thread.

### SyncQueue (`sync/queue.py`, the `sync_queue` table of `store.py`)

Operators on a queue as a value: a function from the items it has rows of to the rows, each with its
place `at` in the order of `modified_at`. `Enqueued` adds a page, `Upserted` is its `ON CONFLICT` clause
(a row of the same version keeps its attempts and its backoff), `Due` the newest-first selection with
its limit (`Newest`), `Failed` the capped backoff, `Completed` the deletion that makes a row done.
`next_attempt_at` is counted down in cycles (`Aged`).

### MailSync (`sync/gmail.py`, the Gmail side of `sync/__init__.py`)

A message is its position in the mailbox's history, so the history id is the number of messages so
far; `day` is the day each arrived. `batch` are the rows of `work_queue`'s snapshot that are left,
`item` the one whose handler has returned. `cursor` is the anchor of a round and the page it has got to,
`floor` and `empty` the backfill's two cursors. `pc` is where a cycle is.

| action | code |
|---|---|
| `Bootstrap`, `ListPage`, `DiscoveryBudgetSpent`, `ResetToHead`, `ListFails` | `discover_gmail`: no cursor; a page with its rows and its resume state in one commit; the budget; 404/410; any other error, which ends the cycle and drops a stale page token |
| `BeginWork`, `StoreItem`, `ItemGone`, `CompleteItem`, `FailItem` | `work_queue` over its snapshot with `handle_gmail_item`: the chunks and the deletion of the row are two transactions |
| `BudgetSpent`, `BackfillDone` | the returns of `run_sync_cycle` before the backfill, and its done state |
| `BeginWindow`, `FetchMessage`, `WindowFails`, `AdvanceFloor`, `CountWindow` | `_step` of `progressive_backfill_step` with `backfill_gmail`: newest first up to the cap, the floor and the empty count in two writes |
| `Crash` | the process dies; what is committed stays |
| `Arrive`, `Delete`, `NextDay`, `HistoryExpires` | the mailbox |

`reset` and `unwalked` are history variables: messages the code gives up by a rule of its own (see
"Disagreements" below).

### SharedDrives (the shared-drive block of `sync/__init__.py`, `sync/drive.py`, `ingest_cache.py`)

A drive's change feed is the set of files it still has to report. `rows` are queue rows, worked in
any order (their `modified_at` is the file's own time, so a row may wait behind any other).
`chunks[f]` is what the store has of a file: the drive it was stamped with and the version, whole or
not. `pending`, `known`, `absent` and `floor` are the other tables and cursors; `artifacts` are the files of
the drives' artifact folders. `age` is the backfill window a file was last modified in: an edit puts it in
window 0, whose end is the time of the first walk.

| action | code |
|---|---|
| `ListDrives`, `Bootstrap`, `ListChange`, `EndDiscovery` | `list_shared_drives` (which may come up short, or raise), `discover_shared_drive(s)` |
| `CountAbsences`, `PurgeDrive`, `SaveKnown`, `PresenceFails` | `note_drive_presence` with `purge_drive` |
| `ForgetDrive`, `ForgetFails` | the loop over revoked drives with `purge_drive_sync_state` |
| `TakeRow`, `RemoveChunks`, `FinishRemove`, `Import`, `Extract`, `FinishUpsert`, `JobFails` | `handle_shared_drive_item`, `_drop_file_chunks`, `_cache_first_extract_one` |
| `PublishFile`, `Collect` | `publish_pending_shared_drive_artifacts`, `gc_superseded_batch` |
| `BeginBackfill`, `BackfillFile`, `SkipFile`, `EndBackfill`, `RecordMisses` | `_shared_drive_backfill_step` window by window, `backfill_shared_drive` with its cap and the files it skips, the last of the empty windows, the second publication |
| `Edit`, `Move`, `ChangeAccess`, `PeerPublishes` | Drive and another install |

The floor is the number of windows walked. A window may end with files left (`max_files`: the files of the
model are some of the drive's, any number of others may come before them), and an empty one may be the last
(`stop_after_empty_windows`: other windows before it may have been empty too). The floor moves in both cases,
as it does in the code, and the files it passes are `excused` unless a change or a row still leads to them
(`Unmet`). A move to nowhere is a file deleted or taken out of the account's sight: `discover_shared_drive`
asks for `removed`, which Drive leaves false for a file in the trash, so trashing is no event here.
`CountAbsences` counts all drives in one step; the code goes drive by drive, and the count of one says nothing
of another.

### EnrichQueue (`prepare.py`, `drain.py`, `tools.py`)

A chunk is a number in the order of its message and index, its text a version. `units` maps a unit's
id, which is the set of its threads, to its parts; `live` are the leases younger than fifteen minutes;
`held` is what a session has read; `inbox` the answers. `copyOf` is `dup_of`: a My Drive or note chunk (`Carried`)
that says what an enriched one says is marked without being read.

| action | code |
|---|---|
| `Arrive`, `Edit` | `upsert_chunk`: new text makes a chunk un-enriched, its copies are released (`_release_stale_dups`) and it may become a copy itself (`_carry_duplicate`); its attempts stay, and its cold state unless it is a copy |
| `Prepare` | `prepare_units`: threads by their newest chunk, gates, `_split_long_thread`, packing and `write_units`, with its window and its budget |
| `Claim`, `Expire`, `ExpireHeld` | `brain_enrich_claim`; a lease runs out |
| `Push`, `PushFlawed`, `Die` | `brain_enrich_push`; an answer with a part left out, an invalid extraction or one that matches nothing; a session that ends |
| `ReadFile`, `Skip`, `Apply`, `Mark`, `Unlink`, `Consume`, `Keep`, `EndDrain` | `drain`, one inbox file: stamping and regrouping parts, an attempt or the give-up for what cannot be applied, applying and then marking, removing the answer, the unit and the lease |
| `Crash` | the daemon's process dies between any two of these |

`read`, `givenUp` and `excused` are history variables: the chunks whose present text was in an applied
extraction, those consumed at the cap, and those marked for one of four reasons: the text changed since it
was given out (`Changed`), the chunk is of a part of a unit file that was rewritten since (`Rewritten`), of a
part the answer left out before another one, or of a unit that is gone or no longer split (`LeftOut`), or of a
message the extraction names and a part the worker was not given (`Joined`). What else an extraction marks
must have been read: a part left out after the others, or stamped by its thread alone, is not excused.

### KnowledgeGraph (`graph_write.py`, the merge of `store.py`)

Operators on a graph as a value, since each stands for one write transaction: `Upserted` and `Derived`
are `upsert_relation_in` (a real sighting and derived content) with the recency rule `Competed`; `Merged`
is `_merge_entities_tx`, `Snapshot` what it returns, `Unmergeable` and `Unmerged` are `_unmerge_tx`. The
foreign keys are operators too: deleting rows clears pointers (`WithoutRows`), and what is left at the
commit must be `Sound`. `WellFormed` is what the schema promises of every graph. Of an entity there is its org, its lock and its hide; names with aliases, e-mail
addresses, roles, notes and communities are kept by the code along the same lines, and sources with the
strength they give decide nothing here.

### GraphCorrections (`graph_corrections.py`, `graph_view.py`, `resolve.py`, `review_apply.py`)

`ledger` is the table of corrections in the order of its ids, `graph` the graph, `checked` the merges that
another writer has found allowed and not yet made. History variables: `mergedInto`, where an entity went;
`userEdited`, what the user overrode in the UI; `raced`, the entities merged against a correction made since
the check; `met`, the user's merges that another writer's merge has met, that is, changed a row or a pair of
(`Meet`); and `crossed`, that a merge was undone which a later one, of either kind, had met.

| action | code |
|---|---|
| `State` | `submit` of what the user states or confirms: `Apply...` for each operation, with its refusals |
| `Propose`, `Approve`, `Decline` | the rest of `submit`, with its duplicates and its cap, `approve` and `decline` |
| `Undo` | `undo`: the guard `Blocked`, then `Undo...`; a foreign key that fails refuses it |
| `Observe`, `WriteField` | extraction: `upsert_relation`, a setter that leaves locked fields alone |
| `EditField`, `HideOnGraph` | the graph UI |
| `CheckMerge`, `MergeChecked` | a merge by the UI, the deterministic and e-mail passes or a duplicate verdict: `is_distinct_pair` and `has_user_corrections` in one transaction, `merge_entities` in another |

Which of two entities survives a merge (the better connected one) is a choice; role addresses, types and
entities of the organisation, which merges refuse, are not there.

### DaemonLoop (`daemon.py`)

`cycle` and `maint` say what the two threads do; `age` are the progress stamps; `held`, `paused`, `due`,
`streak` and `exits` are the hold, the pause, a due gated pass, the failed cycles in a row and the
watchdog's recent exits. `Tick` is the clock: a pause, a cycle outside the lock and an upload step
each last less than two ticks; a capture, a pass under the lock and a call that hangs may last any
number.

| action | code |
|---|---|
| `SkipCycle`, `BeginCycle`, `SyncDone`, `CycleDone`, `CycleFails` | `run_one` and the loop of `run` with its stamps and its error streak |
| `WantSection`, `EnterSection`, `LeaveSection`, `EndYield` | `_cycle_bulk_section`: unbounded acquire, hand-off to a waiter |
| `StartBackup`, `StartCopy`, `CaptureBusy`, `Copied`, `Packed`, `UploadProgress`, `EndStep` | `_backup_under_bulk_lock`, `maybe_backup`, `_bounded_bulk_lock`, `upload_backup_step`; the revival of a dead maintenance thread |
| `Wake`, `GetLock`, `SkipPass`, `EndPass`, `SleepOn` | `_maintenance_loop`, `_run_periodic_passes`, `_run_gated_pass` |
| `KeepWatch`, `Restart` | `_stalled_phase`, `_watchdog_may_exit`, `_recover_from_stall`, `_restart_process` |
| `Hang`, `ThreadDies`, `Pause`, `Resume`, `HoldLifts`, `FallsDue`, `ExitAgesOut` | what happens to them |

### RestorePoints

What the backup promises, in four actions: a snapshot is taken, published unchanged, dropped for a
newer one, or given up after a fault. `BackupUploader!Promise` maps the pipeline onto it: `waiting`
are the items, `points` what a restore of each manifest would *rebuild*.

## 3. The runs

| run | instance | what it shows |
|---|---|---|
| `backup` | 3 captures, 2 pages, 2 page values, outbox of 4 files, 1 crash, 1 fault | all safety properties of capture and upload; about 550,000 states |
| `backup_live` | 3 captures, 1 page, outbox of 3 files, 1 crash, 1 fault | refinement of RestorePoints; the outbox drains |
| `drive_resumable` | a file of 3 quanta, 5 sessions, 4 faults, 2 mismatches | the offset is Drive's, the copy the captured one and the only one, the upload ends; about 200,000 states |
| `prune` | 3 captures, 3 pages, a crash or a fault | the retention properties; about 556,000 states |
| `restore` | a chain of two points, a chain of one, a legacy file; 1 failure | every order and every damage pattern; about 977,000 states |
| `restore_hold` | 2 restarts in the window, 5 changes of reachability, 2 failures | the hold; about 17,000 states |
| `mail_sync` | 2 old and 2 new messages, 3 days, pages, work and windows of one; 1 deletion, 1 fault, 1 expiry; one message may never be fetchable | nothing is forgotten, new mail arrives, the backfill ends; about 551,000 states |
| `drive_sync` | 2 drives, 1 file of either of 2 ages, 2 events, 2 changes of access, 1 fault, threshold 1 | the file's copy is right or about to be, none lingers; about 12.2 million states |
| `drive_revoked` | one age, 1 event, threshold 2 | what was taken from a lost drive goes; about 1.1 million states |
| `enrich` | a My Drive file of 3 chunks, each a part: one late and a copy of the first, one gated and a copy once edited, one edit; 2 sessions, 1 fault | only what was read is marked, cold stays, all is enriched in the end; about 428,000 states |
| `daemon_loop` | stall after 3 ticks, 1 hang or death, 1 pause, 1 slow unit of work, 1 restart in the window | the watchdog and the bulk lock; about 1.2 million states |
| `corrections` | 4 entities, 2 relations, 13 corrections to choose from; 3 entries of the ledger, 2 steps of other writers, together at most 6 with an entry counted twice | the user's corrections hold and undo leaves no trace; about 1.4 million states |

The properties, in words:

* `RestoreExact`: each restore point rebuilds the store captured for it. `OnePointPerSeq`: the two
  manifests a crash can leave for one item agree. `InflightMatches`: a file id kept for an item in
  flight is a file with that item's bytes, though the code skips it by name. `JournalBacked`: a
  committed seq has its manifest on Drive, naming the journal's files. `CaptureMissesNothing`: see
  above. `StateBacked`: a state that a chain continues from has its item waiting or on Drive.
  `NoNeedlessDiscard`: crashes alone never cost an item. `NoDeleteInUse`, `NothingDropped`: above.
* `PublishesSnapshots` (refinement) and `OutboxDrains` (liveness).
* `OffsetIsDrives`: the offset a chunk is about to be sent from is the number of bytes Drive has.
  `SentIsCaptured`: what the journal takes for uploaded is the captured file, unless it rotted in the
  step that finished it. `NoStrayFile`: a finished file is named by the journal or trashed.
  `UploadEnds` is liveness.
* `NewestPointKept`, `RetentionKeptUncrashed`, `SuccessorRestorable` for prune.
* `RestoresNewest`, `NoneMeansNone`, `SkipsOnlyBroken`, `Terminates` for restore.
* `OutageNeverFills`, `BrokenSurfaces`, `HoldEnds` for the hold.
* `NothingForgotten`: a message is stored, queued, ahead of the cursor or of the backfill, or in the
  two history variables. `NewMailArrives` and `BackfillEnds` are liveness.
* `Covered`: a file of a drive with a cursor is in the store as it is, or its change is ahead of the
  cursor, queued, or to be met by the backfill; or it is one the code passes by a rule of its own
  (`BetweenTheTwo`, `LostBy`, `Unmet`, `WriteChunks`; see below). `NothingLingers`: chunks stamped with a drive the file
  has left have a removal on its way. `RevokedGoes` is liveness: a known drive that stays lost while
  another one is listed is purged.
* `MarkedWasRead`: a chunk is marked enriched only if its present text was in an applied extraction,
  or it was given up, or one of the four reasons holds; or it is a copy of such a chunk and says the same.
  `ColdNotConsumed`: an extraction of a file does not mark
  the chunks a gate set aside. `AllEnriched` is liveness.
* `AsCorrected`, in two parts, but for what the user overrides himself and for an entity that an automated
  merge raced (`raced`, see below).
  `EntitiesAsCorrected`: a corrected field keeps value and lock, a hidden entity stays hidden, a merged one
  is gone, and a lock or a hide belongs to a correction that stands; and the graph is `WellFormed`: no
  triple has two rows, no row relates an entity to itself or to one that is gone, no pointer dangles.
  `UnmergedHold`: of entities that no merge has been about, a triple is as the *last* standing verdict on it
  states, and has no verdict without one; a pair is told apart just while a correction says so.
  `FactsAsCorrected`: the facts of merged entities too, followed to where the entities went: what is
  rejected is not current, what is asserted is, entities told apart stay apart, and a verdict or a pair
  belongs to a correction that stands; unless a crossed merge was undone. `AsIfNever`: as long as nobody
  else writes, and no crossed merge was undone, the graph tells what applying the standing corrections in
  their order to the first graph would, and is the first graph, to the row, when none stands.
* `NoNeedlessRestart`: an action property; a restart finds the cycle thread in a call that never
  returns, or a capture or a pass that outlasted a tick. `WedgeEnds`: a wedge, with or without the
  lock in hand, ends in a restart, unless the watch is off by design. `GatedPassRuns`: a due pass gets
  the lock from a cycle thread that takes it again and again.

**Bounds, and why they are enough.** Three captures are a base, a delta after it and a third item
that meets what a crash or a discard left (another delta, or a second chain): the code relates an
item to its predecessor, to the state and to one other chain, never to more. Two pages make a
segment's *range* larger than its contents; three pages make the prune hold reachable (a base under
half of the one before). The outbox caps 4 and 3 are reached, so capture pauses. One crash with one
fault is what the recovery code is written for; two crashes in a row were too many states to keep as
a run. `MaxFiles` exceeds what an instance can upload. Mismatch limits 1 and 2 stand for the code's 3:
the counter's value matters only at its limit. In `prune`, `OneFault` allows a crash or a fault.
`Val` and `Recs` are symmetric in the safety runs; the liveness run uses no symmetry. The five runs of
backup and restore disable deadlock checking: capture counts, faults and restores are bounded or end,
and a finished system rightly stops. The runs of the daemon's cycles check for deadlock: a cycle
always goes on.

In `mail_sync`, pages, windows and the work limit of one message make every list longer than its
limit; two days before the last and `StopAfter` 2 let the backfill run past the archive, and a
message over a window's cap exists. Backoffs of 1 and 3 cycles are the shape of the code's five.
In `drive_sync` one file in two drives is what a move needs, and two events with two changes of
access cover a move and an edit, or a move there and back, across a revocation; artifacts and rows of
different files do not meet in the code. Two ages make a window before the file's, one of its own and one
it has left by an edit; threshold 1 makes a purge reachable in each cycle, threshold 2 is `drive_revoked`'s. In
`enrich` a split file, a unit rewritten while it is held, a part left out, a lease that lapses, a copy and
its release all happen, and each of the four reasons is met; budgets are counted in chunks of size one. It has one
thread, so units that pack parts of several threads, and messages of mail that arrive late in their thread,
which the module has and the proofs cover, do not happen in it. In
`drive_resumable` three quanta allow an offset behind, at and ahead of a partial chunk, four faults a
partial chunk, a lost answer, a forgotten session and rot together; five sessions are enough, since
`UploadEnds` would fail if a behaviour ran out of them. In `corrections` three entries are a correction,
another one in its way and a third that undoing in the wrong order would meet; two steps of other writers
are a merge that is checked and made, or a relation observed twice. Two graphs of the instance meet: a
singleton relation (`works_at`) with a rival, and one that accumulates, whose copies collide when the two
organisations turn out to be one. That ann may know apex too, and that the two people may be one, lets
two merges meet on one row. Runs with one entry and more steps, or more entries and fewer steps, up
to seven million states, showed nothing else. In `daemon_loop`, `Stall` 3 is the least with which an idle pause, a
cycle and an upload, one tick each, are no stall (thirty minutes against one each in the code).

The type invariants of BackupUploader, BackupPrune, BackupRestore, RestoreHold, MailSync, SharedDrives and
DriveResumable are proved (section 4); no run repeats them. `WellFormed` is the type of the graph of the
corrections, and a part of `AsCorrected`.

**Fairness.** `backup_live` assumes weak fairness of the steps of an upload and of finishing a
capture or a discard: `Daemon.run` calls capture and upload once per iteration for ever, an upload
step takes the oldest item and retries it, so a write that stays possible is made. Faults and new
captures carry no fairness. `restore` assumes it of the walk (start-up retries it, the files already
verified are kept); `restore_hold` of the loop and of start-up (the supervisor restarts the
process), not of Google: `HoldEnds` has "Google stays reachable" as its premise. `mail_sync` and
`drive_revoked` assume it of the steps of a cycle, since `Daemon.run` begins one after another, and in
the mail strong fairness of beginning a backfill window: what there is to embed is finite, so it does
not use up every cycle's budget. `enrich` assumes turns of the cycle, steps of a drain, leases that run
out and sessions that answer what they hold; and strongly that answers keep being read and units
claimed, whichever they are: without sessions nothing is enriched. `drive_resumable` assumes that steps
follow each other while the item waits and, strongly, that each of the three requests is let through
again and again by a budget; faults have none, and are bounded. `daemon_loop` assumes that both threads run, that waits and passes end (the bounded acquires
and the passes' own limits), that time passes and that a pause is ended; a call that hangs has none.

### Disagreements

These are definitions of the modules that no run checks, because the code does not have them. Put as
the only property into the named configuration, each yields a trace.

| property | where | what the trace shows |
|---|---|---|
| `RecordsExact` | `Backup.cfg`, with two members of `Recs` | A crash between a sidecar and `capture.json` (`backup_outbox.py:586-588`), after which the records change back: their fingerprint is compared with `capture.json` only (`:540`), and the next restore point has the wrong records. |
| `RetentionKept` | `Prune.cfg` | A crash in the commit of a new base lets the old chain outlive it; prune takes it for finished (`backup_prune.py:152-155`) and trashes points inside the retention window that `:15-17` promises. Without a crash the rule holds (`RetentionKeptUncrashed`). |
| `UnreadableSurfaces` | `RestoreHold.cfg` | `daemon.py:1629-1632` promises an error for a wrong key. The probe drops manifests that do not decrypt and takes what is left, nothing, for "no snapshot" (`:5760`). |
| `NeverOverwritten` | `RestoreHold.cfg` | `daemon.py:1626` "NEVER overwritten once it has content". The wizard's check (`control_api.py:677`) is not repeated at the swap, minutes later. |
| `PartialIsReported` | `RestoreHold.cfg` (an invariant) | `daemon.py:5641-5645` says a store without its records "is reported". After a crash between the swap and the records (`backup_restore.py:581-582`) it is not. |
| `GapIsCovered` | `MailSync.cfg` (an invariant) | "reset to head and let backfill cover the gap" (`sync/gmail.py:151`). The backfill walks from its floor, which is older than the gap as soon as it has taken a step. |
| `CorpusCompletes` | `MailSync.cfg` with `Poisons <- PoisonArchive` | "so the corpus eventually contains everything" (`sync/__init__.py:52`). One message that can never be fetched fails its window for ever; nothing older is met. |
| `EveryFileCovered` | `SharedDrives.cfg` (an invariant) | Files touched after the pin are "already covered" by the delta (`sync/__init__.py:556-560`). Not those changed between the first backfill window and a first listing that came later, nor those of a purged drive whose cursors stayed. Nor are untouched ones all met by the backfill: the floor moves past what a window leaves at `max_files` (`sync/drive.py:1216-1218`, `sync/__init__.py:952`), past a file it skips "this round" (`sync/drive.py:1225-1234`), and the walk stops for good at the last of the empty windows (`sync/__init__.py:933`). |
| `ArtifactsComplete` | `SharedDrives.cfg` (an invariant) | `sync/drive.py:699-704` keeps a partial extraction from being published. A row pending from an earlier, whole extraction publishes what the store has *now*, which may be the partial one. |
| `BackupIsNoStall` | `DaemonLoop.cfg` | `daemon.py:3456-3459` restamps so that a long backup is no stall. During the step only "backup" is stamped: a capture longer than the stall limit, followed by an upload, is restarted in that upload. |
| `ShippedIsVouched` | `Resumable.cfg` (an invariant) | "Never ship bytes the sidecar does not vouch for" (`backup_uploader.py:516`). The digest is taken before the upload, Drive's copy is compared with the local file after it (`:541`): a file that rots in between is found equal to itself. |

| `OnlyReadIsMarked` | `Enrich.cfg` (an invariant) | A dropped part of a long thread "stays enriched=0 and re-queues next cycle, instead of being silently marked done" (`drain.py:631-635`). When the answer leaves out the *first* part, `_stamp_part_doc_ids` pairs by position (`:357-360`) and marks that part's chunks with the extraction of the second; the test (`tests/test_drain.py:1138-1141`) drops the last one. A text that changed, a rewritten unit and a unit that is gone give shorter traces of other kinds (`Changed`, `Rewritten`, `Joined`). |

Of the corrections, in traces of `Corrections.cfg` with the excuse that `GraphCorrections` names for
each taken away:

* "Undoing correction N must not silently overwrite something a LATER, still-applied correction M did"
  (`graph_corrections.py:496-497`). Merge acme and apex, assert that ann works at somebody else, undo the
  merge: the assertion retired a row that the merge had moved, and the undo puts that row back as it was,
  current, because the guard looks for the *winner's id* in the later payload and an assertion names its
  rivals nowhere else. Nobody else need write for it; this is why `AsIfNever` compares the rows of
  singleton relations only when nothing stands any more, and `AssertionHolds` excuses them.
* The same promise, and "Reverse a _merge_entities_tx exactly, or refuse" (`store.py:384`), by merges alone
  (`FactsHold` in place of `FactsAsCorrected`): assert that ann knows apex, merge ann and bob, merge acme and
  apex, undo the first. The second merge drops the asserted row as a copy of the one bob brought ("bob knows
  acme"), the undo takes that one back to bob, and nothing says any more that ann knows them. Rule iii of the
  guard (`graph_corrections.py:591-597`) asks only whether a later correction names the winner, and acme and
  apex are neither ann nor bob; `_unmerge_tx` looks only at the rows of its own snapshot
  (`store.py:413-440`). `crossed` stands for such an undo.
* By the same trace as the first "a person has one current value" (`graph_write.py:836-838`) is not so: two rows of a
  singleton relation are current.
* "only the user may merge a corrected entity" (`store.py:7049-7050`): the check and the merge are two
  transactions, and a lock, a hide or a "not the same" made in between is lost (`raced`).
* "Undo that correction first" (`graph_view.py:476`) does not help once another writer's merge has moved
  the pair onto its winner: undoing deletes the pair it was stated for (`Elsewhere`). In the same way a
  verdict may stay on a row that such a merge moved.
* Two corrections that such merges made corrections of one thing: undoing one takes the other's row or pair
  with it (`Fused`, `Withdrawn`). Where such a merge moved or dropped the row, undoing an assertion made over
  a rejection of the same triple does not bring the rejection back (`MovedByOthers`).
* An org the user corrects to a value that counts as none ("unknown": nothing refuses it,
  `graph_corrections.py:232`) keeps its lock, but a merge into the entity takes the loser's org instead
  (`store.py:332`). The runs do not ask for one; the proof met it (`FieldHolds`).
* A rejected row of a singleton relation is current again, verdict and all, when the assertion that had
  retired it is undone after a merge carried the rejection onto it; `RejectionHolds` therefore asks of a
  singleton's row only for the verdict.

What the properties that hold leave out, and why, is in the models: `unwalked` (mail over a window's cap,
of the install day, or older than a year without mail), `reset` (see `GapIsCovered`), `BetweenTheTwo`,
`LostBy`, `Unmet` (see `EveryFileCovered`) and a file extracted for a drive it has just left (`WriteChunks`),
and the four parts of `Unread` (see `OnlyReadIsMarked`). So these properties do not catch the losses they
name, and the hazards in `PROJECT.json` say so.

Seen while reading, without a property: a changed chunk keeps its attempts, and giving up consumes a
group when any of its chunks is at the cap; giving up also consumes cold chunks; an extraction that
matches nothing costs every message of its unit an attempt; units whose chunks are done are removed
only by being answered; a chunk becomes a copy of one that was only given up, and is never asked about; a wedge that follows more than three failing cycles is never restarted; a
capture that hangs defers the watchdog for ever; the long gated pass that is restarted is documented
as a known gap (`daemon.py:5143-5173`) and excused; an interrupted first listing of the calendar stores
the absent cursor as a string (`sync/calendar.py:428`); the size hold of prune looks at two bases and is
released by the next one (`backup_prune.py:124`).

## 4. The proofs

### BackupUploaderProofs

Proves, for every `Val`, `Recs`, number of pages, captures, crashes, faults
and files that satisfy the modules' assumptions:

* `TypeCorrect`: `Spec => []TypeOK`. `TypeOK` alone is not inductive: that a delta's sequence number
  stays within `Seqs` needs a count. `TypeInv` adds `SeqBound`, that no item, state or pending
  write has a sequence number above `now`, the captures so far; each capture adds one to both. That
  a merge stays an item needs that its members have page maps with a well-defined newest one, which
  lemmas on `NewestOf` give from the finiteness of the outbox.
* `JournalIsBacked`: a committed chain can be rebuilt from Drive.
* `InflightIsOwn`, `PointsOfASeqAgree`, `DeletesSpareRestorePoints`, `CapturesMissNothing`,
  `StatesBacked`, `RestorePointsExact`, `CrashesCostNothing`: the safety properties of the run
  `backup`, `Spec => []InflightMatches` and so on.
* `NothingIsDropped`: the action property, `Spec => NothingDropped`.
* `PipelinePublishes`: the outbox, the uploader and Drive implement `RestorePoints`.

All follow from one inductive invariant, `PipelineInv`, whose parts say what each of the pieces of state
that a crash can tear apart still knows of the others:

* `ChainInv`: two items of a chain have different names and lie apart or one within the other (a merge
  whose members are not all gone), and the later one was taken later.
* `InflightInv` with `IdsInv`: what is started is the *first* uncommitted item of its chain, so a name in
  the journal means one item; no merge takes it, and no discard leaves its files in the journal. A Drive
  id belongs to one file, in the journal or in manifests, and is queued for deletion only when it is in
  neither. `NoDeleteInUse` needs that the files a mismatch throws away are not yet named by a manifest.
* `JournalInv`: the manifest is on Drive before the journal says so; a chain with a committed seq has an
  entry, so `StartItem` cannot bring a folder back under an old commit.
* `ContentInv`: seqs stand for stores. Every store known under a chain and seq (of an item, a manifest,
  the state) is the same one, and an item's segment holds every page in which its store differs from any
  store between its two seqs. This is what makes a merged segment replay exactly.
* `StateInv`: `capture.json` is never behind Drive by more than the outbox holds, and what it continues
  is in the outbox or on Drive, although the three files of a capture are written one by one and merges
  take items away from under it.
* `RestoreInv`: of a chain, seq and kind there is one file, and each manifest rebuilds the store that was
  captured. `PutManifestExact` is where these meet: the manifest just written names its own item's files
  and those of the manifest before it, and between the two there is no gap.
* `CleanInv`: without damage every item is whole, the sequence of uncommitted items of a chain starts at
  what is committed and has no gap, and each manifest is committed or under way; so none of the reasons
  to discard an item applies.

The refinement maps each action to one of four kinds of step (`TakeStep`, `PublishStep`, `DropStep`,
`FaultStep`) or to none; a merge and a discard are drops that the property's rule allows, because a later
snapshot waits or because there was a fault.

Of BackupPrune, for any retention, and with prunes that run, are held, or die at any point between the
steps of the pipeline:

* `NewerStays`: `PruneSpec => SuccessorRestorable`, whatever crashes, faults or loses the journal;
* `NewestStays`, `RetentionStays`: `PruneSpec => NewestPointKept` and `PruneSpec =>
  RetentionKeptUncrashed`, while no process died;
* `PruneTypes`: `PruneSpec => []PruneTypeOK`.

`PipelineInv` does not carry over: a prune that dies between Drive and the journal leaves a journal that
calls committed what is in the trash. What survives everything, `QueueInv`, speaks of the chains that are
*not* queued: each one with a committed item has that item's manifest on Drive (`CommittedStand`), the
folder of each one the journal knows stands (`EntriesStand`), and what is queued lies below a committed
chain (`QueueBelow`). The newest committed chain is therefore never queued (`NewestUnqueued`), and it is the
successor that `SuccessorRestorable` asks for. For chains the journal does not know, the argument is about
Drive's own times: a folder's last activity is no older than its chain (`FoldersTouched`).

The other two need that chains come one after the other, which a crash in a base's commit undoes (`RetentionKept`
under "Disagreements"): `UncrashedInv`, under `crashes = 0`. Nothing of a chain is captured after the next base
(`InOrder`, with `StateLast` for what `capture.json` will continue), the oldest item of the outbox is of
its oldest chain (`OldestChain`), so the outbox is done with a chain once a newer one is committed
(`OlderDone`). Then no upload can add to a queued chain, and a chain's age as the prune reckons it, the
time of the last item *committed*, is that of the newest manifest there is: a manifest is recorded, is of
the item under way, or is of a base (`Recorded`), which a discard never undoes (`SentUpSpared`) and the
loss of the journal cannot hide.

### BackupRestoreProofs

Proves, for any chains, depths, times, damage and aborted attempts: `NewestIsRestored`
(`Spec => []RestoresNewest`), `NoneIsNone` (`Spec => []NoneMeansNone`) and `OnlyBrokenSkipped`
(`Spec => []SkipsOnlyBroken`).

The walk is a heap of the newest unseen point of each chain. `HeadsAbove` says that every restore point
is a head, skipped, the candidate, or below the head of its chain; `CandNewest`, that none that is left
is newer than the candidate. Both need what `IsTiming`
says of the capture times: they grow with the seq within a chain. `SwapInv` ties the store that is swapped in to the candidate.

### DriveResumableProofs

Proves, for a file of any size and any number of faults, sessions and mismatches:

* `OffsetNeverGuessed`: `Spec => []OffsetIsDrives`.
* `SentIsTheCapture`: `Spec => []SentIsCaptured`.
* `NoCopyLeftBehind`: `Spec => []NoStrayFile`.
* `TypeCorrect`: `Spec => []TypeOK`.

None of the first three is inductive alone. `Inv` adds `StepInv`: a running step and the journal name
the same session; a session the step has dropped while the journal still names it is one that Drive has
forgotten; a step that runs has found the file as captured, or the file rotted since; and what is sent
is what the local file was when Drive's copy was compared with it. The first part is what saving a
session *before* its first chunk gives (the mutant of `NoStrayFile` saves it later); it makes the file a
lost answer leaves finished the one the journal names, which the next step asks about. Lemmas say what
storing a chunk does to Drive's sessions (`StoresType`) and what every answer re-establishes
(`AnsweredInv`), once for queries and the two kinds of chunk.

### DaemonProofs

Proves of the hold, for any number of restarts, changes of reachability and failures:

* `OutageNeverFillsHolds`: `Spec => []OutageNeverFills`, and `BrokenSurfacesHolds`:
  `Spec => []BrokenSurfaces`.
* `TypeCorrect`: `Spec => []TypeOK`.

The two say what must not be so in the loop; what makes them inductive is `FreeOnlyIfTold`: with an empty
store and a restore point, the loop is free, or one release of a marker away from it, only if somebody has
been told. That the pending release counts matters: `RetryUnlink` frees the loop without looking at
Drive again. `HoldInv` adds that a start-up has no release pending, so none outlives a restart.

And of the two threads, for any stall limit above two ticks and any bounds:

* `WatchdogSparesTheHealthy`: `LoopSpec => NoNeedlessRestart`.

A stamp is old only because time passed, so the invariant, `WithinBudget`, says for each state of the
cycle thread how old the oldest of its stamps can be when nothing that may last any time has lasted a
tick: a pause adds one, the rest of the cycle one, an upload step one, and every way back to the pause
renews them all. The largest, three, is what the assumption `Stall > 2` has room for; in the code each is
minutes and `STALL_S` is thirty. The stamp of the maintenance thread has no place in it: that thread
renews it just before it looks. `LoopTypes` is the type invariant of the parts the argument needs. The
two machines share no state; they are proved in one module because both are the daemon's.

### MailSyncProofs

Proves, for a mailbox of any size and any number of days, failures, crashes, deletions and expiries:

* `NoMessageForgotten`: `Spec => []NothingForgotten`.
* `TypeCorrect`: `Spec => []TypeOK`.

`NothingForgotten` is a union of places a message may be in, and each step moves messages from one to
another; what the source of a move knows has to be carried along. `CursorInv`: a page lies after its
round's anchor, so a failed round lists again from before it, never from after. `ItemInv`: a row is
completed only for a message that is stored or gone, although the two are different transactions.
`WindowInv`: a message of the window's days is stored, still to be fetched, or beyond the cap, and the
floor is where the window ends, so moving it to the window's start passes only over those. Lemmas on
`Enqueued`, `Aged`, `Completed` and `Failed` say which rows a queue has after each.

### SharedDrivesProofs

Proves, for any drives, files, edits, moves, changes of access, failures and crashes:

* `FilesStayCovered`: `Spec => []Covered`, and `LeftFilesGo`: `Spec => []NothingLingers`.
* `DrivesTypes`: `Spec => []TypeOK`.

A job of the extraction holds what it read before the file moved, was edited or was purged; a purge
forgets cursors drive by drive; a row is removed in another transaction than the one that did its work.
The parts of `DrivesInv` say what each of these still knows: `WorkInv` of a row being worked on (it is in
the queue, and the version in hand is the file's or a change is on its way), `RowsInv` of the queue, `WalkInv`
and `MissInv` of the window being walked (its drive's only one this cycle; a file is missed once), `PurgeInv`
of the drives being forgotten, and `HashInv` that no version in an
artifact, a publication or the store is from the future, so that equal means current. `CoverInv` is
proved for every drive with a cursor, whether the account still sees it or not; that is stronger than
`Covered`, which asks it of drives that are accessible, and it is what survives access coming back.

### EnrichQueueProofs

Proves, for any chunks, units, workers, expiries and crashes: `MarkedChunksWereRead`
(`Spec => []MarkedWasRead`) and `ColdStaysCold` (`Spec => []ColdNotConsumed`).

A drain stamps, then marks, in steps of its own, while gates close and texts change. `DrainInv` says what
it still knows between two of them: what it is about to mark was read, given up or excused, and is not
set aside *now* (`MarksInv`); what an answer, and the file being drained, has extractions of was in the unit
the worker was given (`AnswersInv`, `ExtsGiven`). `StampedAccounted` is the argument about parts: when the
unit file is as the worker read it, a part is stamped only if the parts before it do not take all the
extractions, so a stamped part was answered or was left out before one that was (`FitBefore`: extractions of
earlier parts only would fit). `CopyInv` says of copies that they say what their originals say, which are
marked and no copies themselves; `UpsertCopies` is where releasing stale copies is needed.

### KnowledgeGraphProofs

Proves, about every graph with any number of entities, rows and pairs that is `WellFormed`:

* `UnmergeUndoesMerge`: `_unmerge_tx` does not refuse what `_merge_entities_tx` has just done, and
  leaves the very graph before it, to the row, the pointer and the field.
* `MergeKeepsWellFormed`: a merge leaves a well-formed graph.

The snapshot has no copy of most rows. `OtherRowKept` says why that is enough: such a row is no triple of
the loser's, so the merge changes at most its pointer, and only one into the loser's rows, which the
snapshot lists. For the pairs `RepointedPair` tells the three cases apart: a pair is kept, repointed, or
falls away because it was the two themselves. `MovedApart` is the heart of the second theorem: two rows
that are not dropped never become one triple, since no row relates an entity to itself. Proving it found
that a graph whose next id is 0, which stands for NULL, was well-formed; the definition excludes it now.

And about `GraphCorrections`, for any number of corrections, entities and steps of the other writers:

* `EntitiesStayCorrected`: `Spec => []EntitiesAsCorrected`.
* `UnmergedStayCorrected`: `Spec => []UnmergedHold`.
* `CorrectionsStay`: `Spec => []AsCorrected`, the two together.

The proof of the first goes in two halves. The first shows that every action keeps the graph well-formed, one lemma
for each operation and its undo (`AssertKeeps`, `UndoMergeKeeps`, ...; an undo restores a snapshot over a
graph that went on changing, and it is the foreign keys, `Sound`, that refuse it when the snapshot no
longer fits), and sorts the steps by what they do to the corrections of entities: `Effect` has eleven kinds,
one of them `Idle`. Assertions, rejections and sightings touch rows only and are idle.

The second half is about the other ten kinds. Undoing brings back what a snapshot saw, so the invariant has to
speak of all the snapshots that stand. `LockInv`, `FieldInv` and `HideInv` have three parts each, of the
same shape: the lock, the value, the hide that is there *now* is that of the last correction;
the one a correction of the same thing saw *before* is that of the correction before it; and the one a
*merge* took from its loser, or found at its winner, is that of the last correction at that time. Each
case of an undo then reads one of them. That it is the right one follows from the guard: what the
undo guard lets through is later than every other correction of that entity (`FieldNotBlocked`,
`HideNotBlocked`, `MergeNotBlocked`), in the order of application and not of submission. What other writers do
to a corrected entity is excused only when the user did it, or when a merge raced it: `LockStill`,
`FieldStill` and `HideStill` are where the lock in `WriteField` and the check of the automated passes
are used.

The second theorem is about facts. Its invariant is `CorrInv` with `FactsNow`, which again says of every
snapshot that stands what it will bring back:

* `RowsTell`: a row tells what the last standing verdict on its triple states, none if there is none;
  `SeenTell`: the row a verdict *saw* tells what the verdict before it states; `RivalsTell`: a rival that an
  assertion retired was current and told what stood then. `VerdictRows`: the row of a verdict is there.
* `IdsKeep`: an id that a row or a snapshot has stands for one triple for good, since ids are never given
  twice. Without it an undo, which writes by id, could land on another triple.
* `PairInv`: of unmerged entities a pair is there just for a correction, and for one only, so undoing that
  one is right to delete it. `HomeInv` ties `mergedInto` to the entities that are gone.

The steps are sorted by what they do to verdicts (`StepKinds`): one is made (`FactsAdded`), one is undone
(`FactsDropped`), or none (`FactsStill`). The last asks of the writers that they leave the rows of the other
entities as they tell: `UpsertFacts` and `DerivedFacts` for extraction, whose recency rule ends rows of
singleton relations only and writes no verdict, and `MergeOff` and `UnmergeOff` for a merge and its undo, which
change of the rows of other entities only the pointers. An undone verdict brings back what it saw: that
this is what the *now* last verdict states follows from the guard, since an entry that may be undone shares
no triple, of its own or of its rivals, with any later one (`LaterElsewhere`). The set `EverMerged` only
grows, so a triple that is apart has always been (`ApartStays`), and what is known of it is known since the start.

What the corrections say of the facts of *merged* entities is model-checked only: where an entity went after
several merges (`Home`) is a recursion over data, and `AsIfNever` compares with a fold.

### What the proofs assume, and what they leave

Each proof has one step per action or conjunct. The invariants were model-checked before they were proved. The
assumptions are those on the constants (`ConstantsAssumption`, `UploaderAssumption`,
`ResumableAssumption`, `HoldAssumption`, `DaemonAssumption`, `BackoffAssumption`, `MailAssumption`, `GraphAssumption`,
`CorrectionsAssumption` and the `NoneAssumption` of the outbox, the restore and the shared drives, that
`None` is no capture in progress, no restore point, no chunk and no job); TLC evaluates them in the runs. `CorrectionsAssumption` says that requests are of
the form that validation lets through, and that the first graph is well-formed, without a lock, a hide, a
verdict or a pair that no correction states: none of them is ever written otherwise.

Model-checked only: `FactsAsCorrected` and `AsIfNever` of the corrections, and everything about liveness and fairness
(`OutboxDrains`, `Terminates`, `HoldEnds`, `UploadEnds`, `NewMailArrives`, `BackfillEnds`, `RevokedGoes`,
`AllEnriched`, `WedgeEnds`, `GatedPassRuns`), which is out of the prover's reach.

## 5. What is not modelled

Byte sizes and time in seconds (their rules are choices), stall counters and status files, which no
decision reads; legacy `.enc` pruning and deletions that Drive refuses for good; the encryption and
segment formats; a mismatched file whose deletion fails and is queued (`backup_uploader.py:546`, `:185-190`):
no restore point names it either way. `StartItem` is three durable writes in the code (the folder, its entry
in the journal `:318-323`, the item in flight `:475-476`); the next step finds or repeats each. `FinishDelete`
and `DiscardVictim` unlink an item's files and then its sidecar (`:270-274`); a crash in between leaves an
item that is committed already, or that the next step discards as one with lost files. Restore
takes from Drive that later captures have later times (`IsTiming`; no code enforces it), one manifest for
each chain and seq (`backup_restore.py:250-257` keeps one) and legacy files with a time of creation
(`:143-147` drops others). Two machines of one person writing to one Drive folder; a wall clock that runs
backwards. A remote call of the backup that fails, or whose answer is lost, leaves at most a file
nothing names, and is no action of the pipeline; of one file's upload, the adaptive chunk size and the
limit on failures in a row are choices. An item that is discarded after its last file was finished, but
before its id was saved, leaves that file on Drive. Of the sync: calendar, My Drive, anarlog and the reflow, attachments
and drafts, infrastructure folders. A message of a backfill window that is gone takes one of the window's
places (`Fetched`), which the code gives to the next page (`sync/gmail.py:396`): the model leaves more
unwalked, not less. Of the enrichment: the
text contract, block units and merge answers; noise and trivial threads, which the code marks without an
extraction, and of which `MarkedWasRead` therefore says nothing; the deletion of chunks, which releases
copies as an edit does; the quarantine of answers that do not parse (`drain.py:479-498`) and the fallback to
the unit's messages for one whose ids match nothing (`:394-397`), which here is an extraction that matches
nothing. Of the graph: names, aliases, addresses, roles and observations of an entity, how candidates
for a merge are found, communities and lint; a loser's id that is created again, which refuses the undo of
its merge. Of the daemon: stashed pass requests, building of services, configuration changes,
updates, and the lock handed to a successor process. Components that are not modelled at all are listed in `PROJECT.json` with the
reason.

## 6. Plan

1. Done: the backup pipeline, prune, restore, the hold and the resumable upload; the sync queue with
   mail and shared drives; the enrichment queue; the two threads of the daemon; the corrections of
   the graph.
2. `SendFile`, `Mismatch` and `DiscardRefused` as an abstract module that `DriveResumable` implements, and
   an abstract module over `MailSync` and `SharedDrives`: every remote change is stored or on its way.
3. The stash of pass requests between `DaemonLoop` and `EnrichQueue`, and the review queue (apply once).
4. Proofs: of `FactsAsCorrected`, facts of entities merged once, where `Home` needs no recursion.

Names that recur: one module per component, `MC<Name>` for its instance, `<Name>Proofs` for its theorems.
