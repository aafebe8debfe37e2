---------------------------- MODULE SharedDrives ----------------------------
(***************************************************************************)
(* Shared drives: the shared-drive block of a sync cycle                   *)
(* (src/mcpbrain/sync/__init__.py), the handlers of sync/drive.py and the  *)
(* presence counting, import, publishing and collection of                 *)
(* ingest_cache.py.                                                        *)
(*                                                                         *)
(* A cycle lists the drives, lists each drive's changes, counts absences,  *)
(* works queue rows, publishes what it extracted to the drive's artifact   *)
(* folder, which other installs read and write too, and backfills.  Files  *)
(* are edited, moved between drives and removed while it runs; access is   *)
(* revoked and granted; the process may die between any two steps.         *)
(*                                                                         *)
(* A drive's change feed is the set of files with a change after the       *)
(* cursor: Drive reports a file once, as it is when it is listed.  A file's *)
(* content hash is its version.  Rows are worked in any order (modifiedTime *)
(* is the file's, not the change's) and may wait for ever.  My Drive,      *)
(* infrastructure folders, reflow, unsupported files and embedding are not  *)
(* modelled.                                                               *)
(*                                                                         *)
(* The backfill walks a drive window by window into the past.  A file's age *)
(* is the window it was last modified in; a file that is edited falls in   *)
(* the first one, whose end is fixed when it has been walked.  Files are   *)
(* some of a drive's files: the others may fill a window to its cap.       *)
(***************************************************************************)
EXTENDS Naturals, FiniteSets

CONSTANTS Drives, Files, None,
          MaxEvents,       \* BOUND: edits, moves, removals, publications elsewhere
          MaxAccess,       \* BOUND: changes of access
          MaxFaults,       \* BOUND: crashes, failures, partial extractions
          Oldest,          \* BOUND: the age of the oldest file, in windows
          Threshold        \* ingest_cache_revocation_threshold

ASSUME DrivesAssumption ==
  /\ MaxEvents \in Nat /\ MaxAccess \in Nat
  /\ MaxFaults \in Nat /\ Oldest \in Nat /\ Threshold \in Nat \ {0}
  /\ None \notin Drives \cup Files

VARIABLES loc,         \* the drive a file is in, or None
          ver,         \* its version
          age,         \* its age, in windows of the backfill
          accessible,  \* the drives this account can see
          changed,     \* per drive: the files its feed has after the cursor
          artifacts,   \* per drive: the published artifacts
          events, access,
          fed,         \* the drives with a cursor
          rows,        \* sync_queue: [drive, file, event]
          chunks,      \* per file: its chunks in the store, or None
          pending,     \* shared_drive_pending_publish: [drive, file, hash]
          floor,       \* drive:<id>_backfill_until: the windows walked; past
                       \* Oldest, the backfill of the drive is over
          known,       \* ingest_cache.known_drives
          absent,      \* ingest_cache.absent:<id>
          pc,
          listed,      \* drives_fs: the drives this cycle works with
          purging,     \* the drives this cycle purges
          job,         \* the row or backfill file being worked, or None
          walk,        \* the drives whose window is left for this cycle
          todo,        \* the files left of a backfill window
          misses,      \* what a backfill extracted and has not recorded yet
          keep,        \* keep_maps
          faults,
          excused      \* history: files lost for one of the reasons below

remoteVars == <<loc, ver, age, accessible, changed, events, access>>
storeVars  == <<fed, rows, chunks, pending, floor, known, absent>>
cycleVars  == <<pc, listed, purging, job, walk, todo, misses, keep>>
vars == <<remoteVars, artifacts, storeVars, cycleVars, faults, excused>>

Versions == 1..(MaxEvents + 1)
Row      == [drive : Drives, file : Files, event : {"upsert", "remove"}]
Pending  == [drive : Drives, file : Files, hash : Versions]
Content  == [ver : Versions, full : BOOLEAN]
Artifact == [file : Files, hash : Versions, content : Content]
Chunks   == [drive : Drives, content : Content]
Job      == [drive : Drives, file : Files \cup {None}, hash : Versions \cup {0},
             row : BOOLEAN, hit : BOOLEAN]    \* hit: the window processed a file

ASSUME NoneAssumption == None \notin Chunks \cup Job

Phases == {"idle", "discover", "presence", "purge", "forget", "work", "handle",
           "extract", "record", "removed", "publish", "backfill", "window"}

TypeOK ==
  /\ loc \in [Files -> Drives \cup {None}] /\ ver \in [Files -> Versions]
  /\ age \in [Files -> 0..Oldest]
  /\ accessible \subseteq Drives
  /\ changed \in [Drives -> SUBSET Files]
  /\ artifacts \in [Drives -> SUBSET Artifact]
  /\ fed \subseteq Drives /\ known \subseteq Drives
  /\ rows \subseteq Row
  /\ \A r, s \in rows : r.drive = s.drive /\ r.file = s.file => r = s
  /\ chunks \in [Files -> Chunks \cup {None}]
  /\ pending \subseteq Pending
  /\ \A p, q \in pending : p.drive = q.drive /\ p.file = q.file => p = q
  /\ floor \in [Drives -> 0..(Oldest + 1)]
  /\ absent \in [Drives -> 0..Threshold]
  /\ pc \in Phases /\ listed \subseteq Drives /\ purging \subseteq Drives
  /\ job \in Job \cup {None} /\ walk \subseteq Drives /\ todo \subseteq Files
  /\ misses \subseteq Pending /\ keep \subseteq Pending
  /\ faults \in 0..MaxFaults /\ events \in 0..MaxEvents /\ access \in 0..MaxAccess
  /\ excused \subseteq Files

Stamped(d) == {f \in Files : chunks[f] # None /\ chunks[f].drive = d}
RowsOf(d)  == {r \in rows : r.drive = d}

-----------------------------------------------------------------------------
(* What happens on Drive.                                                   *)

\* A change of file f in drive d reaches the feeds that have a cursor.
Reported(f, ds) == changed' = [d \in Drives |-> IF d \in ds \cap fed
                                                THEN changed[d] \cup {f} ELSE changed[d]]

Event == events < MaxEvents /\ events' = events + 1

Edit(f) ==
  /\ loc[f] # None /\ Event
  /\ ver' = [ver EXCEPT ![f] = @ + 1]
  /\ age' = [age EXCEPT ![f] = 0]
  /\ Reported(f, {loc[f]})
  /\ UNCHANGED <<loc, accessible, access>>

\* To another drive, out of the account's sight (a deletion; a file in the trash
\* is still there), or back.
Move(f, d) ==
  /\ d # loc[f] /\ Event
  /\ loc' = [loc EXCEPT ![f] = d]
  /\ Reported(f, {loc[f], d} \ {None})
  /\ UNCHANGED <<ver, age, accessible, access>>

ChangeAccess(d) ==
  /\ access < MaxAccess
  /\ access' = access + 1
  /\ accessible' = IF d \in accessible THEN accessible \ {d} ELSE accessible \cup {d}
  /\ UNCHANGED <<loc, ver, age, changed, events>>

Remote == /\ \E f \in Files : Edit(f) \/ \E d \in Drives \cup {None} : Move(f, d)
          /\ UNCHANGED <<artifacts, storeVars, cycleVars, faults, excused>>

Access == /\ \E d \in Drives : ChangeAccess(d)
          /\ UNCHANGED <<artifacts, storeVars, cycleVars, faults, excused>>

Put(d, a) == artifacts' = [artifacts EXCEPT ![d] =
               {b \in @ : b.file # a.file \/ b.hash # a.hash} \cup {a}]

\* Another install publishes the current version of a file.
PeerPublishes(f) ==
  /\ loc[f] # None /\ Event
  /\ \A a \in artifacts[loc[f]] : a.file # f \/ a.hash # ver[f]
  /\ Put(loc[f], [file |-> f, hash |-> ver[f], content |-> [ver |-> ver[f], full |-> TRUE]])
  /\ UNCHANGED <<loc, ver, age, accessible, changed, access>>
  /\ UNCHANGED <<storeVars, cycleVars, faults, excused>>

Fault == faults < MaxFaults /\ faults' = faults + 1

-----------------------------------------------------------------------------
(* Discovery: list_shared_drives, discover_shared_drives.                   *)

ListDrives ==
  /\ pc = "idle"
  /\ \/ listed' = accessible /\ pc' = "discover" /\ UNCHANGED faults
     \/ Fault /\ listed' \in SUBSET accessible /\ pc' = "discover"
     \/ Fault /\ listed' = {} /\ pc' = "work"        \* the call raises
  /\ UNCHANGED <<remoteVars, artifacts, storeVars, purging, job, walk, todo, misses, keep, excused>>

InStore(f) == chunks[f] # None /\ chunks[f].drive = loc[f] /\ chunks[f].content.ver = ver[f]

\* Files that changed after a window of the drive and before its first listing:
\* neither of the two ever meets them again.
BetweenTheTwo(d) ==
  {f \in Files : IF loc[f] = d THEN ~InStore(f) /\ age[f] < floor[d]
                 ELSE f \in Stamped(d)}

\* The first listing of a drive: its cursor starts at the head of the feed.
Bootstrap(d) ==
  /\ pc = "discover" /\ d \in (listed \cap accessible) \ fed
  /\ fed' = fed \cup {d}
  /\ changed' = [changed EXCEPT ![d] = {}]
  /\ excused' = excused \cup BetweenTheTwo(d)
  /\ UNCHANGED <<loc, ver, age, accessible, events, access, artifacts, rows, chunks, pending,
                 floor, known, absent, cycleVars, faults>>

\* One page with one change: its row and the cursor in one transaction.
Kind(f, d) == IF loc[f] = d THEN "upsert" ELSE "remove"

\* Mutant: a row that is queued already is kept as it is.
WithRowIfNew(d, f) == IF \E r \in rows : r.drive = d /\ r.file = f THEN rows
                      ELSE rows \cup {[drive |-> d, file |-> f, event |-> Kind(f, d)]}

WithRow(d, f) == {r \in rows : r.drive # d \/ r.file # f}
                 \cup {[drive |-> d, file |-> f, event |-> Kind(f, d)]}

ListChange(d, f) ==
  /\ pc = "discover" /\ d \in listed \cap accessible \cap fed /\ f \in changed[d]
  /\ rows' = WithRow(d, f)
  /\ changed' = [changed EXCEPT ![d] = @ \ {f}]
  /\ UNCHANGED <<loc, ver, age, accessible, events, access, artifacts, fed, chunks, pending,
                 floor, known, absent, cycleVars, faults, excused>>

\* The budget is spent or the rest fails: a drive's failure is its own.
EndDiscovery ==
  /\ pc = "discover"
  /\ pc' = "presence"
  /\ UNCHANGED <<remoteVars, artifacts, storeVars, listed, purging, job, walk, todo, misses,
                 keep, faults, excused>>

-----------------------------------------------------------------------------
(* Revocation: note_drive_presence, purge_drive, purge_drive_sync_state.    *)

ToWork == pc' = "work"

\* The count; an empty listing while drives are known counts nothing.  The drives
\* that reach the threshold are purged.  The code counts and purges drive by
\* drive; the count of one says nothing of another.
Gone == known \ listed
Due  == {d \in Gone : absent[d] + 1 >= Threshold}

Counts == listed # {} \/ known = {}

CountAbsences ==
  /\ pc = "presence"
  /\ IF Counts
     THEN /\ absent' = [d \in Drives |-> IF d \in listed THEN 0
                                         ELSE IF d \in Gone \ Due THEN absent[d] + 1
                                         ELSE absent[d]]
          /\ purging' = Due
          /\ pc' = "purge"
     ELSE ToWork /\ UNCHANGED <<absent, purging>>
  /\ UNCHANGED <<remoteVars, artifacts, fed, rows, chunks, pending, floor, known,
                 listed, job, walk, todo, misses, keep, faults, excused>>

\* Drives that are purged and keep their cursors: if access comes back, nothing
\* meets these files again.
LostBy(ds) == {f \in Files : loc[f] \in ds /\ chunks[f] = None}

\* Anything raised in here leaves the drives that were listed to be worked.
PresenceFails ==
  /\ pc \in {"presence", "purge"} /\ Fault
  /\ purging' = {}
  /\ excused' = excused \cup LostBy(purging)
  /\ ToWork
  /\ UNCHANGED <<remoteVars, artifacts, storeVars, listed, job, walk, todo, misses, keep>>

PurgeDrive(d) ==
  /\ pc = "purge" /\ d \in purging /\ d \in known
  /\ (Stamped(d) # {} \/ absent[d] # 0)
  /\ chunks' = [f \in Files |-> IF f \in Stamped(d) THEN None ELSE chunks[f]]
  /\ absent' = [absent EXCEPT ![d] = 0]
  /\ UNCHANGED <<remoteVars, artifacts, fed, rows, pending, floor, known,
                 cycleVars, faults, excused>>

\* Mutant: only the drives of this listing are remembered.
RememberedListed == listed

Remembered == (known \cup listed) \ purging

SaveKnown ==
  /\ pc = "purge" /\ \A d \in purging : Stamped(d) = {} /\ absent[d] = 0
  /\ known' = Remembered
  /\ pc' = IF purging = {} THEN "work" ELSE "forget"
  /\ UNCHANGED <<remoteVars, artifacts, fed, rows, chunks, pending, floor, absent,
                 listed, purging, job, walk, todo, misses, keep, faults, excused>>

Forgotten(d) == /\ purging' = purging \ {d}
                /\ pc' = IF purging' = {} THEN "work" ELSE "forget"

\* Queue rows, cursors and pending publishes go in one transaction.
ForgetDrive(d) ==
  /\ pc = "forget" /\ d \in purging
  /\ rows' = rows \ RowsOf(d)
  /\ pending' = {p \in pending : p.drive # d}
  /\ fed' = fed \ {d}
  /\ changed' = [changed EXCEPT ![d] = {}]
  /\ floor' = [floor EXCEPT ![d] = 0]
  /\ Forgotten(d)
  /\ UNCHANGED <<loc, ver, age, accessible, events, access, artifacts, chunks, known, absent,
                 listed, job, walk, todo, misses, keep, faults, excused>>

\* "best-effort, never fatal": the drive is forgotten, its cursors are not.
ForgetFails(d) ==
  /\ pc = "forget" /\ d \in purging /\ Fault
  /\ Forgotten(d)
  /\ excused' = excused \cup LostBy({d})
  /\ UNCHANGED <<remoteVars, artifacts, storeVars, listed, job, walk, todo, misses, keep>>

Presence == \/ CountAbsences \/ PresenceFails \/ SaveKnown
            \/ \E d \in Drives : PurgeDrive(d) \/ ForgetDrive(d) \/ ForgetFails(d)

-----------------------------------------------------------------------------
(* work_queue, handle_shared_drive_item, _cache_first_extract_one.          *)

\* A row of a drive that is not listed raises and stays: it is not taken.
TakeRow(r) ==
  /\ pc = "work" /\ r \in rows /\ r.drive \in listed
  /\ IF r.event = "remove"
     THEN /\ job' = [drive |-> r.drive, file |-> r.file, hash |-> 0,
                     row |-> TRUE, hit |-> FALSE]
          /\ pc' = "handle"
     ELSE /\ loc[r.file] \in accessible           \* files().get, else it raises
          /\ job' = [drive |-> r.drive, file |-> r.file, hash |-> ver[r.file],
                     row |-> TRUE, hit |-> FALSE]
          /\ pc' = "extract"
  /\ UNCHANGED <<remoteVars, artifacts, storeVars, listed, purging, walk, todo, misses, keep,
                 faults, excused>>

\* Mutant: a removal drops the file's chunks whichever drive they came from.
DroppedAny(f, d) == None

\* The chunks stamped with this drive; a copy in another drive keeps its own.
Dropped(f, d) == IF f \in Stamped(d) THEN None ELSE chunks[f]

RemoveChunks ==
  /\ pc = "handle"
  /\ chunks' = [chunks EXCEPT ![job.file] = Dropped(job.file, job.drive)]
  /\ pc' = "removed"
  /\ UNCHANGED <<remoteVars, artifacts, fed, rows, pending, floor, known, absent,
                 listed, purging, job, walk, todo, misses, keep, faults, excused>>

Done(d, f) == {r \in rows : r.drive # d \/ r.file # f}
Cleared(d, f) == {p \in pending : p.drive # d \/ p.file # f}

\* The artifacts are removed at best effort; then the row is deleted.
FinishRemove ==
  /\ pc = "removed"
  /\ pending' = Cleared(job.drive, job.file)
  /\ \/ artifacts' = [artifacts EXCEPT ![job.drive] = {a \in @ : a.file # job.file}]
        /\ UNCHANGED faults
     \/ Fault /\ UNCHANGED artifacts
  /\ rows' = Done(job.drive, job.file)
  /\ job' = None
  /\ pc' = "work"
  /\ UNCHANGED <<remoteVars, fed, chunks, floor, known, absent, listed, purging,
                 walk, todo, misses, keep, excused>>

\* The window goes on with its next file, a row with recording what it missed.
NoFile == [job EXCEPT !.file = None, !.hash = 0]

AfterFile == IF job.row THEN pc' = "record" /\ UNCHANGED job
             ELSE pc' = "window" /\ job' = [NoFile EXCEPT !.hit = TRUE]

\* What is extracted for a drive the file has left is stamped with that drive.
WriteChunks(content) ==
  /\ chunks' = [chunks EXCEPT ![job.file] = [drive |-> job.drive, content |-> content]]
  /\ excused' = IF loc[job.file] = job.drive THEN excused \ {job.file}
                ELSE excused \cup {job.file}

\* try_import: the artifact published under the file's hash.
Import ==
  /\ pc = "extract"
  /\ \E a \in artifacts[job.drive] :
       /\ a.file = job.file /\ a.hash = job.hash
       /\ WriteChunks(a.content)
  /\ AfterFile
  /\ UNCHANGED <<remoteVars, artifacts, fed, rows, pending, floor, known, absent,
                 listed, purging, walk, todo, misses, keep, faults>>

\* A miss: the content as it is now is extracted, under the hash read before.
\* What is extracted only partly is not to be published.
Extract ==
  /\ pc = "extract"
  /\ \A a \in artifacts[job.drive] : a.file # job.file \/ a.hash # job.hash
  /\ loc[job.file] \in accessible
  /\ \/ /\ WriteChunks([ver |-> ver[job.file], full |-> TRUE])
        /\ misses' = misses \cup {[drive |-> job.drive, file |-> job.file, hash |-> job.hash]}
        /\ UNCHANGED faults
     \/ /\ Fault
        /\ WriteChunks([ver |-> ver[job.file], full |-> FALSE])
        /\ UNCHANGED misses
  /\ AfterFile
  /\ UNCHANGED <<remoteVars, artifacts, fed, rows, pending, floor, known, absent,
                 listed, purging, walk, todo, keep>>

\* The handler raises: the row stays and backs off; a window is left for the
\* next cycle.
JobFails ==
  /\ pc = "extract"
  /\ \/ loc[job.file] \notin accessible /\ UNCHANGED faults
     \/ loc[job.file] \in accessible /\ Fault
  /\ job' = None
  /\ pc' = IF job.row THEN "work" ELSE "backfill"
  /\ todo' = {} /\ misses' = {m \in misses : m.drive # job.drive}
  /\ UNCHANGED <<remoteVars, artifacts, storeVars, listed, purging, walk, keep, excused>>

\* record_pending_publish: a later hash of the same file replaces an earlier one.
WithPending(ps) ==
  {p \in pending : \A q \in ps : p.drive # q.drive \/ p.file # q.file} \cup ps

\* Two transactions in the code; that the row outlives the first is the case of
\* a crash before both.
FinishUpsert ==
  /\ pc = "record"
  /\ pending' = WithPending(misses)
  /\ rows' = Done(job.drive, job.file)
  /\ job' = None /\ misses' = {}
  /\ pc' = "work"
  /\ UNCHANGED <<remoteVars, artifacts, fed, chunks, floor, known, absent, listed,
                 purging, walk, todo, keep, faults, excused>>

\* The budget may be spent after the work.
EndWork ==
  /\ pc = "work"
  /\ \/ pc' = "idle" /\ listed' = {} /\ keep' = {} /\ UNCHANGED walk
     \/ /\ listed # {} /\ pc' = "publish"
        /\ keep' = {p \in pending : p.drive \in listed}
        /\ walk' = listed
        /\ UNCHANGED listed
  /\ UNCHANGED <<remoteVars, artifacts, storeVars, purging, job, todo, misses,
                 faults, excused>>

Work == \/ RemoveChunks \/ FinishRemove \/ FinishUpsert \/ EndWork
        \/ \E r \in rows : TakeRow(r)

-----------------------------------------------------------------------------
(* Publishing, collection and the backfill of a drive.                      *)

\* What the store has of the file now goes out under the hash recorded then.
PublishFile(p) ==
  /\ pc = "publish" /\ p \in pending /\ p \in keep /\ chunks[p.file] # None
  /\ Put(p.drive, [file |-> p.file, hash |-> p.hash, content |-> chunks[p.file].content])
  /\ pending' = pending \ {p}
  /\ UNCHANGED <<remoteVars, fed, rows, chunks, floor, known, absent, cycleVars,
                 faults, excused>>

\* gc_superseded_batch, over the pending rows from before the publishing.
Collect ==
  /\ pc = "publish"
  /\ artifacts' = [d \in Drives |-> {a \in artifacts[d] :
       \A p \in keep : p.drive # d \/ p.file # a.file \/ p.hash = a.hash}]
  /\ keep' = {}
  /\ pc' = "backfill"
  /\ UNCHANGED <<remoteVars, storeVars, listed, purging, job, walk, todo, misses, faults, excused>>

\* _shared_drive_backfill_step: a window of a drive, its files as they are listed.
BeginBackfill(d) ==
  /\ pc = "backfill" /\ d \in walk \cap accessible /\ floor[d] <= Oldest
  /\ todo' = {f \in Files : loc[f] = d /\ age[f] = floor[d]}
  /\ walk' = walk \ {d}
  /\ job' = [drive |-> d, file |-> None, hash |-> 0, row |-> FALSE, hit |-> FALSE]
  /\ pc' = "window"
  /\ UNCHANGED <<remoteVars, artifacts, storeVars, listed, purging, misses, keep,
                 faults, excused>>

BackfillFile(f) ==
  /\ pc = "window" /\ f \in todo
  /\ job' = [job EXCEPT !.file = f, !.hash = ver[f]]
  /\ todo' = todo \ {f}
  /\ pc' = "extract"
  /\ UNCHANGED <<remoteVars, artifacts, storeVars, listed, purging, walk, misses, keep,
                 faults, excused>>

\* Files of a drive that no window meets again, unless the feed or a row has them.
Unmet(fs, d) == {f \in fs : loc[f] = d /\ ~InStore(f) /\ f \notin changed[d]
                            /\ [drive |-> d, file |-> f, event |-> "upsert"] \notin rows}

\* ImportDeferred, ReflowOrphanError: the store has chunks of this version
\* already, of the file as it was in this drive or in another.
SkipFile ==
  /\ pc = "extract" /\ ~job.row
  /\ chunks[job.file] # None /\ chunks[job.file].content.ver >= job.hash
  /\ \E a \in artifacts[job.drive] : a.file = job.file /\ a.hash = job.hash
  /\ excused' = excused \cup Unmet({job.file}, job.drive)
  /\ job' = NoFile
  /\ pc' = "window"
  /\ UNCHANGED <<remoteVars, artifacts, storeVars, listed, purging, walk, todo, misses,
                 keep, faults>>

\* The floor moves past the window, and past what is left of it at max_files.
\* The last of stop_after_empty_windows empty ones in a row ends the backfill,
\* with the files there are before it.
EndBackfill ==
  /\ pc = "window"
  /\ \/ /\ floor' = [floor EXCEPT ![job.drive] = @ + 1]
        /\ excused' = excused \cup Unmet(todo, job.drive)
     \/ /\ todo = {} /\ ~job.hit
        /\ floor' = [floor EXCEPT ![job.drive] = Oldest + 1]
        /\ excused' = excused \cup
             Unmet({f \in Files : age[f] > floor[job.drive]}, job.drive)
  /\ job' = None /\ todo' = {}
  /\ pc' = "backfill"
  /\ UNCHANGED <<remoteVars, artifacts, fed, rows, chunks, pending, known, absent, listed,
                 purging, walk, misses, keep, faults>>

\* What the backfill missed is recorded and published in a second pass.
RecordMisses ==
  /\ pc = "backfill" /\ misses # {}
  /\ pending' = WithPending(misses)
  /\ misses' = {}
  /\ keep' = {p \in pending' : p.drive \in listed}
  /\ walk' = {}
  /\ pc' = "publish"
  /\ UNCHANGED <<remoteVars, artifacts, fed, rows, chunks, floor, known, absent,
                 listed, purging, job, todo, faults, excused>>

EndCycle ==
  /\ pc = "backfill" /\ misses = {}
  /\ pc' = "idle" /\ listed' = {} /\ walk' = {}
  /\ UNCHANGED <<remoteVars, artifacts, storeVars, purging, job, todo, misses, keep,
                 faults, excused>>

Share == \/ Collect \/ SkipFile \/ EndBackfill \/ RecordMisses \/ EndCycle
         \/ \E p \in pending : PublishFile(p)
         \/ \E d \in Drives : BeginBackfill(d)
         \/ \E f \in Files : BackfillFile(f)

-----------------------------------------------------------------------------
\* The store keeps what is committed.
Crash ==
  /\ pc # "idle" /\ Fault
  /\ pc' = "idle" /\ listed' = {} /\ purging' = {} /\ job' = None
  /\ walk' = {} /\ todo' = {} /\ misses' = {} /\ keep' = {}
  /\ excused' = excused \cup LostBy(purging)
  /\ UNCHANGED <<remoteVars, artifacts, storeVars>>

Init ==
  /\ loc \in [Files -> Drives] /\ ver = [f \in Files |-> 1]
  /\ age \in [Files -> 0..Oldest]
  /\ accessible = Drives /\ changed = [d \in Drives |-> {}]
  /\ artifacts = [d \in Drives |-> {}] /\ events = 0 /\ access = 0
  /\ fed = {} /\ rows = {} /\ chunks = [f \in Files |-> None] /\ pending = {}
  /\ floor = [d \in Drives |-> 0] /\ known = {}
  /\ absent = [d \in Drives |-> 0]
  /\ pc = "idle" /\ listed = {} /\ purging = {} /\ job = None
  /\ walk = {} /\ todo = {} /\ misses = {} /\ keep = {} /\ faults = 0 /\ excused = {}

Discover == \/ ListDrives \/ EndDiscovery
            \/ \E d \in Drives : Bootstrap(d) \/ \E f \in Files : ListChange(d, f)

Cycle == Discover \/ Presence \/ Work \/ Import \/ Extract \/ JobFails \/ Share

Next == \/ Remote \/ Access \/ (\E f \in Files : PeerPublishes(f))
        \/ Cycle \/ Crash

Spec == Init /\ [][Next]_vars

\* The daemon's loop runs one cycle after the other.
FairSpec == Spec /\ WF_vars(Cycle)

-----------------------------------------------------------------------------
(* Properties.                                                              *)

HasRow(d, f, e) == [drive |-> d, file |-> f, event |-> e] \in rows

\* A window to come meets the file, or the one that is walked still has it.  A
\* window that raised is walked again from its start.
InBackfill(d, f) ==
  /\ age[f] >= floor[d]
  /\ job # None /\ ~job.row /\ job.drive = d =>
       f \in todo \cup {job.file} \/ age[f] > floor[d]

\* A file of a drive that is synced is in the store as it is, or its change is
\* still ahead of the cursor, queued, or to be met by the backfill: whatever
\* was edited, moved, revoked and granted again, and wherever the cycle was cut
\* off.  Excused are the files the code passes: those of BetweenTheTwo, LostBy
\* and Unmet (a window's cap, a skipped file, the years before the last empty
\* window), and one extracted for a drive it has left.  discover_shared_drive, handle_shared_drive_item, note_drive_presence,
\* purge_drive_sync_state, _shared_drive_backfill_step.
ToCome(f) == \/ f \in changed[loc[f]] \/ HasRow(loc[f], f, "upsert")
             \/ InBackfill(loc[f], f) \/ loc[f] \in purging

Covered ==
  \A f \in Files : loc[f] \in accessible \cap fed =>
    InStore(f) \/ ToCome(f) \/ f \in excused

\* What the store has of a file under a drive that the file has left is on its
\* way out: the removal is ahead of the cursor or queued as a removal.
\* discover_shared_drive, _drop_file_chunks.
NothingLingers ==
  \A f \in Files : \A d \in accessible \cap fed :
    f \in Stamped(d) /\ loc[f] # d =>
      f \in changed[d] \/ HasRow(d, f, "remove") \/ f \in excused

\* What the store has of a known drive goes once access to it is lost for good,
\* as long as another drive is listed.  note_drive_presence, purge_drive.
RevokedGoes ==
  \A d \in Drives :
    d \in known ~> (Stamped(d) = {} \/ d \in accessible \/ accessible = {})

\* "just not files touched after the pin (which the live delta discovery+work
\* above already covers)" (sync/__init__.py): every file of a synced drive is
\* met by the delta or by the backfill.
EveryFileCovered ==
  \A f \in Files : loc[f] \in accessible \cap fed => InStore(f) \/ ToCome(f)

\* "publishing a truncated document would propagate the truncation to every
\* other install" (sync/drive.py): no artifact has truncated content.
ArtifactsComplete == \A d \in Drives : \A a \in artifacts[d] : a.content.full
=============================================================================
