--------------------------- MODULE BackupUploader ---------------------------
(***************************************************************************)
(* Upload and journal-commit of outbox items: src/mcpbrain/                *)
(* backup_uploader.py, composed with the capture of BackupOutbox.  The     *)
(* daemon runs captures and upload steps one after the other on one        *)
(* thread; what interleaves with them is the store changing, the process   *)
(* dying between two durable writes, and Drive or the disk failing.        *)
(*                                                                         *)
(* Every action is one durable write (or one remote call with the write    *)
(* that records it).  An upload step re-derives what to do from the disk,  *)
(* so its writes carry no memory and a crash between two of them is the    *)
(* next action being any other; the two continuations that do depend on    *)
(* memory (the rest of a capture, the rest of a discard) are in mem.  A    *)
(* remote call that fails, or whose answer is lost, leaves at most a file  *)
(* nothing names: no action.                                               *)
(***************************************************************************)
EXTENDS BackupOutbox

CONSTANTS MaxMismatches,  \* _MAX_MISMATCHES: refusals of one file in a row
          MaxFiles        \* BOUND: files uploaded to Drive

ASSUME UploaderAssumption == MaxMismatches \in Nat \ {0} /\ MaxFiles \in Nat

VARIABLES entries,    \* keys of journal chains: the chains with a known folder
          committed,  \* journal chains[c].committed_seq (0: none)
          files,      \* journal chains[c].files, all chains
          started,    \* keys of journal inflight, as <<chain, seq>>
          sent,       \* inflight files that have a file_id
          deletes,    \* journal pending_deletes
          refused,    \* journal mismatches of the file being sent
          folders,    \* the chain folders on Drive that are not in the trash
          nextId,     \* the next Drive file id
          manifests   \* the manifests in those folders

journalVars == <<entries, committed, files, started, sent, deletes, refused>>
driveVars   == <<folders, nextId, manifests>>
vars == <<outboxVars, journalVars, driveVars>>

\* A file on Drive, as the journal and the manifests name it.
PageFile == [id : 1..MaxFiles, chain : Chains, seq : Seqs, kind : {"pages"},
             data : PageMaps]
RecsFile == [id : 1..MaxFiles, chain : Chains, seq : Seqs, kind : {"records"},
             data : Recs]
DriveFile == PageFile \cup RecsFile

\* A manifest names every page file of the chain so far and the newest records
\* file.  db stands for its page_count and db_sha256; fp is a history variable.
Manifest == [chain : Chains, seq : Seqs, at : Chains, db : Contents, fp : Recs,
             files : SUBSET DriveFile]

Name(it) == <<it.chain, it.seq>>
IsCommitted(it) == it.seq <= committed[it.chain]

\* The only item a chain may go on with: its base, or the delta that continues
\* from the last committed item.
Continuous(it) == IF IsBase(it) THEN committed[it.chain] = 0
                  ELSE committed[it.chain] > 0 /\ it.prev = committed[it.chain]

SentOf(it) == {f \in sent : f.chain = it.chain /\ f.seq = it.seq}
SentKinds(it) == {f.kind : f \in SentOf(it)}
LocallyComplete(it) == Files(it) \subseteq it.here \cup SentKinds(it)
Data(it, k) == IF k = "pages" THEN it.pages ELSE it.recs

\* Mutant: the items already committed may be merged.
MergeCommitted == started

\* The names a coalesce must leave alone.
NotMergeable == started \cup {Name(it) : it \in {o \in Pending : IsCommitted(o)}}

\* The item an upload step works on, once the committed ones are finished.
Uploading(it) == /\ mem = None
                 /\ Oldest(it) /\ ~IsCommitted(it)
                 /\ Continuous(it) /\ LocallyComplete(it)

\* _upload_item gets past _chain_folder with the item listed as in flight.
Begun(it) == it.chain \in entries /\ Name(it) \in started

\* segments are sent before the records.
NextKind(it, k) == /\ k \in Files(it) \ SentKinds(it)
                   /\ k = "records" => "pages" \notin Files(it) \ SentKinds(it)

\* base segments, every delta up to this item, then the newest records file.
ManifestFiles(every) ==
  {f \in every : f.kind = "records" =>
     \A g \in every : g.kind = "records" => g.seq <= f.seq}

ManifestOf(it) ==
  [chain |-> it.chain, seq |-> it.seq, at |-> it.at, db |-> it.db, fp |-> it.fp,
   files |-> ManifestFiles({f \in files : f.chain = it.chain} \cup SentOf(it))]

-----------------------------------------------------------------------------
(* Uploading an item.                                                       *)

\* The chain's folder is the journal's, or found by name, or created.
StartItem(it) ==
  /\ Uploading(it) /\ ~Begun(it)
  /\ folders' = IF it.chain \in entries THEN folders ELSE folders \cup {it.chain}
  /\ entries' = entries \cup {it.chain}
  /\ started' = started \cup {Name(it)}
  /\ UNCHANGED <<outboxVars, committed, files, sent, deletes, refused, nextId, manifests>>

\* The file reaches Drive, its id is journalled, the local file is unlinked;
\* with "kept" the process died before the unlink.
SendFile(it, k, kept) ==
  /\ Uploading(it) /\ Begun(it) /\ NextKind(it, k)
  /\ k \notin it.bad
  /\ nextId <= MaxFiles
  /\ kept => crashes < MaxCrashes
  /\ sent' = sent \cup {[id |-> nextId, chain |-> it.chain, seq |-> it.seq,
                         kind |-> k, data |-> Data(it, k)]}
  /\ nextId' = nextId + 1
  /\ refused' = 0
  /\ items' = IF kept THEN items
              ELSE (items \ {it}) \cup {[it EXCEPT !.here = @ \ {k}]}
  /\ crashes' = IF kept THEN crashes + 1 ELSE crashes
  /\ UNCHANGED <<idx, cap, now, mem, damage, entries, committed, files, started,
                 deletes, folders, manifests>>

\* Drive holds other bytes than the file's: the upload is dropped and counted.
Mismatch(it, k) ==
  /\ Uploading(it) /\ Begun(it) /\ NextKind(it, k)
  /\ k \notin it.bad
  /\ damage < MaxDamage
  /\ refused + 1 < MaxMismatches
  /\ refused' = refused + 1
  /\ damage' = damage + 1
  /\ UNCHANGED <<items, idx, cap, now, mem, crashes, entries, committed, files,
                 started, sent, deletes, driveVars>>

\* The manifest on Drive is the remote commit (one uploaded into a folder that
\* is in the trash is in the trash with it) ...
PutManifest(it) ==
  /\ Uploading(it) /\ Begun(it) /\ Files(it) = SentKinds(it)
  /\ it.chain \in folders
  /\ manifests' = manifests \cup {ManifestOf(it)}
  /\ UNCHANGED <<outboxVars, journalVars, folders, nextId>>

\* Mutant: the journal is written before the manifest.
RecordCommitEarly(it) ==
  /\ Uploading(it) /\ Begun(it) /\ Files(it) = SentKinds(it)
  /\ committed' = [committed EXCEPT ![it.chain] = it.seq]
  /\ files' = files \cup SentOf(it)
  /\ started' = started \ {Name(it)}
  /\ sent' = sent \ SentOf(it)
  /\ refused' = 0
  /\ UNCHANGED <<outboxVars, entries, deletes, driveVars>>

\* ... and the journal records it.  After a crash in between the manifest is
\* uploaded again, the same.
RecordCommit(it) ==
  /\ Uploading(it) /\ Begun(it) /\ Files(it) = SentKinds(it)
  /\ it.chain \in folders => ManifestOf(it) \in manifests
  /\ committed' = [committed EXCEPT ![it.chain] = it.seq]
  /\ files' = files \cup SentOf(it)
  /\ started' = started \ {Name(it)}
  /\ sent' = sent \ SentOf(it)
  /\ refused' = 0
  /\ UNCHANGED <<outboxVars, entries, deletes, driveVars>>

\* Mutant: the state is kept whatever it describes.
StateNeverBehind(it) == FALSE

\* _finish_local: a state behind the item goes before the item's sidecar does.
StateBehind(it) == cap # None /\ cap.chain = it.chain /\ it.seq > cap.seq

FinishDropState(it) ==
  /\ mem = None /\ it \in Pending /\ IsCommitted(it)
  /\ StateBehind(it)
  /\ cap' = None
  /\ UNCHANGED <<items, idx, now, mem, crashes, damage, journalVars, driveVars>>

FinishDelete(it) ==
  /\ mem = None /\ it \in Pending /\ IsCommitted(it)
  /\ ~StateBehind(it)
  /\ items' = items \ {it}
  /\ UNCHANGED <<idx, cap, now, mem, crashes, damage, journalVars, driveVars>>

-----------------------------------------------------------------------------
(* Discarding an item and everything after it in its chain.                 *)

Victims(it) == {o \in Pending : o.chain = it.chain /\ o.seq >= it.seq}

\* Mutant: every file of the chain is queued, also the committed ones.
DiscardWholeChain(it) ==
  /\ started' = started \ {Name(o) : o \in Victims(it)}
  /\ sent' = {f \in sent : f.chain # it.chain}
  /\ deletes' = deletes \cup {f.id : f \in {g \in sent \cup files : g.chain = it.chain}}
  /\ refused' = 0
  /\ mem' = [job |-> "discard", chain |-> it.chain, dropped |-> FALSE,
             victims |-> {Name(o) : o \in Victims(it)}]
  /\ UNCHANGED <<items, idx, cap, now, crashes, entries, committed, files, driveVars>>

\* The first write: the journal forgets the victims and queues their uploads.
Discard(it) ==
  LET gone == UNION {SentOf(o) : o \in Victims(it)}
  IN /\ started' = started \ {Name(o) : o \in Victims(it)}
     /\ sent' = sent \ gone
     /\ deletes' = deletes \cup {f.id : f \in gone}
     /\ refused' = IF \E o \in Victims(it) : Oldest(o) THEN 0 ELSE refused
     /\ mem' = [job |-> "discard", chain |-> it.chain, dropped |-> FALSE,
                victims |-> {Name(o) : o \in Victims(it)}]
     /\ UNCHANGED <<items, idx, cap, now, crashes, entries, committed, files, driveVars>>

DiscardGap(it) ==
  /\ mem = None /\ Oldest(it) /\ ~IsCommitted(it)
  /\ ~Continuous(it)
  /\ Discard(it) /\ UNCHANGED damage

\* Mutant: only a base is given up for a missing file.
DiscardMissingBase(it) ==
  /\ mem = None /\ Oldest(it) /\ ~IsCommitted(it)
  /\ IsBase(it) /\ Continuous(it) /\ ~LocallyComplete(it)
  /\ Discard(it) /\ UNCHANGED damage

DiscardMissing(it) ==
  /\ mem = None /\ Oldest(it) /\ ~IsCommitted(it)
  /\ Continuous(it) /\ ~LocallyComplete(it)
  /\ Discard(it) /\ UNCHANGED damage

DiscardCorrupt(it, k) ==
  /\ Uploading(it) /\ Begun(it) /\ NextKind(it, k)
  /\ k \in it.bad
  /\ Discard(it) /\ UNCHANGED damage

DiscardRefused(it, k) ==
  /\ Uploading(it) /\ Begun(it) /\ NextKind(it, k)
  /\ k \notin it.bad
  /\ damage < MaxDamage
  /\ refused + 1 >= MaxMismatches
  /\ Discard(it) /\ damage' = damage + 1

\* A merge that reads a corrupt segment: the first not-started delta with a
\* corrupt file is discarded.
CorruptDelta(it) == /\ it \in Pending /\ ~IsBase(it)
                    /\ Name(it) \notin NotMergeable /\ it.bad # {}

DiscardUnmergeable(it) ==
  /\ mem = None
  /\ \E a \in Pending : /\ FirstRun(a, NotMergeable)
                        /\ \E b \in RunFrom(a, NotMergeable) : "pages" \in b.bad
  /\ CorruptDelta(it)
  /\ \A o \in Pending : CorruptDelta(o) => ~Before(o, it)
  /\ Discard(it) /\ UNCHANGED damage

\* Mutant: capture.json still continues the discarded items.
DiscardKeepState ==
  /\ mem # None /\ mem.job = "discard" /\ ~mem.dropped
  /\ mem' = [mem EXCEPT !.dropped = TRUE]
  /\ UNCHANGED <<items, idx, cap, now, crashes, damage, journalVars, driveVars>>

\* Then capture.json, if it is of this chain, and the victims, oldest first.
DiscardDropState ==
  /\ mem # None /\ mem.job = "discard" /\ ~mem.dropped
  /\ cap' = IF cap # None /\ cap.chain = mem.chain THEN None ELSE cap
  /\ mem' = [mem EXCEPT !.dropped = TRUE]
  /\ UNCHANGED <<items, idx, now, crashes, damage, journalVars, driveVars>>

DiscardVictim ==
  /\ mem # None /\ mem.job = "discard" /\ mem.dropped
  /\ \E v \in mem.victims :
       /\ \A w \in mem.victims : v[2] <= w[2]
       /\ items' = {o \in items : Name(o) # v}
       /\ mem' = IF mem.victims = {v} THEN None
                 ELSE [mem EXCEPT !.victims = @ \ {v}]
  /\ UNCHANGED <<idx, cap, now, crashes, damage, journalVars, driveVars>>

-----------------------------------------------------------------------------
\* An unreadable journal is set aside and read as an empty one.
LoseJournal ==
  /\ mem = None /\ damage < MaxDamage
  /\ entries' = {} /\ committed' = [ch \in Chains |-> 0]
  /\ files' = {} /\ started' = {} /\ sent' = {} /\ deletes' = {} /\ refused' = 0
  /\ damage' = damage + 1
  /\ UNCHANGED <<items, idx, cap, now, mem, crashes, driveVars>>

Init == /\ OutboxInit
        /\ entries = {} /\ committed = [ch \in Chains |-> 0]
        /\ files = {} /\ started = {} /\ sent = {} /\ deletes = {} /\ refused = 0
        /\ folders = {} /\ nextId = 1 /\ manifests = {}

Outbox == /\ \/ Capture \/ SaveIndex \/ SaveState
             \/ Sweep
             \/ \E a, b \in Pending, left \in Seqs : Coalesce(NotMergeable, a, b, left)
          /\ UNCHANGED <<journalVars, driveVars>>

\* The steps of an upload that need no fault.
Upload == \E it \in items :
            \/ StartItem(it)
            \/ \E k \in Kinds, kept \in BOOLEAN : SendFile(it, k, kept)
            \/ PutManifest(it)
            \/ RecordCommit(it)
            \/ FinishDropState(it)
            \/ FinishDelete(it)

DiscardBegin == \E it \in items :
                  \/ DiscardGap(it)
                  \/ DiscardMissing(it)
                  \/ \E k \in Kinds : DiscardCorrupt(it, k) \/ DiscardRefused(it, k)
                  \/ DiscardUnmergeable(it)

Faults == \/ (Crash \/ OutboxDamage) /\ UNCHANGED <<journalVars, driveVars>>
          \/ \E it \in items, k \in Kinds : Mismatch(it, k)
          \/ LoseJournal

Next == Outbox \/ Upload \/ DiscardBegin \/ DiscardDropState \/ DiscardVictim \/ Faults

Spec == Init /\ [][Next]_vars
-----------------------------------------------------------------------------
(* Properties.                                                              *)

\* The journal's and Drive's part of the type invariant.
JournalTypeOK ==
  /\ entries \subseteq Chains /\ folders \subseteq Chains
  /\ committed \in [Chains -> 0..MaxCaptures]
  /\ files \subseteq DriveFile /\ sent \subseteq DriveFile
  /\ started \subseteq Chains \X Seqs
  /\ deletes \subseteq 1..MaxFiles
  /\ refused \in 0..MaxMismatches
  /\ nextId \in 1..MaxFiles + 1
  /\ manifests \subseteq Manifest

\* Every variable of the pipeline holds what the code can put there: sidecars,
\* state, journal and manifests keep their shape through every merge and discard.
TypeOK == OutboxTypeOK /\ JournalTypeOK

\* What backup_restore rebuilds from a manifest: for each page, the newest file
\* that has it wins.
PageFilesOf(m, p) == {f \in m.files : f.kind = "pages" /\ p \in DOMAIN f.data}
Rebuilds(m) ==
  \A p \in DOMAIN m.db :
     \E f \in PageFilesOf(m, p) : /\ \A g \in PageFilesOf(m, p) : g.seq <= f.seq
                                  /\ f.data[p] = m.db[p]

\* Every restore point on Drive rebuilds exactly the store that was captured
\* for it, whatever was merged, re-uploaded or cut short in between.
RestoreExact == \A m \in manifests : Rebuilds(m)

\* Two manifests of one chain and seq (a crash between the manifest and the
\* journal uploads it twice) stand for the same store content.
OnePointPerSeq == \A m, n \in manifests :
  m.chain = n.chain /\ m.seq = n.seq => m.db = n.db

\* A file id the journal holds for an item in flight is a file with that very
\* item's bytes: _upload_item skips the file on the strength of its name alone.
InflightMatches == \A it \in items : \A f \in SentOf(it) : f.data = Data(it, f.kind)

\* Nothing queued for deletion is a file a restore point needs.
NoDeleteInUse == \A m \in manifests : \A f \in m.files : f.id \notin deletes

\* What the journal calls committed is on Drive: unless its folder was trashed,
\* the manifest of that seq is there and names the journal's files.
JournalBacked == \A ch \in folders : committed[ch] > 0 =>
  \E m \in manifests : /\ m.chain = ch /\ m.seq = committed[ch]
                       /\ m.files = ManifestFiles({f \in files : f.chain = ch})

\* The next delta would contain every page in which the store differs from the
\* chain's tip, whichever of its three files the last capture got to write.
CaptureMissesNothing ==
  mem = None => \A c \in Contents, id \in StoreIds :
     CanExtend(c, id) => \A p \in DOMAIN c :
        (p \in DOMAIN Tip.db /\ c[p] = Tip.db[p]) \/ p \in Changed(c)

\* A chain that capture.json continues has its state's item still waiting
\* (itself or merged into a later one) or already on Drive.
StateBacked == mem = None /\ cap # None =>
  \/ \E it \in items : it.chain = cap.chain /\ it.prev < cap.seq /\ cap.seq <= it.seq
  \/ \E m \in manifests : m.chain = cap.chain /\ m.seq >= cap.seq

\* Without a lost or damaged local file, a crash never costs a restore point:
\* no upload step finds an item it must discard.
NoNeedlessDiscard == damage = 0 => mem = None \/ mem.job # "discard"

\* An item leaves the outbox only once committed, for a merged item that covers
\* it, or by an announced discard: no sweep, name clash or merge loses
\* an un-uploaded restore point.
NothingDropped ==
  [][\A it \in items : ~IsCommitted(it) =>
       \/ \E o \in items' : /\ o.chain = it.chain /\ o.prev < it.seq /\ it.seq <= o.seq
                            /\ (o.seq = it.seq => o.db = it.db)
       \/ mem # None /\ mem.job = "discard" /\ Name(it) \in mem.victims]_vars

\* Every restore point's records are the records that were captured with it.
RecordsExact == \A m \in manifests :
  \A f \in m.files : f.kind = "records" => f.data = m.fp
-----------------------------------------------------------------------------
(* Refinement: what a restore of each manifest would rebuild are the        *)
(* restore points of module RestorePoints.                                  *)

Rebuilt(m) ==
  [p \in {q \in DOMAIN m.db : PageFilesOf(m, q) # {}} |->
     NewestOf(PageFilesOf(m, p)).data[p]]

Promise == INSTANCE RestorePoints WITH
  Snapshot <- [at : Chains, db : Contents],
  waiting  <- {[at |-> it.at, db |-> it.db] : it \in items},
  points   <- {[at |-> m.at, db |-> Rebuilt(m)] : m \in manifests},
  faulty   <- damage > 0

\* The pipeline implements the abstract backup: it publishes snapshots exactly
\* as taken, and drops one only for a newer one or after a fault.
PublishesSnapshots == Promise!Spec

-----------------------------------------------------------------------------
(* Liveness.  The daemon runs a capture or an upload step again and again,  *)
(* and Drive answers sometimes: a write that stays possible is made.        *)

FinishCapture == (SaveIndex \/ SaveState) /\ UNCHANGED <<journalVars, driveVars>>

Fairness == /\ WF_vars(FinishCapture)
            /\ WF_vars(DiscardDropState) /\ WF_vars(DiscardVictim)
            /\ WF_vars(Upload \/ DiscardBegin)

FairSpec == Spec /\ Fairness

\* Every item the outbox holds eventually leaves it, also after crashes, damage
\* and refusals: nothing blocks the head of the queue for ever.
OutboxDrains == \A ch \in Chains, n \in Seqs :
  (<<ch, n>> \in {Name(it) : it \in Pending}) ~> (<<ch, n>> \notin {Name(it) : it \in Pending})
=============================================================================
