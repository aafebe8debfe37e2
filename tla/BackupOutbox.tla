---------------------------- MODULE BackupOutbox ----------------------------
(***************************************************************************)
(* Local page-delta capture into the backup outbox: src/mcpbrain/          *)
(* backup_outbox.py.  A capture copies the store, diffs the copy page by   *)
(* page against the index of the last capture and commits ONE item (a base *)
(* or a delta of a chain) by renaming its sidecar into the outbox; the     *)
(* page index and the capture state follow, in two more renames.           *)
(* Coalescing merges pending deltas.  The uploader that drains the outbox  *)
(* is module BackupUploader, which extends this one.                       *)
(*                                                                         *)
(* Data: a page's bytes are a member of Val, the store's content at a copy *)
(* is a function from 1..n to Val, a digest of a content is the content.   *)
(* An item packs its pages into one segment file.  Byte sizes are not      *)
(* modelled: the size and age rules that turn a delta into a base make the *)
(* choice between the two nondeterministic.                                *)
(***************************************************************************)
EXTENDS Naturals, FiniteSets

CONSTANTS Val,          \* contents a page may have
          MaxPages,     \* BOUND: pages of the store
          Recs,         \* versions of the records directory
          StoreIds,     \* identities (device:inode) of the store file
          None,         \* Python's None
          MaxCaptures,  \* BOUND: captures that commit an item
          OutboxCap,    \* outbox_max_bytes, in files
          MaxCrashes,   \* BOUND: process crashes
          MaxDamage     \* BOUND: lost or corrupted local files, refused uploads

ASSUME ConstantsAssumption ==
  /\ MaxPages \in Nat /\ MaxCaptures \in Nat /\ OutboxCap \in Nat
  /\ MaxCrashes \in Nat /\ MaxDamage \in Nat
  /\ None \notin Recs

VARIABLES items,    \* outbox/*.json: the committed sidecars and their files
          idx,      \* pages.idx: the content it describes, or None
          cap,      \* capture.json, or None
          now,      \* captures so far: the clock, and the next chain's id
          mem,      \* what the running process still has to do, or None
          crashes,  \* crashes so far
          damage    \* faults so far

outboxVars == <<items, idx, cap, now, mem, crashes, damage>>

Chains   == 1..MaxCaptures
Seqs     == 1..MaxCaptures
Contents == UNION {[1..n -> Val] : n \in 1..MaxPages}
PageMaps == UNION {[S -> Val] : S \in SUBSET (1..MaxPages)}
Kinds    == {"pages", "records"}

\* A sidecar.  prev = 0 is prev_seq None, so a base has prev 0.  db is the
\* captured content: page_count is its domain, db_sha256 and index_digest its
\* digest.  here and bad are the item's local files that exist / are corrupt.
\* fp is a history variable: the records as they were when db was copied.
Item == [chain : Chains, seq : Seqs, prev : 0..MaxCaptures, at : Chains,
         db : Contents, pages : PageMaps, recs : Recs \cup {None},
         here : SUBSET Kinds, bad : SUBSET Kinds, fp : Recs]

CaptureState == [chain : Chains, seq : Seqs, store : StoreIds,
                 recs : Recs, db : Contents]

\* What a process has to write is never nothing.
ASSUME NoneAssumption == None \notin [job : {"capture"}, saved : BOOLEAN, cap : CaptureState]

IsBase(it)  == it.prev = 0
Files(it)   == (IF it.pages = << >> THEN {} ELSE {"pages"})
               \cup (IF it.recs = None THEN {} ELSE {"records"})
Complete(it) == Files(it) \subseteq it.here

-----------------------------------------------------------------------------
(* Which sidecars are pending, and in which order.                          *)

\* Mutant: the item a delta continues from counts as merged into it.
ParentSuperseded(it) ==
  \E o \in items : /\ o.chain = it.chain /\ ~IsBase(o)
                   /\ o.prev <= it.seq /\ it.seq < o.seq

Superseded(it) ==
  \E o \in items : /\ o.chain = it.chain /\ ~IsBase(o)
                   /\ o.prev < it.seq /\ it.seq < o.seq

Pending == {it \in items : ~Superseded(it)}

\* first[chain]: the oldest capture time among the chain's pending items.
FirstAt(ch) == LET ats == {it.at : it \in {o \in Pending : o.chain = ch}}
               IN CHOOSE t \in ats : \A u \in ats : t <= u

Before(a, b) == IF a.chain = b.chain THEN a.seq < b.seq
                ELSE FirstAt(a.chain) < FirstAt(b.chain)

Oldest(it) == it \in Pending /\ \A o \in Pending \ {it} : Before(it, o)

NewestOf(S) == CHOOSE it \in S : \A o \in S : o.seq <= it.seq

OutboxFull ==
  Cardinality(UNION {{<<it.chain, it.seq, k>> : k \in it.here} : it \in Pending})
    >= OutboxCap

-----------------------------------------------------------------------------
(* What a capture concludes from the state, the index and the sidecars      *)
(* about the chain it would continue.                                       *)

Since == {it \in Pending : it.chain = cap.chain /\ it.seq > cap.seq}

Tip == IF Since = {} THEN [seq |-> cap.seq, db |-> cap.db]
       ELSE [seq |-> NewestOf(Since).seq, db |-> NewestOf(Since).db]

Matching == {it \in Since : it.db = idx}
Anchored == idx = cap.db \/ Matching # {}
Anchor   == IF idx = cap.db THEN cap.seq ELSE NewestOf(Matching).seq
Later    == {it \in Since : it.seq > Anchor}

\* The pages of a segment's range that the copy still has.
SegmentRange(it, c) ==
  {p \in DOMAIN c : \E lo, hi \in DOMAIN it.pages : lo <= p /\ p <= hi}

\* Mutant: only the index is compared, items committed after it are ignored.
ChangedSinceIndex(c) == {p \in DOMAIN c : p \notin DOMAIN idx \/ c[p] # idx[p]}

Changed(c) == {p \in DOMAIN c : p \notin DOMAIN idx \/ c[p] # idx[p]}
              \cup UNION {SegmentRange(it, c) : it \in Later}

\* Mutant: an index that describes no item of the chain is diffed against.
CanExtendUnanchored(c, id) == /\ cap # None /\ idx # None
                              /\ cap.store = id
                              /\ DOMAIN Tip.db \subseteq DOMAIN c

CanExtend(c, id) == /\ cap # None /\ idx # None
                    /\ cap.store = id
                    /\ Anchored
                    /\ DOMAIN Tip.db \subseteq DOMAIN c

NothingNew(c, r) == Changed(c) = {} /\ DOMAIN c = DOMAIN Tip.db /\ r = cap.recs

\* Mutant: the next seq is counted from the state, not from the newest item.
DeltaItemAfterState(c, r) ==
  LET pages == [p \in Changed(c) |-> c[p]]
  IN [chain |-> cap.chain, seq |-> cap.seq + 1, prev |-> cap.seq, at |-> now + 1,
      db |-> c, pages |-> pages, recs |-> r, here |-> Kinds, bad |-> {}, fp |-> r]

DeltaItem(c, r) ==
  LET recs == IF r = cap.recs THEN None ELSE r
      pages == [p \in Changed(c) |-> c[p]]
  IN [chain |-> cap.chain, seq |-> Tip.seq + 1, prev |-> Tip.seq, at |-> now + 1,
      db |-> c, pages |-> pages, recs |-> recs,
      here |-> (IF Changed(c) = {} THEN {} ELSE {"pages"})
               \cup (IF recs = None THEN {} ELSE {"records"}),
      bad |-> {}, fp |-> r]

BaseItem(c, r) ==
  [chain |-> now + 1, seq |-> 1, prev |-> 0, at |-> now + 1,
   db |-> c, pages |-> c, recs |-> r, here |-> Kinds, bad |-> {}, fp |-> r]

\* The item's sidecar replaces one of the same name.
Commit(it) == {o \in Pending : ~(o.chain = it.chain /\ o.seq = it.seq)} \cup {it}

-----------------------------------------------------------------------------
(* Actions.                                                                 *)

\* capture: sweep, copy, diff, and the commit point (the sidecar's rename).
\* The sweep leaves only the pending sidecars.  What remains to be written,
\* the index and then the state, is in mem until SaveIndex and SaveState.
CaptureItem(it, c, r, id) ==
  /\ items' = Commit(it)
  /\ now' = now + 1
  /\ mem' = [job |-> "capture", saved |-> FALSE,
             cap |-> [chain |-> it.chain, seq |-> it.seq, store |-> id,
                      recs |-> r, db |-> c]]
  /\ UNCHANGED <<idx, cap, crashes, damage>>

CaptureDelta(c, r, id) ==
  /\ mem = None /\ now < MaxCaptures /\ ~OutboxFull
  /\ CanExtend(c, id) /\ ~NothingNew(c, r)
  /\ CaptureItem(DeltaItem(c, r), c, r, id)

\* A chain that could be extended is still followed by a base when the age
\* rule or the size rule says so, once something has changed.
CaptureBase(c, r, id) ==
  /\ mem = None /\ now < MaxCaptures /\ ~OutboxFull
  /\ CanExtend(c, id) => ~NothingNew(c, r)
  /\ CaptureItem(BaseItem(c, r), c, r, id)

SaveIndex ==
  /\ mem # None /\ mem.job = "capture" /\ ~mem.saved
  /\ idx' = mem.cap.db
  /\ mem' = [mem EXCEPT !.saved = TRUE]
  /\ UNCHANGED <<items, cap, now, crashes, damage>>

SaveState ==
  /\ mem # None /\ mem.job = "capture" /\ mem.saved
  /\ cap' = mem.cap
  /\ mem' = None
  /\ UNCHANGED <<items, idx, now, crashes, damage>>

\* The sweep on its own (a capture that then finds nothing new, a coalesce
\* with nothing to merge): superseded sidecars go.
Sweep ==
  /\ mem = None /\ items # Pending
  /\ items' = Pending
  /\ UNCHANGED <<idx, cap, now, mem, crashes, damage>>

\* coalesce: "started" holds the <<chain, seq>> an upload began or committed.
Mergeable(it, started) == /\ it \in Pending /\ ~IsBase(it)
                          /\ <<it.chain, it.seq>> \notin started
                          /\ Complete(it)

Linked(a, b, started) ==
  \A c \in Pending : (c.chain = a.chain /\ a.seq < c.seq /\ c.seq <= b.seq) =>
      /\ Mergeable(c, started)
      /\ \E d \in Pending : d.chain = a.chain /\ d.seq = c.prev /\ d.seq >= a.seq

RunFrom(a, started) ==
  {b \in Pending : /\ b.chain = a.chain /\ b.seq >= a.seq
                   /\ Mergeable(a, started) /\ Linked(a, b, started)}

StartsRun(a, started) == \E b \in RunFrom(a, started) : b # a

FirstRun(a, started) == /\ StartsRun(a, started)
                        /\ \A o \in Pending : StartsRun(o, started) => ~Before(o, a)

Covers(it, p) == p \in DOMAIN it.pages /\ p \in DOMAIN it.db

Merged(R) ==
  LET newest == NewestOf(R)
      oldest == CHOOSE it \in R : \A o \in R : it.seq <= o.seq
      seen == {p \in DOMAIN newest.db : \E it \in R : Covers(it, p)}
      pages == [p \in seen |-> NewestOf({it \in R : Covers(it, p)}).pages[p]]
      withRecs == {it \in R : it.recs # None}
      recs == IF withRecs = {} THEN None ELSE NewestOf(withRecs).recs
  IN [newest EXCEPT
        !.prev = oldest.prev,
        !.pages = pages,
        !.recs = recs,
        !.here = (IF seen = {} THEN {} ELSE {"pages"})
                 \cup (IF recs = None THEN {} ELSE {"records"}),
        !.bad = IF withRecs = {} THEN {}
                ELSE NewestOf(withRecs).bad \cap {"records"}]

\* Merge the run up to its item b (the deadline may cut it after two items).
\* The merged sidecar replaces b's; then the older sidecars go, oldest first:
\* a crash leaves the ones from seq "left" on, which are superseded.
Coalesce(started, a, b, left) ==
  LET R == {it \in RunFrom(a, started) : it.seq <= b.seq}
  IN /\ mem = None
     /\ FirstRun(a, started) /\ b \in RunFrom(a, started) /\ b # a
     /\ \A it \in R : "pages" \notin it.bad
     /\ left <= b.seq
     /\ left < b.seq => crashes < MaxCrashes
     /\ items' = (Pending \ R) \cup {Merged(R)}
                 \cup {it \in R : left <= it.seq /\ it.seq < b.seq}
     /\ crashes' = IF left < b.seq THEN crashes + 1 ELSE crashes
     /\ UNCHANGED <<idx, cap, now, mem, damage>>

\* The process dies between two writes: what it had in memory is gone.
Crash ==
  /\ mem # None /\ crashes < MaxCrashes
  /\ mem' = None
  /\ crashes' = crashes + 1
  /\ UNCHANGED <<items, idx, cap, now, damage>>

\* The environment: an outbox file is lost or its bytes rot; the index or
\* the state file is lost or unreadable (both are read as absent).
LoseFile(it, k) ==
  /\ mem = None /\ damage < MaxDamage /\ k \in it.here
  /\ items' = (items \ {it}) \cup {[it EXCEPT !.here = @ \ {k}, !.bad = @ \ {k}]}
  /\ damage' = damage + 1
  /\ UNCHANGED <<idx, cap, now, mem, crashes>>

CorruptFile(it, k) ==
  /\ mem = None /\ damage < MaxDamage /\ k \in it.here \ it.bad
  /\ items' = (items \ {it}) \cup {[it EXCEPT !.bad = @ \cup {k}]}
  /\ damage' = damage + 1
  /\ UNCHANGED <<idx, cap, now, mem, crashes>>

LoseIndex ==
  /\ mem = None /\ damage < MaxDamage /\ idx # None
  /\ idx' = None
  /\ damage' = damage + 1
  /\ UNCHANGED <<items, cap, now, mem, crashes>>

LoseState ==
  /\ mem = None /\ damage < MaxDamage /\ cap # None
  /\ cap' = None
  /\ damage' = damage + 1
  /\ UNCHANGED <<items, idx, now, mem, crashes>>

-----------------------------------------------------------------------------
OutboxInit ==
  /\ items = {} /\ idx = None /\ cap = None /\ mem = None
  /\ now = 0 /\ crashes = 0 /\ damage = 0

\* The outbox's part of the type invariant.
OutboxTypeOK ==
  /\ items \subseteq Item
  /\ idx \in Contents \cup {None}
  /\ cap \in CaptureState \cup {None}
  /\ now \in 0..MaxCaptures
  /\ mem \in [job : {"capture"}, saved : BOOLEAN, cap : CaptureState]
            \cup [job : {"discard"}, chain : Chains, dropped : BOOLEAN,
                  victims : SUBSET (Chains \X Seqs)]
            \cup {None}
  /\ crashes \in 0..MaxCrashes /\ damage \in 0..MaxDamage

Capture == \E c \in Contents, r \in Recs, id \in StoreIds :
              CaptureDelta(c, r, id) \/ CaptureBase(c, r, id)

OutboxDamage == \/ \E it \in items, k \in Kinds : LoseFile(it, k) \/ CorruptFile(it, k)
                \/ LoseIndex
                \/ LoseState
=============================================================================
