------------------------- MODULE BackupUploaderProofs -------------------------
(***************************************************************************)
(* Theorems about BackupUploader and BackupPrune, for any pages, contents, *)
(* captures, attempts, crashes, damage and prunes.  Invariants of          *)
(* BackupUploader, each inductive given the ones before it:                *)
(*   TypeInv     types, and SeqBound: the seq a delta is given is one more *)
(*               than the newest one's, which only SeqBound keeps within   *)
(*               the captures made;                                        *)
(*   JournalInv  what the journal calls committed is on Drive              *)
(*               (JournalBacked), and it has an entry of every such chain; *)
(*   ChainInv    names are unique, intervals are nested or apart;          *)
(*   InflightInv only the first item of a chain is in flight, and what was *)
(*               sent of it are its own bytes (InflightMatches);           *)
(*   IdsInv      ids are fresh, and no id queued for deletion is in a      *)
(*               restore point (NoDeleteInUse);                            *)
(*   ContentInv  every page in which an item differs from a point it can   *)
(*               follow is in its segment, also after merges;              *)
(*   StateInv    where the items and manifests of capture.json's chain     *)
(*               lie;                                                      *)
(*   RestoreInv  every manifest rebuilds its content (RestoreExact);       *)
(*   CleanInv    without damage, no item has to be discarded.              *)
(* PipelineInv is all of them; that the pipeline implements RestorePoints  *)
(* (PipelinePublishes) follows from it by one lemma for each kind of step. *)
(* Of BackupPrune, whose prunes run between the steps of the pipeline:     *)
(*   QueueInv    whatever crashes, what is queued lies below the newest    *)
(*               committed chain, and what the journal knows and has not   *)
(*               queued stands on Drive;                                   *)
(*   PruneInv    QueueInv, and while no process died: chains are captured, *)
(*               uploaded and committed one after the other, and what is   *)
(*               queued lies behind the cutoff.                            *)
(***************************************************************************)
EXTENDS BackupPrune, WellFoundedInduction, TLAPS

\* No seq is larger than the number of captures so far.
SeqBound ==
  /\ \A it \in items : it.seq <= now
  /\ cap # None => cap.seq <= now
  /\ (mem # None /\ mem.job = "capture") => mem.cap.seq <= now

TypeInv == TypeOK /\ SeqBound

-----------------------------------------------------------------------------
(* Newest and oldest items.                                                 *)

\* A nonempty set of naturals has a least element.
LEMMA MinNat ==
  ASSUME NEW T, T \subseteq Nat, T # {}
  PROVE  \E x \in T : \A y \in T : x <= y
<1> DEFINE R == OpToRel(<, Nat)
<1>1. \E x \in T : \A y \in T : ~(<<y, x>> \in R)
  BY NatLessThanWellFounded, WFMin
<1>2. \A x, y \in Nat : <<y, x>> \in R <=> y < x
  BY DEF OpToRel
<1> HIDE DEF R
<1>3. PICK x \in T : \A y \in T : ~(<<y, x>> \in R)
  BY <1>1
<1>4. \A y \in T : ~(y < x)
  BY <1>2, <1>3
<1> QED BY <1>4

\* Of a nonempty set of items, NewestOf is the one with the largest seq.
LEMMA NewestOfMax ==
  ASSUME NEW S, S # {}, \A s \in S : s.seq \in Seqs
  PROVE  NewestOf(S) \in S /\ \A t \in S : t.seq <= NewestOf(S).seq
<1> DEFINE T == {MaxCaptures - s.seq : s \in S}
<1>0. MaxCaptures \in Nat
  BY ConstantsAssumption
<1>1. T \subseteq Nat /\ T # {}
  BY <1>0 DEF Seqs
<1>2. PICK x \in T : \A y \in T : x <= y
  BY <1>1, MinNat
<1>3. PICK s \in S : x = MaxCaptures - s.seq
  OBVIOUS
<1>4. \A t \in S : MaxCaptures - s.seq <= MaxCaptures - t.seq
  BY <1>2, <1>3
<1>5. \A t \in S : t.seq <= s.seq
  BY <1>0, <1>4 DEF Seqs
<1> QED BY <1>5 DEF NewestOf

\* A nonempty set of items has one with the least seq.
LEMMA OldestExists ==
  ASSUME NEW S, S # {}, \A s \in S : s.seq \in Seqs
  PROVE  \E s \in S : \A t \in S : s.seq <= t.seq
<1> DEFINE T == {s.seq : s \in S}
<1>0. MaxCaptures \in Nat
  BY ConstantsAssumption
<1>1. T \subseteq Nat /\ T # {}
  BY <1>0 DEF Seqs
<1>2. PICK x \in T : \A y \in T : x <= y
  BY <1>1, MinNat
<1> QED BY <1>2

-----------------------------------------------------------------------------
(* What a capture and a merge write is an item.                             *)

\* Any map from some of the pages to contents is a segment's.
LEMMA PageMapIntro ==
  ASSUME NEW f, f = [p \in DOMAIN f |-> f[p]], DOMAIN f \subseteq 1..MaxPages,
         \A p \in DOMAIN f : f[p] \in Val
  PROVE  f \in PageMaps
<1>1. f \in [DOMAIN f -> Val]
  OBVIOUS
<1> QED BY <1>1 DEF PageMaps

\* A content has pages of 1..MaxPages only, and is a map a segment could carry.
LEMMA ContentsFacts ==
  ASSUME NEW c \in Contents
  PROVE  /\ DOMAIN c \subseteq 1..MaxPages
         /\ \A p \in DOMAIN c : c[p] \in Val
         /\ c \in PageMaps
<1>1. PICK n \in 1..MaxPages : c \in [1..n -> Val]
  BY DEF Contents
<1>2. MaxPages \in Nat
  BY ConstantsAssumption
<1>3. 1..n \subseteq 1..MaxPages
  BY <1>2
<1>4. DOMAIN c = 1..n /\ \A p \in 1..n : c[p] \in Val
  BY <1>1
<1>5. c \in PageMaps
  BY <1>1, <1>3 DEF PageMaps
<1> QED BY <1>3, <1>4, <1>5

\* A segment carries pages of 1..MaxPages, with contents of Val.
LEMMA PageMapFacts ==
  ASSUME NEW f \in PageMaps
  PROVE  DOMAIN f \subseteq 1..MaxPages /\ \A p \in DOMAIN f : f[p] \in Val
BY DEF PageMaps

\* The chain's tip is at a seq no larger than the captures made.
LEMMA TipType ==
  ASSUME TypeInv, cap # None
  PROVE  Tip.seq \in Seqs /\ Tip.seq <= now
<1>1. cap \in CaptureState /\ cap.seq <= now
  BY DEF TypeInv, TypeOK, OutboxTypeOK, SeqBound
<1>2. CASE Since = {}
  BY <1>1, <1>2 DEF Tip, CaptureState
<1>3. CASE Since # {}
  <2>1. Since \subseteq items
    BY DEF Since, Pending
  <2>2. \A s \in Since : s.seq \in Seqs /\ s.seq <= now
    BY <2>1 DEF TypeInv, TypeOK, OutboxTypeOK, SeqBound, Item
  <2>3. NewestOf(Since) \in Since
    BY <1>3, <2>2, NewestOfMax
  <2>4. Tip.seq = NewestOf(Since).seq
    BY <1>3 DEF Tip
  <2> QED BY <2>2, <2>3, <2>4
<1> QED BY <1>2, <1>3

\* The delta a capture writes is an item, one seq further at most.
LEMMA DeltaItemType ==
  ASSUME TypeInv, cap # None, now < MaxCaptures,
         NEW c \in Contents, NEW r \in Recs
  PROVE  /\ DeltaItem(c, r) \in Item
         /\ DeltaItem(c, r).seq <= now + 1
         /\ DeltaItem(c, r).chain \in Chains
<1> DEFINE recs == IF r = cap.recs THEN None ELSE r
           pages == [p \in Changed(c) |-> c[p]]
           here == (IF Changed(c) = {} THEN {} ELSE {"pages"})
                   \cup (IF recs = None THEN {} ELSE {"records"})
<1>0. MaxCaptures \in Nat /\ now \in 0..MaxCaptures /\ cap \in CaptureState
  BY ConstantsAssumption DEF TypeInv, TypeOK, OutboxTypeOK
<1>1. Tip.seq \in 1..MaxCaptures /\ Tip.seq <= now
  BY TipType DEF Seqs
<1>2. Tip.seq + 1 \in Seqs /\ Tip.seq \in 0..MaxCaptures /\ now + 1 \in Chains
  BY <1>0, <1>1 DEF Seqs, Chains
<1>3. Changed(c) \subseteq DOMAIN c
  BY DEF Changed, SegmentRange
<1>4. pages \in PageMaps
  <2>1. DOMAIN pages \subseteq 1..MaxPages /\ \A p \in DOMAIN pages : pages[p] \in Val
    BY <1>3, ContentsFacts
  <2>2. pages = [p \in DOMAIN pages |-> pages[p]]
    OBVIOUS
  <2> HIDE DEF pages
  <2> QED BY <2>1, <2>2, PageMapIntro
<1>5. recs \in Recs \cup {None} /\ here \subseteq Kinds /\ {} \subseteq Kinds
  BY DEF Kinds
<1>6. cap.chain \in Chains
  BY <1>0 DEF CaptureState
<1>7. DeltaItem(c, r) =
        [chain |-> cap.chain, seq |-> Tip.seq + 1, prev |-> Tip.seq, at |-> now + 1,
         db |-> c, pages |-> pages, recs |-> recs, here |-> here,
         bad |-> {}, fp |-> r]
  BY DEF DeltaItem
<1> HIDE DEF recs, pages, here
<1>8. DeltaItem(c, r) \in Item
  BY <1>2, <1>4, <1>5, <1>6, <1>7 DEF Item
<1>9. DeltaItem(c, r).seq = Tip.seq + 1 /\ DeltaItem(c, r).chain = cap.chain
  BY <1>7
<1>10. Tip.seq + 1 <= now + 1
  BY <1>0, <1>1
<1> QED BY <1>6, <1>8, <1>9, <1>10

\* The base a capture writes is an item of a chain of its own.
LEMMA BaseItemType ==
  ASSUME TypeInv, now < MaxCaptures, NEW c \in Contents, NEW r \in Recs
  PROVE  /\ BaseItem(c, r) \in Item
         /\ BaseItem(c, r).seq <= now + 1
         /\ BaseItem(c, r).chain \in Chains
<1>0. MaxCaptures \in Nat /\ now \in 0..MaxCaptures
  BY ConstantsAssumption DEF TypeInv, TypeOK, OutboxTypeOK
<1>1. now + 1 \in Chains /\ 1 \in Seqs /\ 0 \in 0..MaxCaptures /\ 1 <= now + 1
  BY <1>0 DEF Chains, Seqs
<1>2. c \in PageMaps
  BY ContentsFacts
<1>3. BaseItem(c, r) =
        [chain |-> now + 1, seq |-> 1, prev |-> 0, at |-> now + 1, db |-> c,
         pages |-> c, recs |-> r, here |-> Kinds, bad |-> {}, fp |-> r]
  BY DEF BaseItem
<1>4. BaseItem(c, r) \in Item
  BY <1>1, <1>2, <1>3 DEF Item
<1> QED BY <1>1, <1>3, <1>4

\* Merging items gives an item, at a seq one of them had.
LEMMA MergedType ==
  ASSUME TypeInv, NEW R, R \subseteq items, R # {}
  PROVE  Merged(R) \in Item /\ Merged(R).seq <= now
<1> DEFINE newest == NewestOf(R)
           oldest == CHOOSE it \in R : \A o \in R : it.seq <= o.seq
           seen == {p \in DOMAIN newest.db : \E it \in R : Covers(it, p)}
           last(p) == NewestOf({it \in R : Covers(it, p)})
           pages == [p \in seen |-> last(p).pages[p]]
           withRecs == {it \in R : it.recs # None}
           recs == IF withRecs = {} THEN None ELSE NewestOf(withRecs).recs
           here == (IF seen = {} THEN {} ELSE {"pages"})
                   \cup (IF recs = None THEN {} ELSE {"records"})
           bad == IF withRecs = {} THEN {} ELSE NewestOf(withRecs).bad \cap {"records"}
<1>1. \A it \in R : it \in Item /\ it.seq <= now
  BY DEF TypeInv, TypeOK, OutboxTypeOK, SeqBound
<1>2. \A it \in R : it.seq \in Seqs /\ it.recs \in Recs \cup {None}
                    /\ it.prev \in 0..MaxCaptures /\ it.db \in Contents
                    /\ it.pages \in PageMaps
  BY <1>1 DEF Item
<1>3. newest \in R
  BY <1>2, NewestOfMax
<1>4. oldest \in R
  BY <1>2, OldestExists
<1>5. pages \in PageMaps
  <2>1. seen \subseteq 1..MaxPages
    BY <1>2, <1>3, ContentsFacts
  <2>2. ASSUME NEW p \in seen PROVE last(p).pages[p] \in Val
    <3> DEFINE S == {it \in R : Covers(it, p)}
    <3>1. S # {} /\ \A it \in S : it.seq \in Seqs
      BY <1>2
    <3>2. NewestOf(S) \in S
      BY <3>1, NewestOfMax
    <3>3. NewestOf(S).pages \in PageMaps /\ p \in DOMAIN NewestOf(S).pages
      BY <1>2, <3>2 DEF Covers
    <3>4. NewestOf(S).pages[p] \in Val
      BY <3>3, PageMapFacts
    <3> QED BY <3>4
  <2>3. DOMAIN pages \subseteq 1..MaxPages /\ \A p \in DOMAIN pages : pages[p] \in Val
    BY <2>1, <2>2
  <2>4. pages = [p \in DOMAIN pages |-> pages[p]]
    OBVIOUS
  <2> HIDE DEF pages
  <2> QED BY <2>3, <2>4, PageMapIntro
<1>6. recs \in Recs \cup {None}
  <2>1. withRecs # {} => NewestOf(withRecs) \in withRecs
    BY <1>2, NewestOfMax
  <2> QED BY <1>2, <2>1
<1>7. here \subseteq Kinds /\ bad \subseteq Kinds
  BY DEF Kinds
<1>8. Merged(R) = [newest EXCEPT !.prev = oldest.prev, !.pages = pages, !.recs = recs,
                                 !.here = here, !.bad = bad]
  BY DEF Merged
<1> HIDE DEF newest, oldest, seen, last, pages, withRecs, recs, here, bad
<1>9. newest \in Item /\ newest.seq <= now /\ oldest.prev \in 0..MaxCaptures
  BY <1>1, <1>2, <1>3, <1>4
<1>10. Merged(R) \in Item
  BY <1>5, <1>6, <1>7, <1>8, <1>9 DEF Item
<1>11. Merged(R).seq = newest.seq
  BY <1>8, <1>9 DEF Item
<1> QED BY <1>9, <1>10, <1>11
-----------------------------------------------------------------------------
(* TypeInv is inductive: one lemma per group of actions.                    *)

\* The pipeline starts with nothing anywhere.
LEMMA TypeInvInit == Init => TypeInv
<1> SUFFICES ASSUME Init PROVE TypeInv
  OBVIOUS
<1>1. OutboxTypeOK /\ SeqBound
  BY ConstantsAssumption DEF Init, OutboxInit, OutboxTypeOK, SeqBound
<1>2. JournalTypeOK
  BY ConstantsAssumption, UploaderAssumption DEF Init, JournalTypeOK
<1> QED BY <1>1, <1>2 DEF TypeInv, TypeOK

\* A committed item keeps the outbox in shape.
LEMMA CaptureItemType ==
  ASSUME TypeInv, now < MaxCaptures, NEW it \in Item, it.seq <= now + 1,
         NEW c \in Contents, NEW r \in Recs, NEW id \in StoreIds,
         CaptureItem(it, c, r, id)
  PROVE  (OutboxTypeOK /\ SeqBound)'
<1>0. now \in 0..MaxCaptures /\ MaxCaptures \in Nat
  BY ConstantsAssumption DEF TypeInv, TypeOK, OutboxTypeOK
<1>1. items' \subseteq items \cup {it}
  BY DEF CaptureItem, Commit, Pending
<1>2. now' = now + 1 /\ now' \in 0..MaxCaptures
  BY <1>0 DEF CaptureItem
<1>3. items' \subseteq Item /\ \A o \in items' : o.seq <= now'
  <2>1. items \subseteq Item /\ \A o \in items : o.seq \in Seqs /\ o.seq <= now
    BY DEF TypeInv, TypeOK, OutboxTypeOK, SeqBound, Item
  <2> QED BY <1>0, <1>1, <1>2, <2>1 DEF Seqs
<1>4. mem' \in [job : {"capture"}, saved : BOOLEAN, cap : CaptureState]
      /\ mem'.cap.seq <= now'
  <2>1. it.chain \in Chains /\ it.seq \in Seqs
    BY DEF Item
  <2> QED BY <1>2, <2>1 DEF CaptureItem, CaptureState
<1>5. cap' # None => cap'.seq <= now'
  <2>1. cap' = cap /\ (cap # None => cap.seq \in Seqs /\ cap.seq <= now)
    BY DEF CaptureItem, TypeInv, TypeOK, OutboxTypeOK, SeqBound, CaptureState
  <2> QED BY <1>0, <1>2, <2>1 DEF Seqs
<1>6. UNCHANGED <<idx, cap, crashes, damage>>
  BY DEF CaptureItem
<1>7. OutboxTypeOK'
  BY <1>2, <1>3, <1>4, <1>6 DEF TypeInv, TypeOK, OutboxTypeOK
<1>8. SeqBound'
  BY <1>3, <1>4, <1>5 DEF SeqBound
<1> QED BY <1>7, <1>8

\* A capture, whether it ends in a delta or a base.
LEMMA CaptureType ==
  ASSUME TypeInv, Capture
  PROVE  (OutboxTypeOK /\ SeqBound)'
<1>1. PICK c \in Contents, r \in Recs, id \in StoreIds :
        CaptureDelta(c, r, id) \/ CaptureBase(c, r, id)
  BY DEF Capture
<1>2. CASE CaptureDelta(c, r, id)
  <2>1. cap # None /\ now < MaxCaptures
    BY <1>2 DEF CaptureDelta, CanExtend
  <2>2. DeltaItem(c, r) \in Item /\ DeltaItem(c, r).seq <= now + 1
    BY <2>1, DeltaItemType
  <2> QED BY <1>2, <2>1, <2>2, CaptureItemType DEF CaptureDelta
<1>3. CASE CaptureBase(c, r, id)
  <2>1. now < MaxCaptures
    BY <1>3 DEF CaptureBase
  <2>2. BaseItem(c, r) \in Item /\ BaseItem(c, r).seq <= now + 1
    BY <2>1, BaseItemType
  <2> QED BY <1>3, <2>1, <2>2, CaptureItemType DEF CaptureBase
<1> QED BY <1>1, <1>2, <1>3

\* A merge, whether or not a crash leaves superseded sidecars behind.
LEMMA CoalesceType ==
  ASSUME TypeInv, NEW begun, NEW a \in Pending, NEW b \in Pending, NEW left,
         Coalesce(begun, a, b, left)
  PROVE  (OutboxTypeOK /\ SeqBound)'
<1> DEFINE R == {it \in RunFrom(a, begun) : it.seq <= b.seq}
<1>1. R \subseteq Pending /\ Pending \subseteq items
  BY DEF RunFrom, Pending
<1>2. b \in R
  <2>1. b \in RunFrom(a, begun)
    BY DEF Coalesce
  <2>2. b.seq \in Seqs
    BY <1>1 DEF TypeInv, TypeOK, OutboxTypeOK, Item
  <2>3. b.seq <= b.seq
    BY <2>2, ConstantsAssumption DEF Seqs
  <2> QED BY <2>1, <2>3
<1>3. Merged(R) \in Item /\ Merged(R).seq <= now
  BY <1>1, <1>2, MergedType
<1>4. items' \subseteq items \cup {Merged(R)}
  BY <1>1 DEF Coalesce
<1>5. crashes' \in 0..MaxCrashes
  <2>1. crashes \in 0..MaxCrashes /\ MaxCrashes \in Nat
    BY ConstantsAssumption DEF TypeInv, TypeOK, OutboxTypeOK
  <2>2. crashes' = crashes \/ (crashes < MaxCrashes /\ crashes' = crashes + 1)
    BY DEF Coalesce
  <2> QED BY <2>1, <2>2
<1>6. UNCHANGED <<idx, cap, now, mem, damage>>
  BY DEF Coalesce
<1> HIDE DEF R
<1>7. OutboxTypeOK'
  BY <1>3, <1>4, <1>5, <1>6 DEF TypeInv, TypeOK, OutboxTypeOK
<1>8. SeqBound'
  BY <1>3, <1>4, <1>6 DEF TypeInv, SeqBound
<1> QED BY <1>7, <1>8

\* A subset of the items, the rest of the outbox as it was or absent.
LEMMA FewerItemsType ==
  ASSUME TypeInv, items' \subseteq items, idx' \in {idx, None}, cap' \in {cap, None},
         mem' \in {mem, None}, now' = now,
         crashes' \in 0..MaxCrashes, damage' \in 0..MaxDamage
  PROVE  (OutboxTypeOK /\ SeqBound)'
<1>1. OutboxTypeOK'
  BY DEF TypeInv, TypeOK, OutboxTypeOK
<1>2. SeqBound'
  BY DEF TypeInv, SeqBound
<1> QED BY <1>1, <1>2

\* One item's local files change.
LEMMA LocalFilesType ==
  ASSUME TypeInv, NEW it \in items,
         NEW h \in SUBSET Kinds, NEW d \in SUBSET Kinds,
         items' \subseteq items \cup {[it EXCEPT !.here = h, !.bad = d]},
         UNCHANGED <<idx, cap, now, mem>>,
         crashes' \in 0..MaxCrashes, damage' \in 0..MaxDamage
  PROVE  (OutboxTypeOK /\ SeqBound)'
<1>1. it \in Item /\ it.seq <= now
  BY DEF TypeInv, TypeOK, OutboxTypeOK, SeqBound
<1>2. [it EXCEPT !.here = h, !.bad = d] \in Item
      /\ [it EXCEPT !.here = h, !.bad = d].seq = it.seq
  BY <1>1 DEF Item
<1>3. OutboxTypeOK'
  BY <1>2 DEF TypeInv, TypeOK, OutboxTypeOK
<1>4. SeqBound'
  BY <1>1, <1>2 DEF TypeInv, SeqBound
<1> QED BY <1>3, <1>4

\* Every file on Drive has an id.
LEMMA DriveFileId ==
  ASSUME NEW f \in DriveFile
  PROVE  f.id \in 1..MaxFiles
BY DEF DriveFile, PageFile, RecsFile

\* What an item's commit uploads is a manifest.
LEMMA ManifestOfType ==
  ASSUME TypeInv, NEW it \in items
  PROVE  ManifestOf(it) \in Manifest
<1>1. it \in Item /\ files \subseteq DriveFile /\ sent \subseteq DriveFile
  BY DEF TypeInv, TypeOK, OutboxTypeOK, JournalTypeOK
<1>2. ManifestFiles({f \in files : f.chain = it.chain} \cup SentOf(it)) \subseteq DriveFile
  BY <1>1 DEF ManifestFiles, SentOf
<1> DEFINE fs == ManifestFiles({f \in files : f.chain = it.chain} \cup SentOf(it))
<1>3. ManifestOf(it) = [chain |-> it.chain, seq |-> it.seq, at |-> it.at,
                        db |-> it.db, fp |-> it.fp, files |-> fs]
  BY DEF ManifestOf
<1> HIDE DEF fs
<1>4. fs \in SUBSET DriveFile
  BY <1>2 DEF fs
<1> QED BY <1>1, <1>3, <1>4 DEF Manifest, Item

\* What an upload leaves on Drive is a file with the next id.
LEMMA SentFileType ==
  ASSUME TypeInv, NEW it \in items, NEW k \in Kinds, NextKind(it, k), nextId <= MaxFiles
  PROVE  [id |-> nextId, chain |-> it.chain, seq |-> it.seq, kind |-> k,
          data |-> Data(it, k)] \in DriveFile
<1>1. it \in Item /\ nextId \in 1..MaxFiles + 1 /\ MaxFiles \in Nat
  BY UploaderAssumption DEF TypeInv, TypeOK, OutboxTypeOK, JournalTypeOK
<1>2. nextId \in 1..MaxFiles
  BY <1>1
<1>3. it.chain \in Chains /\ it.seq \in Seqs /\ it.pages \in PageMaps
      /\ it.recs \in Recs \cup {None}
  BY <1>1 DEF Item
<1>4. CASE k = "pages"
  BY <1>2, <1>3, <1>4 DEF DriveFile, PageFile, Data
<1>5. CASE k = "records"
  <2>1. it.recs # None
    BY <1>5 DEF NextKind, Files
  <2> QED BY <1>2, <1>3, <1>5, <2>1 DEF DriveFile, RecsFile, Data
<1> QED BY <1>4, <1>5 DEF Kinds

\* The fault-free steps of an upload.
LEMMA UploadType ==
  ASSUME TypeInv, Upload
  PROVE  TypeInv'
<1>1. PICK it \in items :
        \/ StartItem(it)
        \/ \E k \in Kinds, kept \in BOOLEAN : SendFile(it, k, kept)
        \/ PutManifest(it)
        \/ RecordCommit(it)
        \/ FinishDropState(it)
        \/ FinishDelete(it)
  BY DEF Upload
<1>2. /\ it \in Item /\ it.chain \in Chains /\ it.seq \in Seqs
      /\ Name(it) \in Chains \X Seqs
  BY DEF TypeInv, TypeOK, OutboxTypeOK, Item, Name
<1>3. OutboxTypeOK /\ SeqBound /\ JournalTypeOK
  BY DEF TypeInv, TypeOK
<1>4. CASE StartItem(it)
  <2>1. (OutboxTypeOK /\ SeqBound)'
    BY <1>3, <1>4 DEF StartItem, outboxVars, OutboxTypeOK, SeqBound
  <2>2. JournalTypeOK'
    BY <1>2, <1>3, <1>4 DEF StartItem, JournalTypeOK
  <2> QED BY <2>1, <2>2 DEF TypeInv, TypeOK
<1>5. CASE \E k \in Kinds, kept \in BOOLEAN : SendFile(it, k, kept)
  <2>1. PICK k \in Kinds, kept \in BOOLEAN : SendFile(it, k, kept)
    BY <1>5
  <2>2. (OutboxTypeOK /\ SeqBound)'
    <3>1. crashes' \in 0..MaxCrashes
      <4>1. crashes \in 0..MaxCrashes /\ MaxCrashes \in Nat
        BY <1>3, ConstantsAssumption DEF OutboxTypeOK
      <4>2. crashes' = crashes \/ (crashes < MaxCrashes /\ crashes' = crashes + 1)
        BY <2>1 DEF SendFile
      <4> QED BY <4>1, <4>2
    <3>2. UNCHANGED <<idx, cap, now, mem, damage>> /\ damage' \in 0..MaxDamage
      BY <1>3, <2>1 DEF SendFile, OutboxTypeOK
    <3>3. it.here \ {k} \in SUBSET Kinds /\ it.bad \in SUBSET Kinds
      BY <1>2 DEF Item
    <3>4. [it EXCEPT !.here = @ \ {k}] = [it EXCEPT !.here = it.here \ {k}, !.bad = it.bad]
      BY <1>2 DEF Item
    <3>5. items' \subseteq items \cup {[it EXCEPT !.here = it.here \ {k}, !.bad = it.bad]}
      BY <2>1, <3>4 DEF SendFile
    <3> QED BY <3>1, <3>2, <3>3, <3>5, LocalFilesType
  <2>3. JournalTypeOK'
    <3>1. nextId <= MaxFiles /\ nextId \in 1..MaxFiles + 1 /\ MaxFiles \in Nat
          /\ MaxMismatches \in Nat
      BY <1>3, <2>1, UploaderAssumption DEF SendFile, JournalTypeOK
    <3>2. nextId' \in 1..MaxFiles + 1 /\ refused' \in 0..MaxMismatches
      BY <2>1, <3>1 DEF SendFile
    <3>3. sent' \subseteq DriveFile
      <4>1. sent' = sent \cup {[id |-> nextId, chain |-> it.chain, seq |-> it.seq,
                                kind |-> k, data |-> Data(it, k)]}
        BY <2>1 DEF SendFile
      <4>2. NextKind(it, k)
        BY <2>1 DEF SendFile
      <4> QED BY <1>3, <3>1, <4>1, <4>2, SentFileType DEF JournalTypeOK
    <3>4. UNCHANGED <<entries, committed, files, started, deletes, folders, manifests>>
      BY <2>1 DEF SendFile
    <3> QED BY <1>3, <3>2, <3>3, <3>4 DEF JournalTypeOK
  <2> QED BY <2>2, <2>3 DEF TypeInv, TypeOK
<1>6. CASE PutManifest(it)
  <2>1. (OutboxTypeOK /\ SeqBound)'
    BY <1>3, <1>6 DEF PutManifest, outboxVars, OutboxTypeOK, SeqBound
  <2>2. manifests' \subseteq Manifest
    BY <1>3, <1>6, ManifestOfType DEF PutManifest, JournalTypeOK
  <2>3. JournalTypeOK'
    BY <1>3, <1>6, <2>2 DEF PutManifest, journalVars, JournalTypeOK
  <2> QED BY <2>1, <2>3 DEF TypeInv, TypeOK
<1>7. CASE RecordCommit(it)
  <2>1. (OutboxTypeOK /\ SeqBound)'
    BY <1>3, <1>7 DEF RecordCommit, outboxVars, OutboxTypeOK, SeqBound
  <2>2. committed' \in [Chains -> 0..MaxCaptures] /\ refused' \in 0..MaxMismatches
    BY <1>2, <1>3, <1>7, ConstantsAssumption, UploaderAssumption
       DEF RecordCommit, JournalTypeOK, Seqs
  <2>3. files' \subseteq DriveFile /\ sent' \subseteq DriveFile
        /\ started' \subseteq Chains \X Seqs
    BY <1>3, <1>7 DEF RecordCommit, JournalTypeOK, SentOf
  <2>4. JournalTypeOK'
    BY <1>3, <1>7, <2>2, <2>3 DEF RecordCommit, driveVars, JournalTypeOK
  <2> QED BY <2>1, <2>4 DEF TypeInv, TypeOK
<1>8. CASE FinishDropState(it) \/ FinishDelete(it)
  <2>1. JournalTypeOK'
    BY <1>3, <1>8 DEF FinishDropState, FinishDelete, journalVars, driveVars, JournalTypeOK
  <2>2. /\ items' \subseteq items /\ cap' \in {cap, None}
        /\ UNCHANGED <<idx, now, mem, crashes, damage>>
    BY <1>8 DEF FinishDropState, FinishDelete
  <2>3. (OutboxTypeOK /\ SeqBound)'
    BY <1>3, <2>2, FewerItemsType DEF OutboxTypeOK
  <2> QED BY <2>1, <2>3 DEF TypeInv, TypeOK
<1> QED BY <1>1, <1>4, <1>5, <1>6, <1>7, <1>8

\* The first write of a discard, whatever led to it.
LEMMA DiscardType ==
  ASSUME TypeInv, NEW it \in items, Discard(it), damage' \in 0..MaxDamage
  PROVE  TypeInv'
<1>1. OutboxTypeOK /\ SeqBound /\ JournalTypeOK
  BY DEF TypeInv, TypeOK
<1>2. Victims(it) \subseteq items /\ it.chain \in Chains
  BY <1>1 DEF Victims, Pending, OutboxTypeOK, Item
<1>3. {Name(o) : o \in Victims(it)} \subseteq Chains \X Seqs
  BY <1>1, <1>2 DEF Name, OutboxTypeOK, Item
<1>4. mem' \in [job : {"discard"}, chain : Chains, dropped : BOOLEAN,
                victims : SUBSET (Chains \X Seqs)]
  BY <1>2, <1>3 DEF Discard
<1>5. OutboxTypeOK'
  BY <1>1, <1>4 DEF Discard, OutboxTypeOK
<1>6. SeqBound'
  BY <1>1, <1>4 DEF Discard, SeqBound
<1>7. UNION {SentOf(o) : o \in Victims(it)} \subseteq sent
  BY DEF SentOf
<1>8. sent' \subseteq sent /\ started' \subseteq started /\ refused' \in {0, refused}
      /\ UNCHANGED <<entries, committed, files, driveVars>>
  BY DEF Discard
<1>9. deletes' \subseteq 1..MaxFiles
  <2>1. \A f \in sent : f.id \in 1..MaxFiles
    BY <1>1, DriveFileId DEF JournalTypeOK
  <2> QED BY <1>1, <1>7, <2>1 DEF Discard, JournalTypeOK
<1>10. JournalTypeOK'
  BY <1>1, <1>8, <1>9, UploaderAssumption DEF JournalTypeOK, driveVars
<1> QED BY <1>5, <1>6, <1>10 DEF TypeInv, TypeOK

\* Each of the reasons to discard an item.
LEMMA DiscardBeginType ==
  ASSUME TypeInv, DiscardBegin
  PROVE  TypeInv'
<1>1. PICK it \in items :
        \/ DiscardGap(it)
        \/ DiscardMissing(it)
        \/ \E k \in Kinds : DiscardCorrupt(it, k) \/ DiscardRefused(it, k)
        \/ DiscardUnmergeable(it)
  BY DEF DiscardBegin
<1>2. Discard(it)
  BY <1>1 DEF DiscardGap, DiscardMissing, DiscardCorrupt, DiscardRefused, DiscardUnmergeable
<1>3. damage' = damage \/ (damage < MaxDamage /\ damage' = damage + 1)
  BY <1>1 DEF DiscardGap, DiscardMissing, DiscardCorrupt, DiscardRefused, DiscardUnmergeable
<1>4. damage' \in 0..MaxDamage
  BY <1>3, ConstantsAssumption DEF TypeInv, TypeOK, OutboxTypeOK
<1> QED BY <1>2, <1>4, DiscardType

\* The rest of a discard: the capture state, then the victims.
LEMMA DiscardRestType ==
  ASSUME TypeInv, DiscardDropState \/ DiscardVictim
  PROVE  TypeInv'
<1>1. OutboxTypeOK /\ SeqBound /\ JournalTypeOK
  BY DEF TypeInv, TypeOK
<1>2. UNCHANGED <<journalVars, driveVars>>
  BY DEF DiscardDropState, DiscardVictim
<1>3. JournalTypeOK'
  BY <1>1, <1>2 DEF journalVars, driveVars, JournalTypeOK
<1> DEFINE Discards == [job : {"discard"}, chain : Chains, dropped : BOOLEAN,
                        victims : SUBSET (Chains \X Seqs)]
<1>4. mem # None /\ mem.job = "discard"
  BY DEF DiscardDropState, DiscardVictim
<1>5. mem \in Discards
  BY <1>1, <1>4 DEF OutboxTypeOK
<1>6. mem' \in Discards \cup {None}
  <2>1. CASE DiscardDropState
    BY <1>5, <2>1 DEF DiscardDropState
  <2>2. CASE DiscardVictim
    BY <1>5, <2>2 DEF DiscardVictim
  <2> QED BY <2>1, <2>2
<1>7. /\ items' \subseteq items /\ cap' \in {cap, None}
      /\ UNCHANGED <<idx, now, crashes, damage>>
  BY DEF DiscardDropState, DiscardVictim
<1>8. OutboxTypeOK'
  BY <1>1, <1>6, <1>7 DEF OutboxTypeOK
<1>9. SeqBound'
  BY <1>1, <1>6, <1>7 DEF SeqBound
<1> QED BY <1>3, <1>8, <1>9 DEF TypeInv, TypeOK

\* Captures, sweeps and merges.
LEMMA OutboxType ==
  ASSUME TypeInv, Outbox
  PROVE  TypeInv'
<1>1. OutboxTypeOK /\ SeqBound /\ JournalTypeOK
  BY DEF TypeInv, TypeOK
<1>2. JournalTypeOK'
  BY <1>1 DEF Outbox, journalVars, driveVars, JournalTypeOK
<1>3. (OutboxTypeOK /\ SeqBound)'
  <2>1. CASE Capture
    BY <2>1, CaptureType
  <2>2. CASE SaveIndex
    <3>1. mem \in [job : {"capture"}, saved : BOOLEAN, cap : CaptureState]
      BY <1>1, <2>2 DEF SaveIndex, OutboxTypeOK
    <3>2. mem' \in [job : {"capture"}, saved : BOOLEAN, cap : CaptureState]
          /\ mem'.cap = mem.cap /\ mem.cap.db \in Contents
      BY <2>2, <3>1 DEF SaveIndex, CaptureState
    <3>3. OutboxTypeOK'
      BY <1>1, <2>2, <3>2 DEF SaveIndex, OutboxTypeOK
    <3>4. SeqBound'
      BY <1>1, <2>2, <3>2 DEF SaveIndex, SeqBound
    <3> QED BY <3>3, <3>4
  <2>3. CASE SaveState
    <3>1. mem.cap \in CaptureState
      BY <1>1, <2>3 DEF SaveState, OutboxTypeOK
    <3>2. OutboxTypeOK'
      BY <1>1, <2>3, <3>1 DEF SaveState, OutboxTypeOK
    <3>3. SeqBound'
      BY <1>1, <2>3 DEF SaveState, SeqBound
    <3> QED BY <3>2, <3>3
  <2>4. CASE Sweep
    <3>1. items' \subseteq items /\ UNCHANGED <<idx, cap, now, mem, crashes, damage>>
      BY <2>4 DEF Sweep, Pending
    <3> QED BY <1>1, <3>1, FewerItemsType DEF OutboxTypeOK
  <2>5. CASE \E a, b \in Pending, left \in Seqs : Coalesce(NotMergeable, a, b, left)
    <3>1. PICK a \in Pending, b \in Pending, left \in Seqs :
            Coalesce(NotMergeable, a, b, left)
      BY <2>5
    <3> QED BY <3>1, CoalesceType
  <2> QED BY <2>1, <2>2, <2>3, <2>4, <2>5 DEF Outbox
<1> QED BY <1>2, <1>3 DEF TypeInv, TypeOK

\* Crashes, lost and damaged files, refusals, a lost journal.
LEMMA FaultsType ==
  ASSUME TypeInv, Faults
  PROVE  TypeInv'
<1>1. OutboxTypeOK /\ SeqBound /\ JournalTypeOK
  BY DEF TypeInv, TypeOK
<1>2. MaxCrashes \in Nat /\ MaxDamage \in Nat /\ MaxMismatches \in Nat
      /\ MaxCaptures \in Nat /\ crashes \in 0..MaxCrashes /\ damage \in 0..MaxDamage
  BY <1>1, ConstantsAssumption, UploaderAssumption DEF OutboxTypeOK
<1>3. CASE (Crash \/ OutboxDamage) /\ UNCHANGED <<journalVars, driveVars>>
  <2>1. JournalTypeOK'
    BY <1>1, <1>3 DEF journalVars, driveVars, JournalTypeOK
  <2>2. CASE Crash
    <3>1. crashes' \in 0..MaxCrashes
      BY <1>2, <2>2 DEF Crash
    <3> QED BY <1>2, <2>1, <2>2, <3>1, FewerItemsType DEF Crash, TypeInv, TypeOK
  <2>3. CASE \E it \in items, k \in Kinds : LoseFile(it, k) \/ CorruptFile(it, k)
    <3>1. PICK it \in items, k \in Kinds : LoseFile(it, k) \/ CorruptFile(it, k)
      BY <2>3
    <3>2. it \in Item /\ it.here \in SUBSET Kinds /\ it.bad \in SUBSET Kinds
      BY <1>1 DEF OutboxTypeOK, Item
    <3>3. PICK h \in SUBSET Kinds, d \in SUBSET Kinds :
            items' \subseteq items \cup {[it EXCEPT !.here = h, !.bad = d]}
      <4>1. CASE LoseFile(it, k)
        <5>1. it.here \ {k} \in SUBSET Kinds /\ it.bad \ {k} \in SUBSET Kinds
          BY <3>2
        <5>2. items' \subseteq
                items \cup {[it EXCEPT !.here = it.here \ {k}, !.bad = it.bad \ {k}]}
          BY <4>1 DEF LoseFile
        <5> QED BY <5>1, <5>2
      <4>2. CASE CorruptFile(it, k)
        <5>1. it.bad \cup {k} \in SUBSET Kinds
          BY <3>2
        <5>2. [it EXCEPT !.bad = @ \cup {k}]
                = [it EXCEPT !.here = it.here, !.bad = it.bad \cup {k}]
          BY <3>2 DEF Item
        <5>3. items' \subseteq
                items \cup {[it EXCEPT !.here = it.here, !.bad = it.bad \cup {k}]}
          BY <4>2, <5>2 DEF CorruptFile
        <5> QED BY <3>2, <5>1, <5>3
      <4> QED BY <3>1, <4>1, <4>2
    <3>4. damage' \in 0..MaxDamage
      BY <1>2, <3>1 DEF LoseFile, CorruptFile
    <3>5. UNCHANGED <<idx, cap, now, mem, crashes>>
      BY <3>1 DEF LoseFile, CorruptFile
    <3> QED BY <1>2, <2>1, <3>3, <3>4, <3>5, LocalFilesType DEF TypeInv, TypeOK
  <2>4. CASE LoseIndex \/ LoseState
    <3>1. damage' \in 0..MaxDamage
      BY <1>2, <2>4 DEF LoseIndex, LoseState
    <3>2. /\ items' \subseteq items /\ idx' \in {idx, None} /\ cap' \in {cap, None}
          /\ mem' \in {mem, None} /\ now' = now /\ crashes' \in 0..MaxCrashes
      BY <1>2, <2>4 DEF LoseIndex, LoseState
    <3> QED BY <2>1, <3>1, <3>2, FewerItemsType DEF TypeInv, TypeOK
  <2> QED BY <1>3, <2>2, <2>3, <2>4 DEF OutboxDamage
<1>4. CASE \E it \in items, k \in Kinds : Mismatch(it, k)
  <2>1. PICK it \in items, k \in Kinds : Mismatch(it, k)
    BY <1>4
  <2>2. damage' \in 0..MaxDamage /\ refused' \in 0..MaxMismatches
    <3>1. refused \in 0..MaxMismatches
      BY <1>1 DEF JournalTypeOK
    <3> QED BY <1>2, <2>1, <3>1 DEF Mismatch
  <2>3. (OutboxTypeOK /\ SeqBound)'
    BY <1>1, <2>1, <2>2 DEF Mismatch, OutboxTypeOK, SeqBound
  <2>4. JournalTypeOK'
    BY <1>1, <2>1, <2>2 DEF Mismatch, driveVars, JournalTypeOK
  <2> QED BY <2>3, <2>4 DEF TypeInv, TypeOK
<1>5. CASE LoseJournal
  <2>1. damage' \in 0..MaxDamage
    BY <1>2, <1>5 DEF LoseJournal
  <2>2. (OutboxTypeOK /\ SeqBound)'
    BY <1>1, <1>5, <2>1 DEF LoseJournal, OutboxTypeOK, SeqBound
  <2>3. JournalTypeOK'
    BY <1>1, <1>2, <1>5 DEF LoseJournal, driveVars, JournalTypeOK
  <2> QED BY <2>2, <2>3 DEF TypeInv, TypeOK
<1> QED BY <1>3, <1>4, <1>5 DEF Faults

\* TypeInv is inductive.
LEMMA TypeInvStep == TypeInv /\ [Next]_vars => TypeInv'
<1> SUFFICES ASSUME TypeInv, [Next]_vars PROVE TypeInv'
  OBVIOUS
<1>1. CASE Outbox
  BY <1>1, OutboxType
<1>2. CASE Upload
  BY <1>2, UploadType
<1>3. CASE DiscardBegin
  BY <1>3, DiscardBeginType
<1>4. CASE DiscardDropState \/ DiscardVictim
  BY <1>4, DiscardRestType
<1>5. CASE Faults
  BY <1>5, FaultsType
<1>6. CASE UNCHANGED vars
  BY <1>6 DEF vars, outboxVars, journalVars, driveVars, TypeInv, TypeOK, SeqBound,
              OutboxTypeOK, JournalTypeOK
<1> QED BY <1>1, <1>2, <1>3, <1>4, <1>5, <1>6 DEF Next

\* TypeInv holds in every reachable state.
LEMMA TypeInvAlways == Spec => []TypeInv
<1>1. Init => TypeInv
  BY TypeInvInit
<1>2. TypeInv /\ [Next]_vars => TypeInv'
  BY TypeInvStep
<1> QED BY <1>1, <1>2, PTL DEF Spec

\* Every step of the capture and upload pipeline leaves outbox, journal and
\* Drive holding what the code can put there, whatever the bounds.
THEOREM TypeCorrect == Spec => []TypeOK
<1>1. TypeInv => TypeOK
  BY DEF TypeInv
<1> QED BY <1>1, TypeInvAlways, PTL
-----------------------------------------------------------------------------
(* JournalBacked.  It is not inductive: StartItem brings a folder back for a *)
(* chain the journal has no entry of, and only EntriesKnown says that such a *)
(* chain has nothing committed.                                              *)

\* A chain with something committed has an entry.
EntriesKnown == \A ch \in Chains : committed[ch] > 0 => ch \in entries

\* The journal's part of the inductive invariant.
JournalInv == TypeInv /\ EntriesKnown /\ JournalBacked

\* Committing an item adds its own files to its chain's and to no other's.
LEMMA CommittedFiles ==
  ASSUME NEW it, NEW ch
  PROVE  {f \in files \cup SentOf(it) : f.chain = ch} =
           IF ch = it.chain THEN {f \in files : f.chain = ch} \cup SentOf(it)
           ELSE {f \in files : f.chain = ch}
<1>1. \A f \in SentOf(it) : f.chain = it.chain
  BY DEF SentOf
<1> QED BY <1>1

\* Nothing is committed at first.
LEMMA JournalInvInit == Init => JournalInv
<1> SUFFICES ASSUME Init PROVE JournalInv
  OBVIOUS
<1>1. EntriesKnown /\ JournalBacked
  BY DEF Init, EntriesKnown, JournalBacked
<1> QED BY <1>1, TypeInvInit DEF JournalInv

\* The journal records a commit only of a manifest that is there.
LEMMA RecordCommitBacked ==
  ASSUME JournalInv, NEW it \in items, RecordCommit(it)
  PROVE  (EntriesKnown /\ JournalBacked)'
<1>1. it.chain \in Chains /\ it.seq \in 1..MaxCaptures
  BY DEF JournalInv, TypeInv, TypeOK, OutboxTypeOK, Item, Seqs
<1>2. committed \in [Chains -> 0..MaxCaptures] /\ folders \subseteq Chains
  BY DEF JournalInv, TypeInv, TypeOK, JournalTypeOK
<1>3. committed' = [committed EXCEPT ![it.chain] = it.seq]
      /\ files' = files \cup SentOf(it)
      /\ UNCHANGED <<entries, folders, manifests>>
  BY DEF RecordCommit, driveVars
<1>4. EntriesKnown'
  <2>1. it.chain \in entries
    BY DEF RecordCommit, Begun
  <2>2. started' \subseteq started
    BY DEF RecordCommit
  <2> QED BY <1>1, <1>2, <1>3, <2>1, <2>2 DEF JournalInv, EntriesKnown
<1>5. JournalBacked'
  <2> SUFFICES ASSUME NEW ch \in folders, committed'[ch] > 0
               PROVE  \E m \in manifests :
                        /\ m.chain = ch /\ m.seq = committed'[ch]
                        /\ m.files = ManifestFiles({f \in files' : f.chain = ch})
    BY <1>3 DEF JournalBacked
  <2>1. CASE ch = it.chain
    <3>1. ManifestOf(it) \in manifests
      BY <2>1 DEF RecordCommit
    <3>2. ManifestOf(it).chain = ch /\ ManifestOf(it).seq = committed'[ch]
      BY <1>1, <1>2, <1>3, <2>1 DEF ManifestOf
    <3>3. {f \in files' : f.chain = ch} = {f \in files : f.chain = ch} \cup SentOf(it)
      BY <1>3, <2>1, CommittedFiles
    <3>4. ManifestOf(it).files = ManifestFiles({f \in files' : f.chain = ch})
      BY <2>1, <3>3 DEF ManifestOf
    <3> QED BY <3>1, <3>2, <3>4
  <2>2. CASE ch # it.chain
    <3>1. committed'[ch] = committed[ch]
      BY <1>1, <1>2, <1>3, <2>2
    <3>2. {f \in files' : f.chain = ch} = {f \in files : f.chain = ch}
      BY <1>3, <2>2, CommittedFiles
    <3> QED BY <3>1, <3>2 DEF JournalInv, JournalBacked
  <2> QED BY <2>1, <2>2
<1> QED BY <1>4, <1>5

\* A folder made for a chain is of one with nothing committed.
LEMMA StartItemBacked ==
  ASSUME JournalInv, NEW it \in items, StartItem(it)
  PROVE  (EntriesKnown /\ JournalBacked)'
<1>1. EntriesKnown'
  BY DEF StartItem, Name, JournalInv, EntriesKnown
<1>2. JournalBacked'
  <2> SUFFICES ASSUME NEW ch \in folders', committed[ch] > 0
               PROVE  \E m \in manifests :
                        /\ m.chain = ch /\ m.seq = committed[ch]
                        /\ m.files = ManifestFiles({f \in files : f.chain = ch})
    BY DEF StartItem, JournalBacked
  <2>1. it.chain \in Chains /\ folders \subseteq Chains
    BY DEF JournalInv, TypeInv, TypeOK, OutboxTypeOK, JournalTypeOK, Item
  <2>2. ch \in folders
    BY <2>1 DEF StartItem, JournalInv, EntriesKnown
  <2> QED BY <2>2 DEF JournalInv, JournalBacked
<1> QED BY <1>1, <1>2

\* What every other step leaves alone, or only makes smaller.
LEMMA QuietBacked ==
  ASSUME JournalInv, UNCHANGED <<entries, committed, files, folders>>,
         started' \subseteq started, manifests \subseteq manifests'
  PROVE  (EntriesKnown /\ JournalBacked)'
BY DEF JournalInv, EntriesKnown, JournalBacked

\* JournalInv is inductive.
LEMMA JournalInvStep == JournalInv /\ [Next]_vars => JournalInv'
<1> SUFFICES ASSUME JournalInv, [Next]_vars PROVE JournalInv'
  OBVIOUS
<1>1. TypeInv'
  BY TypeInvStep DEF JournalInv
<1>2. (EntriesKnown /\ JournalBacked)'
  <2>1. CASE Outbox
    BY <2>1, QuietBacked DEF Outbox, journalVars, driveVars
  <2>2. CASE Upload
    <3>1. PICK it \in items :
            \/ StartItem(it)
            \/ \E k \in Kinds, kept \in BOOLEAN : SendFile(it, k, kept)
            \/ PutManifest(it)
            \/ RecordCommit(it)
            \/ FinishDropState(it)
            \/ FinishDelete(it)
      BY <2>2 DEF Upload
    <3>2. CASE StartItem(it)
      BY <3>2, StartItemBacked
    <3>3. CASE \E k \in Kinds, kept \in BOOLEAN : SendFile(it, k, kept)
      BY <3>3, QuietBacked DEF SendFile
    <3>4. CASE PutManifest(it)
      BY <3>4, QuietBacked DEF PutManifest, journalVars
    <3>5. CASE RecordCommit(it)
      BY <3>5, RecordCommitBacked
    <3>6. CASE FinishDropState(it) \/ FinishDelete(it)
      BY <3>6, QuietBacked DEF FinishDropState, FinishDelete, journalVars, driveVars
    <3> QED BY <3>1, <3>2, <3>3, <3>4, <3>5, <3>6
  <2>3. CASE DiscardBegin
    <3>1. PICK it \in items : Discard(it)
      BY <2>3 DEF DiscardBegin, DiscardGap, DiscardMissing, DiscardCorrupt,
                  DiscardRefused, DiscardUnmergeable
    <3> QED BY <3>1, QuietBacked DEF Discard, driveVars
  <2>4. CASE DiscardDropState \/ DiscardVictim
    BY <2>4, QuietBacked DEF DiscardDropState, DiscardVictim, journalVars, driveVars
  <2>5. CASE Faults
    <3>1. CASE (Crash \/ OutboxDamage) /\ UNCHANGED <<journalVars, driveVars>>
      BY <3>1, QuietBacked DEF journalVars, driveVars
    <3>2. CASE \E it \in items, k \in Kinds : Mismatch(it, k)
      BY <3>2, QuietBacked DEF Mismatch, driveVars
    <3>3. CASE LoseJournal
      BY <3>3 DEF LoseJournal, driveVars, JournalInv, TypeInv, TypeOK, JournalTypeOK,
                  EntriesKnown, JournalBacked
    <3> QED BY <2>5, <3>1, <3>2, <3>3 DEF Faults
  <2>6. CASE UNCHANGED vars
    BY <2>6, QuietBacked DEF vars, journalVars, driveVars
  <2> QED BY <2>1, <2>2, <2>3, <2>4, <2>5, <2>6 DEF Next
<1> QED BY <1>1, <1>2 DEF JournalInv

\* What the journal calls committed is on Drive: whatever crashes, faults and
\* discards come in between, a chain whose folder stands and of which the journal
\* records a committed item has the manifest of that very item there, naming
\* exactly the journal's files.
THEOREM JournalIsBacked == Spec => []JournalBacked
<1>1. Init => JournalInv
  BY JournalInvInit
<1>2. JournalInv /\ [Next]_vars => JournalInv'
  BY JournalInvStep
<1>3. JournalInv => JournalBacked
  BY DEF JournalInv
<1> QED BY <1>1, <1>2, <1>3, PTL DEF Spec

-----------------------------------------------------------------------------
(* The chains of the outbox: how the items of a chain lie through captures, *)
(* merges, discards and crashes, and what is in flight of them.             *)

\* Seqs, chains, times and ids are numbers: what arithmetic steps cite of the
\* type invariant.
Numbers ==
  /\ now \in Nat
  /\ \A it \in items : /\ it.seq \in Nat /\ 1 <= it.seq /\ it.prev \in Nat
                       /\ it.at \in Nat /\ it.chain \in Nat /\ it.chain \in Chains
  /\ cap # None => cap.seq \in Nat /\ 1 <= cap.seq /\ cap.chain \in Nat /\ cap.chain \in Chains
  /\ \A m \in manifests : m.seq \in Nat /\ 1 <= m.seq /\ m.at \in Nat /\ m.chain \in Nat /\ m.chain \in Chains
  /\ \A ch \in Chains : committed[ch] \in Nat
  /\ \A f \in files \cup sent : f.seq \in Nat /\ 1 <= f.seq /\ f.chain \in Chains /\ f.id \in Nat
  /\ \A m \in manifests : \A f \in m.files : f.seq \in Nat /\ f.id \in Nat
  /\ nextId \in Nat /\ deletes \subseteq Nat

\* What the type invariant says of numbers.
LEMMA NumbersType == TypeInv => Numbers
<1> SUFFICES ASSUME TypeInv PROVE Numbers
  OBVIOUS
<1>0. Chains \subseteq Nat /\ Seqs \subseteq Nat /\ 0..MaxCaptures \subseteq Nat
      /\ \A n \in Seqs : 1 <= n
  BY ConstantsAssumption DEF Chains, Seqs
<1>1. now \in Nat
  BY DEF TypeInv, TypeOK, OutboxTypeOK
<1>2. \A it \in items : /\ it.seq \in Nat /\ 1 <= it.seq /\ it.prev \in Nat
                        /\ it.at \in Nat /\ it.chain \in Nat /\ it.chain \in Chains
  <2>1. items \subseteq Item
    BY DEF TypeInv, TypeOK, OutboxTypeOK
  <2>2. \A it \in Item : it.seq \in Seqs /\ it.prev \in 0..MaxCaptures /\ it.at \in Chains /\ it.chain \in Chains
    BY DEF Item
  <2> QED BY <1>0, <2>1, <2>2
<1>3. cap # None => cap.seq \in Nat /\ 1 <= cap.seq /\ cap.chain \in Nat /\ cap.chain \in Chains
  <2>1. cap \in CaptureState \cup {None}
    BY DEF TypeInv, TypeOK, OutboxTypeOK
  <2>2. \A c \in CaptureState : c.seq \in Seqs /\ c.chain \in Chains
    BY DEF CaptureState
  <2> QED BY <1>0, <2>1, <2>2
<1>4. \A m \in manifests : m.seq \in Nat /\ 1 <= m.seq /\ m.at \in Nat /\ m.chain \in Nat /\ m.chain \in Chains
  <2>1. manifests \subseteq Manifest
    BY DEF TypeInv, TypeOK, JournalTypeOK
  <2>2. \A m \in Manifest : m.seq \in Seqs /\ m.at \in Chains /\ m.chain \in Chains
    BY DEF Manifest
  <2> QED BY <1>0, <2>1, <2>2
<1>5. \A ch \in Chains : committed[ch] \in Nat
  <2>1. committed \in [Chains -> 0..MaxCaptures]
    BY DEF TypeInv, TypeOK, JournalTypeOK
  <2> QED BY <1>0, <2>1
<1>6. \A f \in files \cup sent : f.seq \in Nat /\ 1 <= f.seq /\ f.chain \in Chains /\ f.id \in Nat
  <2>1. files \cup sent \subseteq DriveFile
    BY DEF TypeInv, TypeOK, JournalTypeOK
  <2>2. \A f \in DriveFile : f.seq \in Seqs /\ f.chain \in Chains /\ f.id \in 1..MaxFiles
    BY DEF DriveFile, PageFile, RecsFile
  <2>3. 1..MaxFiles \subseteq Nat
    BY UploaderAssumption
  <2> QED BY <1>0, <2>1, <2>2, <2>3
<1>7. \A m \in manifests : \A f \in m.files : f.seq \in Nat /\ f.id \in Nat
  <2>1. \A m \in manifests : m.files \subseteq DriveFile
    <3>1. manifests \subseteq Manifest
      BY DEF TypeInv, TypeOK, JournalTypeOK
    <3>2. \A m \in Manifest : m.files \in SUBSET DriveFile
      BY DEF Manifest
    <3> QED BY <3>1, <3>2
  <2>2. \A f \in DriveFile : f.seq \in Seqs /\ f.id \in 1..MaxFiles
    BY DEF DriveFile, PageFile, RecsFile
  <2>3. 1..MaxFiles \subseteq Nat
    BY UploaderAssumption
  <2> QED BY <1>0, <2>1, <2>2, <2>3
<1>8. nextId \in Nat /\ deletes \subseteq Nat
  <2>1. nextId \in 1..MaxFiles + 1 /\ deletes \subseteq 1..MaxFiles
    BY DEF TypeInv, TypeOK, JournalTypeOK
  <2> QED BY <2>1, UploaderAssumption
<1> QED BY <1>1, <1>2, <1>3, <1>4, <1>5, <1>6, <1>7, <1>8 DEF Numbers

-----------------------------------------------------------------------------
(* How the items of a chain lie. *)

\* Only a base has nothing before it; time and chain ids come from the clock.
Shape == \A it \in items : /\ it.prev < it.seq
                           /\ it.prev = 0 => it.seq = 1
                           /\ it.chain <= now /\ it.at <= now

\* No two items have one name: _commit_item replaces a sidecar of the same name.
NamesUnique == \A a, b \in items : a.chain = b.chain /\ a.seq = b.seq => a = b

\* Two items of a chain lie apart or one inside the other, and the later was
\* taken no earlier: what a capture appends and a merge spans.
Nested == \A a, b \in items : a.chain = b.chain /\ a.seq < b.seq =>
  /\ a.seq <= b.prev \/ b.prev <= a.prev
  /\ a.at <= b.at

\* The state, and the one still to be written, are of a chain that exists.
ChainsKnown == /\ cap # None => cap.chain <= now
               /\ (mem # None /\ mem.job = "capture") => mem.cap.chain <= now

\* How the items of a chain lie.
ChainInv == Shape /\ NamesUnique /\ Nested /\ ChainsKnown

\* An item is pending iff no item reaches over it.
LEMMA PendingIs ==
  ASSUME Numbers, Shape, NEW it
  PROVE  it \in Pending <=>
           /\ it \in items
           /\ \A o \in items : o.chain = it.chain => it.seq <= o.prev \/ o.seq <= it.seq
<1>1. \A o \in items : o.prev = 0 => o.seq = 1
  BY DEF Shape
<1>2. ASSUME it \in items
      PROVE  Superseded(it) <=> \E o \in items : o.chain = it.chain /\ o.prev < it.seq /\ it.seq < o.seq
  BY <1>1, <1>2 DEF Superseded, IsBase, Numbers
<1>3. ASSUME it \in items, NEW o \in items
      PROVE  (o.prev < it.seq /\ it.seq < o.seq) <=> ~(it.seq <= o.prev \/ o.seq <= it.seq)
  BY <1>3 DEF Numbers
<1> QED BY <1>2, <1>3 DEF Pending

\* Every item is pending or lies inside one that is, taken no earlier.
LEMMA PendingCover ==
  ASSUME TypeInv, Numbers, ChainInv, NEW c \in items
  PROVE  \E o \in Pending : /\ o.chain = c.chain /\ o.prev <= c.prev /\ c.seq <= o.seq
                            /\ c.at <= o.at
                            /\ o.seq = c.seq => o = c
<1> DEFINE S == {o \in items : o.chain = c.chain /\ o.prev <= c.prev /\ c.seq <= o.seq}
           top == NewestOf(S)
<1>1. c \in S
  BY DEF Numbers
<1>2. \A s \in S : s.seq \in Seqs
  BY DEF TypeInv, TypeOK, OutboxTypeOK, Item
<1>3. top \in S /\ \A t \in S : t.seq <= top.seq
  BY <1>1, <1>2, NewestOfMax
<1> HIDE DEF top
<1>4. ASSUME NEW x \in items, x.chain = top.chain, ~(top.seq <= x.prev), ~(x.seq <= top.seq)
      PROVE  FALSE
  <2>1. top \in items /\ top.seq < x.seq
    BY <1>3, <1>4 DEF Numbers
  <2>2. x.prev <= top.prev
    BY <1>4, <2>1 DEF ChainInv, Nested
  <2>3. x \in S
    BY <1>3, <1>4, <2>1, <2>2 DEF Numbers
  <2> QED BY <1>3, <1>4, <2>3
<1>5. top \in Pending
  BY <1>3, <1>4, PendingIs DEF ChainInv
<1>6. top.chain = c.chain /\ top.prev <= c.prev /\ c.seq <= top.seq /\ (top.seq = c.seq => top = c)
  BY <1>3 DEF ChainInv, NamesUnique
<1>7. c.at <= top.at
  <2>1. CASE top.seq = c.seq
    BY <1>6, <2>1 DEF Numbers
  <2>2. CASE top.seq # c.seq
    <3>1. c.seq < top.seq /\ top \in items
      BY <1>3, <1>6, <2>2 DEF Numbers
    <3> QED BY <1>6, <3>1 DEF ChainInv, Nested
  <2> QED BY <2>1, <2>2
<1> QED BY <1>5, <1>6, <1>7

\* it comes first in its chain: the others lie inside it or after it.
First(it) == \A o \in items : (o.chain = it.chain /\ o # it) =>
               \/ it.prev < o.seq /\ o.seq < it.seq
               \/ it.seq <= o.prev

\* The item an upload takes up is the first of its chain.
LEMMA OldestFirst ==
  ASSUME TypeInv, Numbers, ChainInv, NEW it, Oldest(it)
  PROVE  it \in items /\ First(it)
<1>1. it \in Pending /\ it \in items
  BY DEF Oldest, Pending
<1> SUFFICES ASSUME NEW o \in items, o.chain = it.chain, o # it
             PROVE  \/ it.prev < o.seq /\ o.seq < it.seq
                    \/ it.seq <= o.prev
  BY <1>1 DEF First
<1>2. o.seq # it.seq
  BY <1>1 DEF ChainInv, NamesUnique
<1>3. CASE it.seq < o.seq
  BY <1>1, <1>3, PendingIs DEF ChainInv, Numbers
<1>4. CASE o.seq < it.seq
  <2>1. PICK x \in Pending : x.chain = o.chain /\ x.prev <= o.prev /\ o.seq <= x.seq
    BY PendingCover
  <2>2. x \in items /\ o.prev < o.seq
    BY <2>1 DEF Pending, ChainInv, Shape
  <2>3. CASE x = it
    BY <1>1, <1>4, <2>1, <2>2, <2>3 DEF Numbers
  <2>4. CASE x # it
    <3>1. it.seq < x.seq
      BY <2>1, <2>4 DEF Oldest, Before
    <3>2. it.seq <= x.prev \/ x.seq <= it.seq
      BY <1>1, <2>1, <2>2, PendingIs DEF ChainInv
    <3> QED BY <1>1, <1>4, <2>1, <2>2, <3>1, <3>2 DEF Numbers
  <2> QED BY <2>3, <2>4
<1> QED BY <1>1, <1>2, <1>3, <1>4 DEF Numbers
-----------------------------------------------------------------------------
(* What captures, merges and damage do to the items of a chain.              *)

\* Items that differ at most in which of their local files are there and sound.
Same(a, b) == /\ a.chain = b.chain /\ a.seq = b.seq /\ a.prev = b.prev /\ a.at = b.at
              /\ a.db = b.db /\ a.pages = b.pages /\ a.recs = b.recs

\* A new item comes after every item of its chain.
LEMMA AddedChain ==
  ASSUME Numbers, Numbers', ChainInv, NEW it, items' = Pending \cup {it},
         now' = now + 1, it.at = now + 1, it.chain <= now + 1,
         it.prev < it.seq, it.prev = 0 => it.seq = 1,
         \A o \in items : o.chain = it.chain => o.seq <= it.prev
  PROVE  (Shape /\ NamesUnique /\ Nested)'
<1>1. Pending \subseteq items
  BY DEF Pending
<1>0. it \in items' /\ it.seq \in Nat /\ it.prev \in Nat /\ it.at \in Nat
  BY DEF Numbers
<1>2. Shape'
  BY <1>1 DEF ChainInv, Shape, Numbers
<1>3. NamesUnique'
  BY <1>0, <1>1 DEF ChainInv, NamesUnique, Numbers, Shape
<1>4. Nested'
  <2> SUFFICES ASSUME NEW a \in items', NEW b \in items', a.chain = b.chain, a.seq < b.seq
               PROVE  (a.seq <= b.prev \/ b.prev <= a.prev) /\ a.at <= b.at
    BY DEF Nested
  <2>1. CASE a \in Pending /\ b \in Pending
    BY <1>1, <2>1 DEF ChainInv, Nested
  <2>2. CASE a \in Pending /\ b = it
    BY <1>0, <1>1, <2>2 DEF ChainInv, Shape, Numbers
  <2>3. CASE a = it
    BY <1>0, <1>1, <2>3 DEF ChainInv, Shape, Numbers
  <2> QED BY <2>1, <2>2, <2>3
<1> QED BY <1>2, <1>3, <1>4

\* Taking items away keeps the rest in shape.
LEMMA FewerChain ==
  ASSUME ChainInv, items' \subseteq items, now' = now
  PROVE  (Shape /\ NamesUnique /\ Nested)'
BY DEF ChainInv, Shape, NamesUnique, Nested

\* Which local files an item still has is no part of the shape.
LEMMA TouchedChain ==
  ASSUME ChainInv, NEW it \in items, NEW too, Same(it, too),
         items' = (items \ {it}) \cup {too}, now' = now
  PROVE  (Shape /\ NamesUnique /\ Nested)'
<1>1. Shape'
  BY DEF ChainInv, Shape, Same
<1>2. NamesUnique'
  BY DEF ChainInv, NamesUnique, Same
<1>3. Nested'
  BY DEF ChainInv, Nested, Same
<1> QED BY <1>1, <1>2, <1>3

\* The items of a run, its first item and its last.
Run(R, a, b, begun) ==
  /\ R \subseteq Pending /\ a \in R /\ b \in R /\ a # b
  /\ \A c \in R : /\ c.chain = b.chain /\ a.seq <= c.seq /\ c.seq <= b.seq
                  /\ Name(c) \notin begun /\ ~IsBase(c) /\ Complete(c)
  /\ \A c \in Pending : (c.chain = b.chain /\ a.seq <= c.seq /\ c.seq <= b.seq) => c \in R
  /\ \A c \in R : c # a => \E d \in R : d.seq = c.prev

\* A merge works on a run: it has no holes and nothing in it is being uploaded.
LEMMA CoalesceRun ==
  ASSUME TypeInv, Numbers, ChainInv, NEW begun, NEW a \in Pending, NEW b \in Pending,
         NEW left, Coalesce(begun, a, b, left), NEW R,
         R = {it \in RunFrom(a, begun) : it.seq <= b.seq}
  PROVE  Run(R, a, b, begun)
<1>1. b \in RunFrom(a, begun) /\ a # b
  BY DEF Coalesce
<1>2. /\ b.chain = a.chain /\ a.seq <= b.seq
      /\ Mergeable(a, begun) /\ Linked(a, b, begun)
  BY <1>1 DEF RunFrom
<1>3. \A c \in Pending : c \in items /\ c.seq \in Nat /\ c.prev \in Nat /\ c.prev < c.seq
  BY DEF Pending, Numbers, ChainInv, Shape
<1>4. ASSUME NEW c \in Pending, c.chain = b.chain, a.seq <= c.seq, c.seq <= b.seq
      PROVE  c \in R
  <2>1. Linked(a, c, begun)
    BY <1>2, <1>3, <1>4 DEF Linked
  <2> QED BY <1>2, <1>4, <2>1 DEF RunFrom
<1>5. R \subseteq Pending /\ \A c \in R : c.chain = b.chain /\ a.seq <= c.seq /\ c.seq <= b.seq
  BY <1>2 DEF RunFrom
<1>6. a \in R /\ b \in R
  BY <1>2, <1>3, <1>4
<1>7. ASSUME NEW c \in R
      PROVE  Mergeable(c, begun)
  <2>1. CASE a.seq < c.seq
    BY <1>2, <1>5, <2>1 DEF Linked
  <2>2. CASE a.seq = c.seq
    <3>1. c \in items /\ a \in items
      BY <1>3, <1>5
    <3>2. c = a
      BY <1>2, <1>5, <2>2, <3>1 DEF ChainInv, NamesUnique
    <3> QED BY <1>2, <3>2
  <2> QED BY <1>3, <1>5, <2>1, <2>2
<1>8. ASSUME NEW c \in R, c # a
      PROVE  \E d \in R : d.seq = c.prev
  <2>1. c \in items /\ a \in items
    BY <1>3, <1>5
  <2>2. c.seq # a.seq
    BY <1>2, <1>5, <1>8, <2>1 DEF ChainInv, NamesUnique
  <2>3. a.seq < c.seq
    BY <1>3, <1>5, <2>2
  <2>4. PICK d \in Pending : d.chain = a.chain /\ d.seq = c.prev /\ d.seq >= a.seq
    BY <1>2, <1>5, <2>3 DEF Linked
  <2>5. d.seq <= b.seq
    BY <1>3, <1>5, <2>4
  <2>6. d \in R
    BY <1>2, <1>3, <1>4, <2>4, <2>5
  <2> QED BY <2>4, <2>6
<1> QED BY <1>1, <1>4, <1>5, <1>6, <1>7, <1>8 DEF Run, Mergeable, Name

\* The merged item: the last one's name, time and content, the first one's start.
LEMMA MergedFields ==
  ASSUME TypeInv, Numbers, ChainInv, NEW begun, NEW a, NEW b, NEW R, Run(R, a, b, begun)
  PROVE  /\ Merged(R).chain = b.chain /\ Merged(R).seq = b.seq /\ Merged(R).at = b.at
         /\ Merged(R).db = b.db /\ Merged(R).prev = a.prev
<1>1. R \subseteq items /\ a \in R /\ b \in R
  BY DEF Run, Pending
<1>2. \A c \in R : c.seq \in Seqs
  BY <1>1 DEF TypeInv, TypeOK, OutboxTypeOK, Item
<1>3. NewestOf(R) = b
  <2>1. NewestOf(R) \in R /\ \A t \in R : t.seq <= NewestOf(R).seq
    BY <1>1, <1>2, NewestOfMax
  <2>2. NewestOf(R).seq = b.seq /\ NewestOf(R).chain = b.chain
    BY <1>1, <2>1 DEF Run, Numbers
  <2> QED BY <1>1, <2>1, <2>2 DEF ChainInv, NamesUnique
<1>4. (CHOOSE it \in R : \A o \in R : it.seq <= o.seq) = a
  <2> DEFINE low == CHOOSE it \in R : \A o \in R : it.seq <= o.seq
  <2>1. low \in R /\ \A o \in R : low.seq <= o.seq
    BY <1>1, <1>2, OldestExists
  <2> HIDE DEF low
  <2>2. low.seq = a.seq /\ low.chain = a.chain
    BY <1>1, <2>1 DEF Run, Numbers
  <2>3. low = a
    BY <1>1, <2>1, <2>2 DEF ChainInv, NamesUnique
  <2> QED BY <2>3 DEF low
<1>5. b \in Item
  BY <1>1 DEF TypeInv, TypeOK, OutboxTypeOK
<1>6. PICK pages, recs, here, bad :
        Merged(R) = [b EXCEPT !.prev = a.prev, !.pages = pages, !.recs = recs,
                              !.here = here, !.bad = bad]
  BY <1>3, <1>4 DEF Merged
<1> QED BY <1>5, <1>6 DEF Item

\* Where a merge puts its item: nothing reaches into the run or over it.
LEMMA RunApart ==
  ASSUME Numbers, ChainInv, NEW begun, NEW a, NEW b, NEW R, Run(R, a, b, begun),
         NEW x \in Pending, x \notin R, x.chain = b.chain
  PROVE  \/ x.seq < a.seq /\ x.seq <= a.prev
         \/ b.seq < x.seq /\ b.seq <= x.prev
<1>1. a \in Pending /\ b \in Pending /\ a \in items /\ b \in items /\ x \in items
      /\ a.chain = b.chain /\ a.seq <= b.seq
  BY DEF Run, Pending
<1>2. x.seq < a.seq \/ b.seq < x.seq
  BY <1>1 DEF Run, Numbers
<1>3. CASE x.seq < a.seq
  <2>1. x.seq <= a.prev \/ a.seq <= x.seq
    BY <1>1, PendingIs DEF ChainInv
  <2> QED BY <1>1, <1>3, <2>1 DEF Numbers
<1>4. CASE b.seq < x.seq
  <2>1. b.seq <= x.prev \/ x.seq <= b.seq
    BY <1>1, PendingIs DEF ChainInv
  <2> QED BY <1>1, <1>4, <2>1 DEF Numbers
<1> QED BY <1>2, <1>3, <1>4

\* A merge, and what a crash in it leaves behind, lie as before.
LEMMA MergedChain ==
  ASSUME TypeInv, Numbers, Numbers', ChainInv, NEW begun, NEW a, NEW b, NEW R,
         Run(R, a, b, begun), NEW one, one = Merged(R), NEW rest \in SUBSET R,
         \A c \in rest : c.seq < b.seq,
         items' = (Pending \ R) \cup {one} \cup rest, now' = now
  PROVE  (Shape /\ NamesUnique /\ Nested)'
<1>1. Pending \subseteq items /\ R \subseteq items /\ a \in R /\ b \in R /\ rest \subseteq items
  BY DEF Run, Pending
<1>2. one.chain = b.chain /\ one.seq = b.seq /\ one.at = b.at /\ one.prev = a.prev
  BY MergedFields
<1>3. one \in items' /\ one.seq \in Nat /\ one.prev \in Nat /\ b.seq \in Nat /\ a.seq \in Nat
  BY <1>1, <1>2 DEF Numbers
<1>4. a.prev < a.seq /\ a.seq <= b.seq /\ a.prev # 0
  BY <1>1 DEF ChainInv, Shape, Run, IsBase
<1>5. Shape'
  <2>1. \A c \in items : /\ c.prev < c.seq /\ (c.prev = 0 => c.seq = 1)
                         /\ c.chain <= now /\ c.at <= now
    BY DEF ChainInv, Shape
  <2>2. one.prev < one.seq /\ one.prev # 0
    BY <1>1, <1>2, <1>3, <1>4 DEF Numbers
  <2>3. one.chain <= now /\ one.at <= now
    BY <1>1, <1>2, <2>1
  <2> QED BY <1>1, <2>1, <2>2, <2>3 DEF Shape
<1>6. \A c \in rest : c.chain = one.chain /\ c.seq < one.seq /\ one.prev <= c.prev /\ c.at <= one.at
  <2> SUFFICES ASSUME NEW c \in rest
               PROVE  c.chain = one.chain /\ c.seq < one.seq /\ one.prev <= c.prev /\ c.at <= one.at
    OBVIOUS
  <2>1. c.chain = b.chain /\ c.seq < b.seq /\ c \in items
    BY <1>1 DEF Run
  <2>2. c.at <= b.at
    BY <1>1, <2>1 DEF ChainInv, Nested
  <2>3. a.prev <= c.prev
    <3>1. CASE c = a
      BY <1>1, <3>1 DEF Numbers
    <3>2. CASE c # a
      <4>1. PICK d \in R : d.seq = c.prev
        BY <3>2 DEF Run
      <4>2. a.seq <= d.seq
        BY <4>1 DEF Run
      <4> QED BY <1>1, <1>4, <2>1, <4>1, <4>2 DEF Numbers
    <3> QED BY <3>1, <3>2
  <2> QED BY <1>2, <2>1, <2>2, <2>3
<1>7. \A x \in Pending \ R : x.chain = one.chain =>
        \/ x.seq < a.seq /\ x.seq <= one.prev
        \/ one.seq < x.seq /\ one.seq <= x.prev
  BY <1>2, RunApart
<1>8. NamesUnique'
  <2>1. \A x \in Pending \ R : x.chain = one.chain => x.seq # one.seq
    BY <1>1, <1>2, <1>3, <1>4, <1>7 DEF Numbers
  <2>2. \A x \in rest : x.seq # one.seq
    BY <1>1, <1>2, <1>3 DEF Numbers
  <2> QED BY <1>1, <2>1, <2>2 DEF ChainInv, NamesUnique
<1>9. Nested'
  <2> SUFFICES ASSUME NEW x \in items', NEW y \in items', x.chain = y.chain, x.seq < y.seq
               PROVE  (x.seq <= y.prev \/ y.prev <= x.prev) /\ x.at <= y.at
    BY DEF Nested
  <2>1. CASE x \in items /\ y \in items
    BY <2>1 DEF ChainInv, Nested
  <2>2. CASE x = one /\ y = one
    BY <1>3, <2>2
  <2>3. CASE x = one /\ y \in Pending \ R
    <3>1. one.seq <= y.prev
      BY <1>1, <1>2, <1>3, <1>4, <1>7, <2>3 DEF Numbers
    <3>2. b.at <= y.at
      BY <1>1, <1>2, <2>3 DEF ChainInv, Nested
    <3> QED BY <1>2, <2>3, <3>1, <3>2
  <2>4. CASE x = one /\ y \in rest
    BY <1>1, <1>3, <1>6, <2>4 DEF Numbers
  <2>5. CASE y = one /\ x \in Pending \ R
    <3>1. x.seq <= one.prev
      BY <1>1, <1>2, <1>3, <1>4, <1>7, <2>5 DEF Numbers
    <3>2. x.at <= b.at
      BY <1>1, <1>2, <2>5 DEF ChainInv, Nested
    <3> QED BY <1>2, <2>5, <3>1, <3>2
  <2>6. CASE y = one /\ x \in rest
    BY <1>6, <2>6
  <2> QED BY <1>1, <2>1, <2>2, <2>3, <2>4, <2>5, <2>6
<1> QED BY <1>5, <1>8, <1>9
-----------------------------------------------------------------------------
(* What a capture adds.                                                      *)

\* The tip is at or past every item of the chain, and is the state or an item.
LEMMA TipAbove ==
  ASSUME TypeInv, Numbers, ChainInv, cap # None
  PROVE  /\ Tip.seq \in Nat /\ cap.seq <= Tip.seq
         /\ \A o \in items : o.chain = cap.chain => o.seq <= Tip.seq
         /\ \/ Tip.seq = cap.seq /\ Tip.db = cap.db /\ Since = {}
            \/ \E o \in Since : /\ o.seq = Tip.seq /\ o.db = Tip.db
                                /\ o \in Pending /\ o \in items /\ o.chain = cap.chain
                                /\ cap.seq < o.seq
<1>1. Since \subseteq Pending /\ Pending \subseteq items
  BY DEF Since, Pending
<1>2. \A s \in Since : s.seq \in Seqs
  BY <1>1 DEF TypeInv, TypeOK, OutboxTypeOK, Item
<1>3. \/ Since = {} /\ Tip.seq = cap.seq /\ Tip.db = cap.db
      \/ \E o \in Since : /\ o.seq = Tip.seq /\ o.db = Tip.db
                          /\ \A s \in Since : s.seq <= o.seq
  <2>1. CASE Since = {}
    BY <2>1 DEF Tip
  <2>2. CASE Since # {}
    <3>1. NewestOf(Since) \in Since /\ \A s \in Since : s.seq <= NewestOf(Since).seq
      BY <1>2, <2>2, NewestOfMax
    <3>2. Tip.seq = NewestOf(Since).seq /\ Tip.db = NewestOf(Since).db
      BY <2>2 DEF Tip
    <3> QED BY <3>1, <3>2
  <2> QED BY <2>1, <2>2
<1>4. \A s \in Since : s \in items /\ s.chain = cap.chain /\ cap.seq < s.seq /\ s.seq \in Nat
  BY <1>1 DEF Since, Numbers
<1>5. Tip.seq \in Nat /\ cap.seq <= Tip.seq /\ \A s \in Since : s.seq <= Tip.seq
  BY <1>3, <1>4 DEF Numbers
<1>6. ASSUME NEW o \in items, o.chain = cap.chain
      PROVE  o.seq <= Tip.seq
  <2>1. PICK x \in Pending : x.chain = o.chain /\ o.seq <= x.seq
    BY PendingCover
  <2>2. x \in items /\ x.seq \in Nat /\ o.seq \in Nat /\ cap.seq \in Nat
    BY <1>1, <2>1 DEF Numbers
  <2>3. CASE cap.seq < x.seq
    <3>1. x \in Since
      BY <1>6, <2>1, <2>2, <2>3 DEF Since
    <3> QED BY <1>5, <2>1, <2>2, <3>1
  <2>4. CASE x.seq <= cap.seq
    BY <1>5, <2>1, <2>2, <2>4
  <2> QED BY <2>2, <2>3, <2>4
<1> QED BY <1>1, <1>3, <1>4, <1>5, <1>6

\* The item a capture commits and what it is captured from.
NewItem(it, c, r, id) ==
  /\ it.at = now + 1 /\ it.db = c /\ it.fp = r /\ it.bad = {} /\ it.here = Files(it)
  /\ \/ /\ cap # None /\ CanExtend(c, id)
        /\ it.chain = cap.chain /\ it.seq = Tip.seq + 1 /\ it.prev = Tip.seq
        /\ DOMAIN it.pages = Changed(c) /\ \A p \in Changed(c) : it.pages[p] = c[p]
     \/ it.chain = now + 1 /\ it.seq = 1 /\ it.prev = 0 /\ it.pages = c

\* A capture commits the item it made of the copy c.
Added(it, c, r, id) ==
  /\ mem = None /\ now < MaxCaptures
  /\ c \in Contents /\ r \in Recs
  /\ NewItem(it, c, r, id)
  /\ items' = Commit(it)
  /\ now' = now + 1
  /\ mem' = [job |-> "capture", saved |-> FALSE,
             cap |-> [chain |-> it.chain, seq |-> it.seq, store |-> id,
                      recs |-> r, db |-> c]]
  /\ UNCHANGED <<idx, cap, crashes, damage>>

\* A content is no empty map.
LEMMA ContentsNonempty ==
  ASSUME NEW c \in Contents
  PROVE  DOMAIN c # {} /\ c # << >>
<1>1. PICK n \in 1..MaxPages : c \in [1..n -> Val]
  BY DEF Contents
<1>2. n \in Nat /\ 1 <= n
  BY <1>1, ConstantsAssumption
<1>3. DOMAIN c = 1..n /\ 1 \in 1..n
  BY <1>1, <1>2
<1> QED BY <1>3

\* A map is empty when it has no pages.
LEMMA NoPages ==
  ASSUME NEW f \in PageMaps
  PROVE  f = << >> <=> DOMAIN f = {}
<1>1. PICK S \in SUBSET (1..MaxPages) : f \in [S -> Val]
  BY DEF PageMaps
<1>2. DOMAIN << >> = {} /\ << >> \in [{} -> Val]
  OBVIOUS
<1> QED BY <1>1, <1>2

\* What a capture does.
LEMMA CaptureAdds ==
  ASSUME TypeInv, Capture
  PROVE  \E it \in Item, c \in Contents, r \in Recs, id \in StoreIds : Added(it, c, r, id)
<1>1. PICK c \in Contents, r \in Recs, id \in StoreIds :
        CaptureDelta(c, r, id) \/ CaptureBase(c, r, id)
  BY DEF Capture
<1>2. CASE CaptureDelta(c, r, id)
  <2> DEFINE it == DeltaItem(c, r)
  <2>1. cap # None /\ now < MaxCaptures /\ CanExtend(c, id) /\ CaptureItem(it, c, r, id)
        /\ mem = None
    BY <1>2 DEF CaptureDelta, CanExtend
  <2>2. it \in Item
    BY <2>1, DeltaItemType
  <2>3. PICK pages, recs :
          /\ DOMAIN pages = Changed(c) /\ \A p \in Changed(c) : pages[p] = c[p]
          /\ it = [chain |-> cap.chain, seq |-> Tip.seq + 1, prev |-> Tip.seq, at |-> now + 1,
                   db |-> c, pages |-> pages, recs |-> recs,
                   here |-> (IF Changed(c) = {} THEN {} ELSE {"pages"})
                            \cup (IF recs = None THEN {} ELSE {"records"}),
                   bad |-> {}, fp |-> r]
    <3> DEFINE f == [p \in Changed(c) |-> c[p]]
    <3>1. DOMAIN f = Changed(c) /\ \A p \in Changed(c) : f[p] = c[p]
      OBVIOUS
    <3>2. it = [chain |-> cap.chain, seq |-> Tip.seq + 1, prev |-> Tip.seq, at |-> now + 1,
                db |-> c, pages |-> f, recs |-> IF r = cap.recs THEN None ELSE r,
                here |-> (IF Changed(c) = {} THEN {} ELSE {"pages"})
                         \cup (IF (IF r = cap.recs THEN None ELSE r) = None
                               THEN {} ELSE {"records"}),
                bad |-> {}, fp |-> r]
      BY DEF DeltaItem
    <3> HIDE DEF f
    <3> QED BY <3>1, <3>2
  <2> HIDE DEF it
  <2>4. /\ it.chain = cap.chain /\ it.seq = Tip.seq + 1 /\ it.prev = Tip.seq
        /\ it.at = now + 1 /\ it.db = c /\ it.fp = r /\ it.bad = {}
        /\ it.pages = pages /\ it.recs = recs
        /\ it.here = (IF Changed(c) = {} THEN {} ELSE {"pages"})
                     \cup (IF recs = None THEN {} ELSE {"records"})
    BY <2>3
  <2>5. pages = << >> <=> Changed(c) = {}
    <3>1. pages \in PageMaps
      BY <2>2, <2>4 DEF Item
    <3> QED BY <2>3, <3>1, NoPages
  <2>6. it.here = Files(it)
    BY <2>4, <2>5 DEF Files
  <2>7. NewItem(it, c, r, id)
    BY <2>1, <2>3, <2>4, <2>6 DEF NewItem
  <2>8. Added(it, c, r, id)
    BY <2>1, <2>7 DEF Added, CaptureItem
  <2> QED BY <2>2, <2>8
<1>3. CASE CaptureBase(c, r, id)
  <2> DEFINE it == BaseItem(c, r)
  <2>1. now < MaxCaptures /\ CaptureItem(it, c, r, id) /\ mem = None
    BY <1>3 DEF CaptureBase
  <2>2. it \in Item
    BY <2>1, BaseItemType
  <2>3. /\ it.chain = now + 1 /\ it.seq = 1 /\ it.prev = 0
        /\ it.at = now + 1 /\ it.db = c /\ it.fp = r /\ it.bad = {}
        /\ it.pages = c /\ it.recs = r /\ it.here = Kinds
    BY DEF BaseItem
  <2> HIDE DEF it
  <2>4. r # None /\ c # << >>
    BY ContentsNonempty, ConstantsAssumption
  <2>5. it.here = Files(it)
    BY <2>3, <2>4 DEF Files, Kinds
  <2>6. NewItem(it, c, r, id)
    BY <2>3, <2>5 DEF NewItem
  <2>7. Added(it, c, r, id)
    BY <2>1, <2>6 DEF Added, CaptureItem
  <2> QED BY <2>2, <2>7
<1> QED BY <1>1, <1>2, <1>3

\* The new item comes after all there is of its chain; no name is taken.
LEMMA AddedAfter ==
  ASSUME TypeInv, Numbers, ChainInv, NEW it \in Item, NEW c, NEW r, NEW id, Added(it, c, r, id)
  PROVE  /\ \A o \in items : o.chain = it.chain => o.seq <= it.prev
         /\ it.prev \in Nat /\ it.prev < it.seq /\ (it.prev = 0 => it.seq = 1)
         /\ it.chain <= now + 1
         /\ items' = Pending \cup {it}
<1>1. \/ cap # None /\ it.chain = cap.chain /\ it.seq = Tip.seq + 1 /\ it.prev = Tip.seq
      \/ it.chain = now + 1 /\ it.seq = 1 /\ it.prev = 0
  BY DEF Added, NewItem
<1>2. \A o \in items : o.chain = it.chain => o.seq <= it.prev
  <2>1. CASE cap # None /\ it.chain = cap.chain /\ it.prev = Tip.seq
    BY <2>1, TipAbove
  <2>2. CASE it.chain = now + 1
    <3>1. \A o \in items : o.chain <= now /\ o.chain \in Nat /\ now \in Nat
      BY DEF ChainInv, Shape, Numbers
    <3>2. \A o \in items : o.chain # it.chain
      BY <2>2, <3>1
    <3> QED BY <3>2
  <2> QED BY <1>1, <2>1, <2>2
<1>3. it.prev \in Nat /\ it.prev < it.seq /\ (it.prev = 0 => it.seq = 1) /\ it.chain <= now + 1
  <2>1. CASE cap # None /\ it.chain = cap.chain /\ it.seq = Tip.seq + 1 /\ it.prev = Tip.seq
    <3>1. Tip.seq \in Nat
      BY <2>1, TipAbove
    <3>2. 1 <= cap.seq /\ cap.seq <= Tip.seq /\ cap.seq \in Nat
      BY <2>1, TipAbove DEF Numbers
    <3>3. it.chain <= now + 1
      BY <2>1 DEF ChainInv, ChainsKnown, Numbers
    <3> QED BY <2>1, <3>1, <3>2, <3>3
  <2>2. CASE it.chain = now + 1 /\ it.seq = 1 /\ it.prev = 0
    BY <2>2 DEF Numbers
  <2> QED BY <1>1, <2>1, <2>2
<1>4. \A o \in Pending : ~(o.chain = it.chain /\ o.seq = it.seq)
  <2>1. \A o \in Pending : o \in items /\ o.seq \in Nat
    BY DEF Pending, Numbers
  <2>2. it.seq \in Nat
    BY <1>1, <1>3, TipAbove
  <2> QED BY <1>2, <1>3, <2>1, <2>2
<1>5. items' = Commit(it)
  BY DEF Added
<1>6. items' = Pending \cup {it}
  BY <1>4, <1>5 DEF Commit
<1> QED BY <1>2, <1>3, <1>6
-----------------------------------------------------------------------------
(* ChainInv is inductive.                                                    *)

\* Files of an outbox item that come, go or rot: what the step does to items.
Touched(it, too) == Same(it, too) /\ items' = (items \ {it}) \cup {too}

\* Every step that changes what is there of an item's files.
LEMMA TouchSteps ==
  ASSUME TypeInv, NEW it \in items, NEW k \in Kinds,
         LoseFile(it, k) \/ CorruptFile(it, k) \/ \E kept \in BOOLEAN : SendFile(it, k, kept)
  PROVE  /\ \E too \in Item : Touched(it, too)
         /\ UNCHANGED <<cap, mem, now>>
<1>1. it \in Item
  BY DEF TypeInv, TypeOK, OutboxTypeOK
<1>2. \A h, d : Same(it, [it EXCEPT !.here = h, !.bad = d])
  BY <1>1 DEF Same, Item
<1>3. \A h, d \in SUBSET Kinds : [it EXCEPT !.here = h, !.bad = d] \in Item
  BY <1>1 DEF Item
<1>4. it.here \in SUBSET Kinds /\ it.bad \in SUBSET Kinds /\ {k} \in SUBSET Kinds
  BY <1>1 DEF Item
<1>5. CASE LoseFile(it, k)
  <2>1. items' = (items \ {it}) \cup {[it EXCEPT !.here = it.here \ {k}, !.bad = it.bad \ {k}]}
    BY <1>5 DEF LoseFile
  <2>2. it.here \ {k} \in SUBSET Kinds /\ it.bad \ {k} \in SUBSET Kinds
    BY <1>4
  <2> QED BY <1>2, <1>3, <1>5, <2>1, <2>2 DEF LoseFile, Touched
<1>6. CASE CorruptFile(it, k)
  <2>1. [it EXCEPT !.bad = @ \cup {k}] = [it EXCEPT !.here = it.here, !.bad = it.bad \cup {k}]
    BY <1>1 DEF Item
  <2>2. items' = (items \ {it}) \cup {[it EXCEPT !.here = it.here, !.bad = it.bad \cup {k}]}
    BY <1>6, <2>1 DEF CorruptFile
  <2>3. it.bad \cup {k} \in SUBSET Kinds
    BY <1>4
  <2> QED BY <1>2, <1>3, <1>4, <1>6, <2>2, <2>3 DEF CorruptFile, Touched
<1>7. CASE \E kept \in BOOLEAN : SendFile(it, k, kept)
  <2>1. PICK kept \in BOOLEAN : SendFile(it, k, kept)
    BY <1>7
  <2>2. CASE kept
    <3>1. items' = (items \ {it}) \cup {it} /\ Same(it, it)
      BY <2>1, <2>2 DEF SendFile, Same
    <3> QED BY <1>1, <2>1, <3>1 DEF SendFile, Touched
  <2>3. CASE ~kept
    <3>1. [it EXCEPT !.here = @ \ {k}] = [it EXCEPT !.here = it.here \ {k}, !.bad = it.bad]
      BY <1>1 DEF Item
    <3>2. items' = (items \ {it}) \cup {[it EXCEPT !.here = it.here \ {k}, !.bad = it.bad]}
      BY <2>1, <2>3, <3>1 DEF SendFile
    <3>3. it.here \ {k} \in SUBSET Kinds
      BY <1>4
    <3> QED BY <1>2, <1>3, <1>4, <2>1, <3>2, <3>3 DEF SendFile, Touched
  <2> QED BY <2>2, <2>3
<1> QED BY <1>5, <1>6, <1>7

\* The steps that leave the outbox's items as they are, or take some away.
Takes == items' \subseteq items /\ now' = now

\* What a merge does to the items.
MergesRun(R, a, b, rest) ==
  /\ Run(R, a, b, NotMergeable)
  /\ rest \subseteq R /\ \A c \in rest : c.seq < b.seq
  /\ \A c \in R : "pages" \notin c.bad
  /\ items' = (Pending \ R) \cup {Merged(R)} \cup rest
  /\ mem = None
  /\ UNCHANGED <<idx, cap, now, mem, damage, journalVars, driveVars>>

\* A merge merges a run.
LEMMA CoalesceMerges ==
  ASSUME TypeInv, Numbers, ChainInv,
         NEW a \in Pending, NEW b \in Pending, NEW left,
         Coalesce(NotMergeable, a, b, left), UNCHANGED <<journalVars, driveVars>>
  PROVE  \E R, rest : MergesRun(R, a, b, rest)
<1> DEFINE R == {it \in RunFrom(a, NotMergeable) : it.seq <= b.seq}
           rest == {it \in R : left <= it.seq /\ it.seq < b.seq}
<1>1. Run(R, a, b, NotMergeable)
  BY CoalesceRun
<1>2. rest \subseteq R /\ \A c \in rest : c.seq < b.seq
  OBVIOUS
<1>3. /\ \A c \in R : "pages" \notin c.bad
      /\ items' = (Pending \ R) \cup {Merged(R)} \cup rest
      /\ mem = None
      /\ UNCHANGED <<idx, cap, now, mem, damage>>
  BY DEF Coalesce
<1> HIDE DEF R, rest
<1> QED BY <1>1, <1>2, <1>3 DEF MergesRun

\* Every step adds an item, merges a run, changes the files of one item, or
\* takes items away; only a capture, its two saves and the steps that drop it
\* change the state.
LEMMA StepItems ==
  ASSUME TypeInv, Numbers, ChainInv, [Next]_vars
  PROVE  \/ \E it \in Item, c \in Contents, r \in Recs, id \in StoreIds : Added(it, c, r, id)
         \/ \E a, b \in Pending : \E R, rest : MergesRun(R, a, b, rest)
         \/ \E it \in items, too \in Item : Touched(it, too) /\ UNCHANGED <<cap, mem, now>>
         \/ /\ Takes
            /\ cap' \in {cap, None} \/ SaveState
            /\ \/ mem' \in {mem, None} \/ SaveIndex
               \/ mem'.job = "discard"
<1>1. CASE Outbox
  <2>1. CASE Capture
    BY <2>1, CaptureAdds
  <2>2. CASE SaveIndex
    BY <2>2 DEF SaveIndex, Takes
  <2>3. CASE SaveState
    BY <2>3 DEF SaveState, Takes
  <2>4. CASE Sweep
    BY <2>4 DEF Sweep, Takes, Pending
  <2>5. CASE \E a, b \in Pending, left \in Seqs : Coalesce(NotMergeable, a, b, left)
    BY <1>1, <2>5, CoalesceMerges DEF Outbox
  <2> QED BY <1>1, <2>1, <2>2, <2>3, <2>4, <2>5 DEF Outbox
<1>2. CASE Upload
  <2>1. PICK it \in items :
          \/ StartItem(it)
          \/ \E k \in Kinds, kept \in BOOLEAN : SendFile(it, k, kept)
          \/ PutManifest(it)
          \/ RecordCommit(it)
          \/ FinishDropState(it)
          \/ FinishDelete(it)
    BY <1>2 DEF Upload
  <2>2. CASE \E k \in Kinds, kept \in BOOLEAN : SendFile(it, k, kept)
    BY <2>2, TouchSteps
  <2>3. CASE StartItem(it) \/ PutManifest(it) \/ RecordCommit(it)
    BY <2>3 DEF StartItem, PutManifest, RecordCommit, outboxVars, Takes
  <2>4. CASE FinishDropState(it) \/ FinishDelete(it)
    BY <2>4 DEF FinishDropState, FinishDelete, Takes
  <2> QED BY <2>1, <2>2, <2>3, <2>4
<1>3. CASE DiscardBegin
  <2>1. PICK it \in items : Discard(it)
    BY <1>3 DEF DiscardBegin, DiscardGap, DiscardMissing, DiscardCorrupt,
                DiscardRefused, DiscardUnmergeable
  <2>2. mem'.job = "discard"
    BY <2>1 DEF Discard
  <2> QED BY <2>1, <2>2 DEF Discard, Takes
<1>4. CASE DiscardDropState \/ DiscardVictim
  <2>1. mem # None /\ mem.job = "discard" /\ Takes /\ cap' \in {cap, None}
    BY <1>4 DEF DiscardDropState, DiscardVictim, Takes
  <2>2. mem \in [job : {"discard"}, chain : Chains, dropped : BOOLEAN,
                 victims : SUBSET (Chains \X Seqs)]
    BY <2>1 DEF TypeInv, TypeOK, OutboxTypeOK
  <2>3. mem' = None \/ mem'.job = "discard"
    BY <1>4, <2>2 DEF DiscardDropState, DiscardVictim
  <2> QED BY <2>1, <2>3
<1>5. CASE Faults
  <2>1. CASE Crash \/ LoseIndex \/ LoseState
    BY <2>1 DEF Crash, LoseIndex, LoseState, Takes
  <2>2. CASE \E it \in items, k \in Kinds : LoseFile(it, k) \/ CorruptFile(it, k)
    BY <2>2, TouchSteps
  <2>3. CASE LoseJournal \/ \E it \in items, k \in Kinds : Mismatch(it, k)
    BY <2>3 DEF LoseJournal, Mismatch, Takes
  <2> QED BY <1>5, <2>1, <2>2, <2>3 DEF Faults, OutboxDamage
<1>6. CASE UNCHANGED vars
  BY <1>6 DEF vars, outboxVars, Takes
<1> QED BY <1>1, <1>2, <1>3, <1>4, <1>5, <1>6 DEF Next

\* ChainInv is inductive.
LEMMA ChainInvStep ==
  ASSUME TypeInv, TypeInv', ChainInv, [Next]_vars
  PROVE  ChainInv'
<1>0. Numbers /\ Numbers'
  <2>1. Numbers
    BY NumbersType
  <2>2. Numbers'
    BY NumbersType, PTL
  <2> QED BY <2>1, <2>2
<1>1. CASE \E it \in Item, c \in Contents, r \in Recs, id \in StoreIds : Added(it, c, r, id)
  <2>1. PICK it \in Item, c \in Contents, r \in Recs, id \in StoreIds : Added(it, c, r, id)
    BY <1>1
  <2>2. /\ \A o \in items : o.chain = it.chain => o.seq <= it.prev
        /\ it.prev < it.seq /\ (it.prev = 0 => it.seq = 1) /\ it.chain <= now + 1
        /\ items' = Pending \cup {it}
    BY <1>0, <2>1, AddedAfter
  <2>3. now' = now + 1 /\ it.at = now + 1 /\ cap' = cap /\ mem'.cap.chain = it.chain
    BY <2>1 DEF Added, NewItem
  <2>4. (Shape /\ NamesUnique /\ Nested)'
    BY <1>0, <2>2, <2>3, AddedChain
  <2>5. ChainsKnown'
    BY <1>0, <2>2, <2>3 DEF ChainInv, ChainsKnown, Numbers
  <2> QED BY <2>4, <2>5 DEF ChainInv
<1>2. CASE \E a, b \in Pending : \E R, rest : MergesRun(R, a, b, rest)
  <2>0. PICK a, b \in Pending : \E R, rest : MergesRun(R, a, b, rest)
    BY <1>2
  <2>1. PICK R, rest : a \in Pending /\ b \in Pending /\ MergesRun(R, a, b, rest)
    BY <2>0
  <2>2. (Shape /\ NamesUnique /\ Nested)'
    <3>1. /\ Run(R, a, b, NotMergeable) /\ rest \in SUBSET R /\ \A c \in rest : c.seq < b.seq
          /\ items' = (Pending \ R) \cup {Merged(R)} \cup rest /\ now' = now
      BY <2>1 DEF MergesRun
    <3> QED BY <1>0, <3>1, MergedChain
  <2>3. ChainsKnown'
    BY <2>1 DEF MergesRun, ChainInv, ChainsKnown
  <2> QED BY <2>2, <2>3 DEF ChainInv
<1>3. CASE \E it \in items, too \in Item : Touched(it, too) /\ UNCHANGED <<cap, mem, now>>
  <2>1. (Shape /\ NamesUnique /\ Nested)'
    BY <1>3, TouchedChain DEF Touched
  <2>2. ChainsKnown'
    BY <1>3 DEF ChainInv, ChainsKnown
  <2> QED BY <2>1, <2>2 DEF ChainInv
<1>4. CASE /\ Takes
           /\ cap' \in {cap, None} \/ SaveState
           /\ \/ mem' \in {mem, None} \/ SaveIndex
              \/ mem'.job = "discard"
  <2>1. (Shape /\ NamesUnique /\ Nested)'
    BY <1>4, FewerChain DEF Takes
  <2>2. cap' # None => cap'.chain <= now'
    BY <1>4 DEF Takes, SaveState, ChainInv, ChainsKnown
  <2>3. (mem' # None /\ mem'.job = "capture") => mem'.cap.chain <= now'
    <3>1. CASE SaveIndex
      <4>1. mem \in [job : {"capture"}, saved : BOOLEAN, cap : CaptureState]
        BY <3>1 DEF SaveIndex, TypeInv, TypeOK, OutboxTypeOK
      <4>2. mem'.cap = mem.cap /\ now' = now
        BY <3>1, <4>1 DEF SaveIndex
      <4> QED BY <3>1, <4>2 DEF SaveIndex, ChainInv, ChainsKnown
    <3>2. CASE ~SaveIndex
      BY <1>4, <3>2 DEF Takes, ChainInv, ChainsKnown
    <3> QED BY <3>1, <3>2
  <2> QED BY <2>1, <2>2, <2>3 DEF ChainInv, ChainsKnown
<1> QED BY <1>0, <1>1, <1>2, <1>3, <1>4, StepItems
-----------------------------------------------------------------------------
(* Items in flight.                                                          *)

\* An item in flight is the first of its chain and continues what is committed.
Underway(it) == First(it) /\ ~IsCommitted(it) /\ Continuous(it)

\* What is in flight is there and the first of its chain.
StartedFirst == \A n \in started : \E it \in items : Name(it) = n /\ Underway(it)

\* What was sent is of an item listed as in flight.
SentStarted == \A f \in sent : <<f.chain, f.seq>> \in started

\* The journal's files are of committed items.
FilesCommitted == \A f \in files : f.seq <= committed[f.chain]

\* What a discard still has to do: the journal has forgotten the victims.
VictimsForgotten == (mem # None /\ mem.job = "discard") =>
  /\ \A v \in mem.victims : v[1] = mem.chain
  /\ mem.victims \cap started = {}
  /\ mem.dropped => cap = None \/ cap.chain # mem.chain

\* What is in flight, and what of it a discard forgets.
InflightInv == /\ StartedFirst /\ SentStarted /\ InflightMatches
               /\ FilesCommitted /\ VictimsForgotten

\* A chain has one first item.
LEMMA FirstOnly ==
  ASSUME Numbers, Shape, NEW a \in items, NEW b \in items, a.chain = b.chain,
         First(a), First(b)
  PROVE  a = b
BY DEF First, Numbers, Shape

\* The first item of a chain is pending.
LEMMA FirstPending ==
  ASSUME Numbers, Shape, NEW a \in items, First(a)
  PROVE  a \in Pending
<1>1. \A o \in items : o.chain = a.chain => a.seq <= o.prev \/ o.seq <= a.seq
  BY DEF First, Numbers
<1> QED BY <1>1, PendingIs

\* No item in flight has the name a capture gives its item.
LEMMA AddedUnsent ==
  ASSUME TypeInv, Numbers, Numbers', ChainInv, InflightInv,
         NEW it \in Item, NEW c, NEW r, NEW id, Added(it, c, r, id)
  PROVE  SentOf(it) = {}
<1>1. /\ \A o \in items : o.chain = it.chain => o.seq <= it.prev
      /\ it.prev < it.seq /\ items' = Pending \cup {it}
  BY AddedAfter
<1>2. it.seq \in Nat /\ it.prev \in Nat
  BY <1>1 DEF Numbers
<1> SUFFICES ASSUME NEW f \in sent, f.chain = it.chain, f.seq = it.seq PROVE FALSE
  BY DEF SentOf
<1>3. PICK x \in items : Name(x) = <<f.chain, f.seq>>
  BY DEF InflightInv, SentStarted, StartedFirst
<1>4. x.chain = it.chain /\ x.seq = it.seq
  BY <1>3 DEF Name
<1> QED BY <1>1, <1>2, <1>4

\* No item in flight is merged.
LEMMA MergedUnsent ==
  ASSUME TypeInv, Numbers, ChainInv, InflightInv,
         NEW a, NEW b, NEW R, NEW rest, MergesRun(R, a, b, rest)
  PROVE  SentOf(Merged(R)) = {}
<1>1. Run(R, a, b, NotMergeable)
  BY DEF MergesRun
<1>2. Merged(R).chain = b.chain /\ Merged(R).seq = b.seq
  BY <1>1, MergedFields
<1>3. Name(b) \notin started
  BY <1>1 DEF Run, NotMergeable
<1> QED BY <1>2, <1>3 DEF SentOf, InflightInv, SentStarted, Name

\* A capture leaves the items in flight, and gives its item a name of its own.
LEMMA AddedInflight ==
  ASSUME TypeInv, Numbers, Numbers', ChainInv, InflightInv, UNCHANGED journalVars,
         NEW it \in Item, NEW c, NEW r, NEW id, Added(it, c, r, id)
  PROVE  (StartedFirst /\ InflightMatches)'
<1>1. /\ \A o \in items : o.chain = it.chain => o.seq <= it.prev
      /\ it.prev < it.seq /\ items' = Pending \cup {it}
  BY AddedAfter
<1>2. it.seq \in Nat /\ it.prev \in Nat /\ Pending \subseteq items
  BY <1>1 DEF Numbers, Pending
<1>3. UNCHANGED <<committed, started, sent>>
  BY DEF journalVars
<1>4. StartedFirst'
  <2> SUFFICES ASSUME NEW n \in started
               PROVE  \E x \in items' : (Name(x) = n /\ Underway(x))'
    BY <1>3 DEF StartedFirst
  <2>1. PICK x \in items : Name(x) = n /\ Underway(x)
    BY DEF InflightInv, StartedFirst
  <2>2. x \in items'
    BY <1>1, <2>1, FirstPending DEF Underway, ChainInv
  <2>3. First(x)'
    BY <1>1, <1>2, <2>1 DEF Underway, First
  <2>4. (~IsCommitted(x) /\ Continuous(x))'
    BY <1>3, <2>1 DEF Underway, IsCommitted, Continuous, IsBase
  <2> QED BY <2>1, <2>2, <2>3, <2>4 DEF Underway, Name
<1>5. SentOf(it) = {}
  BY AddedUnsent
<1>6. InflightMatches'
  <2> SUFFICES ASSUME NEW x \in items', NEW f \in sent, f.chain = x.chain, f.seq = x.seq
               PROVE  f.data = Data(x, f.kind)
    BY <1>3 DEF InflightMatches, SentOf, Data
  <2>1. x \in items
    BY <1>1, <1>2, <1>5 DEF SentOf
  <2> QED BY <2>1 DEF InflightInv, InflightMatches, SentOf
<1> QED BY <1>4, <1>6

\* A merge leaves the items in flight: it merges what comes after them.
LEMMA MergedInflight ==
  ASSUME TypeInv, Numbers, Numbers', ChainInv, InflightInv,
         NEW a, NEW b, NEW R, NEW rest, MergesRun(R, a, b, rest)
  PROVE  (StartedFirst /\ InflightMatches)'
<1> DEFINE one == Merged(R)
<1>0. Run(R, a, b, NotMergeable)
  BY DEF MergesRun
<1>1. one.chain = b.chain /\ one.seq = b.seq /\ one.prev = a.prev
  BY <1>0, MergedFields
<1>2. items' = (Pending \ R) \cup {one} \cup rest /\ rest \subseteq items
      /\ a \in items /\ b \in items /\ Pending \subseteq items /\ started \subseteq NotMergeable
      /\ a \in R /\ b \in R
  BY DEF MergesRun, Run, Pending, NotMergeable
<1> HIDE DEF one
<1>3. UNCHANGED <<committed, started, sent>>
  BY DEF MergesRun, journalVars
<1>4. StartedFirst'
  <2> SUFFICES ASSUME NEW n \in started
               PROVE  \E x \in items' : (Name(x) = n /\ Underway(x))'
    BY <1>3 DEF StartedFirst
  <2>1. PICK x \in items : Name(x) = n /\ Underway(x)
    BY DEF InflightInv, StartedFirst
  <2>2. x \notin R
    BY <1>0, <1>2, <2>1 DEF Run
  <2>3. x \in Pending
    BY <2>1, FirstPending DEF Underway, ChainInv
  <2>4. x.chain = one.chain => x.seq <= one.prev
    <3> SUFFICES ASSUME x.chain = b.chain PROVE x.seq <= a.prev
      BY <1>1
    <3>1. x.seq <= a.prev \/ (b.seq < x.seq /\ b.seq <= x.prev)
      BY <1>0, <2>2, <2>3, RunApart
    <3>2. ASSUME b.seq < x.seq, b.seq <= x.prev PROVE FALSE
      <4>1. (x.prev < b.seq /\ b.seq < x.seq) \/ x.seq <= b.prev
        BY <1>2, <2>1, <2>2 DEF Underway, First
      <4> QED BY <1>2, <3>2, <4>1 DEF Numbers, ChainInv, Shape
    <3> QED BY <3>1, <3>2
  <2>5. First(x)'
    BY <1>2, <2>1, <2>4 DEF Underway, First
  <2>6. (~IsCommitted(x) /\ Continuous(x))'
    BY <1>3, <2>1 DEF Underway, IsCommitted, Continuous, IsBase
  <2> QED BY <1>2, <2>1, <2>2, <2>3, <2>5, <2>6 DEF Underway, Name
<1>5. InflightMatches'
  <2> SUFFICES ASSUME NEW x \in items', NEW f \in sent, f.chain = x.chain, f.seq = x.seq
               PROVE  f.data = Data(x, f.kind)
    BY <1>3 DEF InflightMatches, SentOf, Data
  <2>1. CASE x \in items
    BY <2>1 DEF InflightInv, InflightMatches, SentOf
  <2>2. CASE x = one
    BY <2>2, MergedUnsent DEF one, SentOf
  <2> QED BY <1>2, <2>1, <2>2
<1> QED BY <1>4, <1>5

\* Losing, damaging or unlinking an item's files leaves it in flight.
LEMMA TouchedInflight ==
  ASSUME Numbers, ChainInv, InflightInv, NEW it \in items, NEW too, Touched(it, too),
         UNCHANGED <<committed, started>>
  PROVE  StartedFirst'
<1> SUFFICES ASSUME NEW n \in started
             PROVE  \E x \in items' : (Name(x) = n /\ Underway(x))'
  BY DEF StartedFirst
<1>1. PICK x \in items : Name(x) = n /\ Underway(x)
  BY DEF InflightInv, StartedFirst
<1>2. Same(it, too) /\ items' = (items \ {it}) \cup {too}
  BY DEF Touched
<1>3. PICK y \in items' : Same(x, y) /\ (x # it => y = x) /\ (x = it => y = too)
  <2>1. CASE x = it
    BY <1>2, <2>1
  <2>2. CASE x # it
    BY <1>2, <2>2 DEF Same
  <2> QED BY <2>1, <2>2
<1>4. First(y)'
  <2> SUFFICES ASSUME NEW o \in items', o.chain = y.chain, o # y
               PROVE  \/ y.prev < o.seq /\ o.seq < y.seq
                      \/ y.seq <= o.prev
    BY DEF First
  <2>1. PICK p \in items : Same(p, o) /\ p # x
    <3>1. CASE o = too
      BY <1>2, <1>3, <3>1
    <3>2. CASE o # too
      <4>1. o \in items
        BY <1>2, <3>2
      <4>2. o # x
        BY <1>2, <1>3, <3>2
      <4> QED BY <4>1, <4>2 DEF Same
    <3> QED BY <3>1, <3>2
  <2> QED BY <1>1, <1>3, <2>1 DEF Underway, First, Same
<1>5. (~IsCommitted(y) /\ Continuous(y))'
  BY <1>1, <1>3 DEF Underway, IsCommitted, Continuous, IsBase, Same
<1> QED BY <1>1, <1>3, <1>4, <1>5 DEF Underway, Name, Same

\* Taking away items that are not in flight leaves the others in flight.
LEMMA TakesInflight ==
  ASSUME InflightInv, items' \subseteq items, committed' = committed,
         started' \subseteq started, sent' \subseteq sent,
         \A x \in items : (First(x) /\ ~IsCommitted(x) /\ Name(x) \in started') => x \in items'
  PROVE  (StartedFirst /\ InflightMatches)'
<1>1. StartedFirst'
  <2> SUFFICES ASSUME NEW n \in started'
               PROVE  \E x \in items' : (Name(x) = n /\ Underway(x))'
    BY DEF StartedFirst
  <2>1. PICK x \in items : Name(x) = n /\ Underway(x)
    BY DEF InflightInv, StartedFirst
  <2>2. x \in items'
    BY <2>1 DEF Underway
  <2>3. First(x)'
    BY <2>1 DEF Underway, First
  <2>4. (~IsCommitted(x) /\ Continuous(x))'
    BY <2>1 DEF Underway, IsCommitted, Continuous, IsBase
  <2> QED BY <2>1, <2>2, <2>3, <2>4 DEF Underway, Name
<1>2. InflightMatches'
  BY DEF InflightInv, InflightMatches, SentOf, Data
<1> QED BY <1>1, <1>2

\* An upload that begins, or goes on, is of the first item of its chain.
LEMMA UploadingFirst ==
  ASSUME TypeInv, Numbers, ChainInv, NEW it, Uploading(it)
  PROVE  it \in items /\ it \in Pending /\ Underway(it)
<1>1. Oldest(it) /\ ~IsCommitted(it) /\ Continuous(it)
  BY DEF Uploading
<1>2. it \in items /\ First(it)
  BY <1>1, OldestFirst
<1> QED BY <1>1, <1>2 DEF Underway, Oldest

\* The journal lists an item as in flight.
LEMMA StartItemInflight ==
  ASSUME TypeInv, Numbers, ChainInv, InflightInv, NEW it \in items, StartItem(it)
  PROVE  InflightInv'
<1>1. Underway(it)
  BY UploadingFirst DEF StartItem
<1>2. UNCHANGED <<items, committed, files, sent, mem, cap>> /\ started' = started \cup {Name(it)}
      /\ mem = None
  BY DEF StartItem, outboxVars, Uploading
<1>3. StartedFirst'
  BY <1>1, <1>2 DEF InflightInv, StartedFirst, Underway, First, IsCommitted, Continuous, Name, IsBase
<1>4. (SentStarted /\ InflightMatches /\ FilesCommitted /\ VictimsForgotten)'
  BY <1>2 DEF InflightInv, SentStarted, InflightMatches, SentOf, Data, FilesCommitted,
              VictimsForgotten
<1> QED BY <1>3, <1>4 DEF InflightInv

\* What an upload journals: a file with the next id.
LEMMA SendFileSends ==
  ASSUME NEW it, NEW k, NEW kept, SendFile(it, k, kept)
  PROVE  \E f : /\ sent' = sent \cup {f} /\ f.id = nextId /\ nextId' = nextId + 1
                /\ f.chain = it.chain /\ f.seq = it.seq
                /\ f.kind = k /\ f.data = Data(it, k)
<1> DEFINE f == [id |-> nextId, chain |-> it.chain, seq |-> it.seq, kind |-> k,
                 data |-> Data(it, k)]
<1>1. sent' = sent \cup {f} /\ nextId' = nextId + 1
  BY DEF SendFile
<1>2. /\ f.id = nextId /\ f.chain = it.chain /\ f.seq = it.seq
      /\ f.kind = k /\ f.data = Data(it, k)
  OBVIOUS
<1> HIDE DEF f
<1> QED BY <1>1, <1>2

\* A file that is sent is a file of the item it is sent for.
LEMMA SendFileInflight ==
  ASSUME TypeInv, Numbers, ChainInv, InflightInv, NEW it \in items, NEW k \in Kinds,
         NEW kept \in BOOLEAN, SendFile(it, k, kept)
  PROVE  InflightInv'
<1>1. PICK too : Touched(it, too)
  BY TouchSteps
<1>2. UNCHANGED <<committed, files, started, mem, cap>> /\ Name(it) \in started
  BY DEF SendFile, Begun
<1>3. StartedFirst'
  BY <1>1, <1>2, TouchedInflight
<1>4. PICK f : /\ sent' = sent \cup {f} /\ f.chain = it.chain /\ f.seq = it.seq
               /\ f.kind = k /\ f.data = Data(it, k)
  BY SendFileSends
<1>5. SentStarted'
  BY <1>2, <1>4 DEF InflightInv, SentStarted, Name
<1>6. InflightMatches'
  <2> SUFFICES ASSUME NEW x \in items', NEW g \in sent', g.chain = x.chain, g.seq = x.seq
               PROVE  g.data = Data(x, g.kind)
    BY DEF InflightMatches, SentOf, Data
  <2>1. PICK y \in items : Same(y, x)
    BY <1>1 DEF Touched, Same
  <2>2. Data(x, g.kind) = Data(y, g.kind) /\ g.chain = y.chain /\ g.seq = y.seq
    BY <2>1 DEF Same, Data
  <2>3. CASE g \in sent
    BY <2>2, <2>3 DEF InflightInv, InflightMatches, SentOf
  <2>4. CASE g = f
    <3>1. y = it
      BY <1>4, <2>2, <2>4 DEF ChainInv, NamesUnique
    <3> QED BY <1>4, <2>2, <2>4, <3>1
  <2> QED BY <1>4, <2>3, <2>4
<1>7. (FilesCommitted /\ VictimsForgotten)'
  BY <1>2 DEF InflightInv, FilesCommitted, VictimsForgotten
<1> QED BY <1>3, <1>5, <1>6, <1>7 DEF InflightInv

\* A commit is of the only item of its chain in flight.
LEMMA RecordCommitInflight ==
  ASSUME TypeInv, Numbers, ChainInv, InflightInv, NEW it \in items, RecordCommit(it)
  PROVE  InflightInv'
<1>1. Underway(it)
  BY UploadingFirst DEF RecordCommit
<1>2. /\ committed' = [committed EXCEPT ![it.chain] = it.seq]
      /\ files' = files \cup SentOf(it) /\ started' = started \ {Name(it)}
      /\ sent' = sent \ SentOf(it) /\ UNCHANGED <<items, mem, cap>> /\ mem = None
  BY DEF RecordCommit, outboxVars, Uploading
<1>3. /\ it.chain \in Chains /\ \A ch \in Chains : committed[ch] \in Nat
      /\ \A ch \in Chains : committed'[ch] = IF ch = it.chain THEN it.seq ELSE committed[ch]
  BY <1>2 DEF TypeInv, TypeOK, JournalTypeOK, Numbers
<1>4. StartedFirst'
  <2> SUFFICES ASSUME NEW n \in started'
               PROVE  \E x \in items' : (Name(x) = n /\ Underway(x))'
    BY DEF StartedFirst
  <2>1. PICK x \in items : Name(x) = n /\ Underway(x)
    BY <1>2 DEF InflightInv, StartedFirst
  <2>2. x.chain # it.chain
    <3>1. x # it
      BY <1>2, <2>1
    <3> QED BY <1>1, <2>1, <3>1, FirstOnly DEF Underway, ChainInv
  <2>3. committed'[x.chain] = committed[x.chain]
    BY <1>3, <2>2 DEF Numbers
  <2>4. Underway(x)'
    BY <1>2, <2>1, <2>3 DEF Underway, First, IsCommitted, Continuous, IsBase
  <2> QED BY <1>2, <2>1, <2>4 DEF Name
<1>5. SentStarted'
  <2> SUFFICES ASSUME NEW f \in sent' PROVE <<f.chain, f.seq>> \in started'
    BY DEF SentStarted
  <2>1. <<f.chain, f.seq>> \in started /\ f \notin SentOf(it) /\ f \in sent
    BY <1>2 DEF InflightInv, SentStarted
  <2> QED BY <1>2, <2>1 DEF SentOf, Name
<1>6. InflightMatches'
  BY <1>2 DEF InflightInv, InflightMatches, SentOf, Data
<1>7. FilesCommitted'
  <2> SUFFICES ASSUME NEW f \in files' PROVE f.seq <= committed'[f.chain]
    BY DEF FilesCommitted
  <2>1. CASE f \in SentOf(it)
    BY <1>3, <2>1 DEF SentOf, Numbers
  <2>2. CASE f \in files
    <3>1. f.seq <= committed[f.chain] /\ f.chain \in Chains /\ f.seq \in Nat
      BY <2>2 DEF InflightInv, FilesCommitted, Numbers
    <3>2. CASE f.chain = it.chain
      <4>1. committed[it.chain] < it.seq
        BY <1>1, <1>3 DEF Underway, IsCommitted, Numbers
      <4> QED BY <1>3, <3>1, <3>2, <4>1 DEF Numbers
    <3>3. CASE f.chain # it.chain
      BY <1>3, <3>1, <3>3
    <3> QED BY <3>2, <3>3
  <2> QED BY <1>2, <2>1, <2>2
<1>8. VictimsForgotten'
  BY <1>2 DEF VictimsForgotten
<1> QED BY <1>4, <1>5, <1>6, <1>7, <1>8 DEF InflightInv

\* A discard forgets what was in flight of its victims.
LEMMA DiscardInflight ==
  ASSUME InflightInv, NEW it \in items, Discard(it)
  PROVE  InflightInv'
<1>1. /\ started' = started \ {Name(o) : o \in Victims(it)}
      /\ sent' = sent \ UNION {SentOf(o) : o \in Victims(it)}
      /\ mem' = [job |-> "discard", chain |-> it.chain, dropped |-> FALSE,
                 victims |-> {Name(o) : o \in Victims(it)}]
      /\ UNCHANGED <<items, cap, committed, files>>
  BY DEF Discard
<1>2. (StartedFirst /\ InflightMatches)'
  BY <1>1, TakesInflight
<1>3. SentStarted'
  <2> SUFFICES ASSUME NEW f \in sent' PROVE <<f.chain, f.seq>> \in started'
    BY DEF SentStarted
  <2>1. <<f.chain, f.seq>> \in started
    BY <1>1 DEF InflightInv, SentStarted
  <2>2. ASSUME NEW o \in Victims(it), Name(o) = <<f.chain, f.seq>> PROVE FALSE
    <3>1. f \in SentOf(o)
      BY <1>1, <2>2 DEF SentOf, Name
    <3> QED BY <1>1, <3>1
  <2> QED BY <1>1, <2>1, <2>2
<1>4. FilesCommitted'
  BY <1>1 DEF InflightInv, FilesCommitted
<1>5. VictimsForgotten'
  <2>1. \A v \in {Name(o) : o \in Victims(it)} : v[1] = it.chain
    BY DEF Name, Victims
  <2>2. ~mem'.dropped /\ mem'.chain = it.chain /\ mem'.victims = {Name(o) : o \in Victims(it)}
    BY <1>1
  <2> QED BY <1>1, <2>1, <2>2 DEF VictimsForgotten
<1> QED BY <1>2, <1>3, <1>4, <1>5 DEF InflightInv

\* The rest of a discard touches nothing in flight.
LEMMA DiscardRestInflight ==
  ASSUME TypeInv, ChainInv, InflightInv, DiscardDropState \/ DiscardVictim
  PROVE  InflightInv'
<1>1. mem # None /\ mem.job = "discard" /\ UNCHANGED journalVars
  BY DEF DiscardDropState, DiscardVictim
<1>2. mem \in [job : {"discard"}, chain : Chains, dropped : BOOLEAN,
               victims : SUBSET (Chains \X Seqs)]
  BY <1>1 DEF TypeInv, TypeOK, OutboxTypeOK
<1>3. UNCHANGED <<committed, started, sent, files>>
  BY <1>1 DEF journalVars
<1>4. /\ \A v \in mem.victims : v[1] = mem.chain
      /\ mem.victims \cap started = {}
      /\ mem.dropped => cap = None \/ cap.chain # mem.chain
  BY <1>1 DEF InflightInv, VictimsForgotten
<1>5. CASE DiscardDropState
  <2>1. /\ mem'.chain = mem.chain /\ mem'.victims = mem.victims /\ UNCHANGED items
        /\ cap' = None \/ cap'.chain # mem.chain
    BY <1>2, <1>5 DEF DiscardDropState
  <2>2. (StartedFirst /\ InflightMatches)'
    BY <1>3, <2>1, TakesInflight
  <2>3. (SentStarted /\ FilesCommitted /\ VictimsForgotten)'
    BY <1>3, <1>4, <2>1 DEF InflightInv, SentStarted, FilesCommitted, VictimsForgotten
  <2> QED BY <2>2, <2>3 DEF InflightInv
<1>6. CASE DiscardVictim
  <2>1. PICK v \in mem.victims :
          /\ items' = {o \in items : Name(o) # v}
          /\ mem' = IF mem.victims = {v} THEN None ELSE [mem EXCEPT !.victims = @ \ {v}]
    BY <1>6 DEF DiscardVictim
  <2>2. cap' = cap
    BY <1>6 DEF DiscardVictim
  <2>3. (StartedFirst /\ InflightMatches)'
    BY <1>3, <1>4, <2>1, TakesInflight
  <2>4. mem' = None \/ (mem'.chain = mem.chain /\ mem'.victims \subseteq mem.victims
                        /\ mem'.dropped = mem.dropped)
    BY <1>2, <2>1
  <2>5. (SentStarted /\ FilesCommitted /\ VictimsForgotten)'
    BY <1>3, <1>4, <2>2, <2>4 DEF InflightInv, SentStarted, FilesCommitted, VictimsForgotten
  <2> QED BY <2>3, <2>5 DEF InflightInv
<1> QED BY <1>5, <1>6

\* A step that leaves journal and items, or takes away items not in flight.
LEMMA QuietInflight ==
  ASSUME InflightInv, items' \subseteq items, UNCHANGED <<committed, started, sent, files>>,
         \A x \in items : (First(x) /\ ~IsCommitted(x) /\ Name(x) \in started) => x \in items',
         mem' = None \/ mem'.job = "capture" \/ UNCHANGED <<mem, cap>>
  PROVE  InflightInv'
<1>1. (StartedFirst /\ InflightMatches)'
  BY TakesInflight
<1>2. (SentStarted /\ FilesCommitted /\ VictimsForgotten)'
  BY DEF InflightInv, SentStarted, FilesCommitted, VictimsForgotten
<1> QED BY <1>1, <1>2 DEF InflightInv

\* InflightInv is inductive.
LEMMA InflightInvStep ==
  ASSUME TypeInv, TypeInv', ChainInv, InflightInv, [Next]_vars
  PROVE  InflightInv'
<1>0. Numbers /\ Numbers'
  <2>1. Numbers
    BY NumbersType
  <2>2. Numbers'
    BY NumbersType, PTL
  <2> QED BY <2>1, <2>2
<1>1. CASE Outbox
  <2>0. UNCHANGED <<committed, started, sent, files>> /\ UNCHANGED <<journalVars, driveVars>>
    BY <1>1 DEF Outbox, journalVars
  <2>1. CASE Capture
    <3>1. PICK it \in Item, c \in Contents, r \in Recs, id \in StoreIds : Added(it, c, r, id)
      BY <2>1, CaptureAdds
    <3>2. (StartedFirst /\ InflightMatches)'
      BY <1>0, <2>0, <3>1, AddedInflight
    <3>3. mem'.job = "capture"
      BY <3>1 DEF Added
    <3>4. (SentStarted /\ FilesCommitted /\ VictimsForgotten)'
      BY <2>0, <3>3 DEF InflightInv, SentStarted, FilesCommitted, VictimsForgotten
    <3> QED BY <3>2, <3>4 DEF InflightInv
  <2>2. CASE SaveIndex
    <3>1. mem \in [job : {"capture"}, saved : BOOLEAN, cap : CaptureState]
      BY <2>2 DEF SaveIndex, TypeInv, TypeOK, OutboxTypeOK
    <3>2. mem'.job = "capture" /\ items' = items
      BY <2>2, <3>1 DEF SaveIndex
    <3> QED BY <2>0, <3>2, QuietInflight
  <2>3. CASE SaveState
    BY <2>0, <2>3, QuietInflight DEF SaveState
  <2>4. CASE Sweep
    <3>1. \A x \in items : First(x) => x \in items'
      BY <1>0, <2>4, FirstPending DEF Sweep, ChainInv
    <3> QED BY <2>0, <2>4, <3>1, QuietInflight DEF Sweep, Pending
  <2>5. CASE \E a, b \in Pending, left \in Seqs : Coalesce(NotMergeable, a, b, left)
    <3>0. PICK a, b \in Pending : \E R, rest : MergesRun(R, a, b, rest)
      BY <1>0, <2>0, <2>5, CoalesceMerges
    <3>1. PICK R, rest : a \in Pending /\ b \in Pending /\ MergesRun(R, a, b, rest)
      BY <3>0
    <3>2. (StartedFirst /\ InflightMatches)'
      BY <1>0, <3>1, MergedInflight
    <3>3. UNCHANGED <<mem, cap>>
      BY <3>1 DEF MergesRun
    <3>4. (SentStarted /\ FilesCommitted /\ VictimsForgotten)'
      BY <2>0, <3>3 DEF InflightInv, SentStarted, FilesCommitted, VictimsForgotten
    <3> QED BY <3>2, <3>4 DEF InflightInv
  <2> QED BY <1>1, <2>1, <2>2, <2>3, <2>4, <2>5 DEF Outbox
<1>2. CASE Upload
  <2>1. PICK it \in items :
          \/ StartItem(it)
          \/ \E k \in Kinds, kept \in BOOLEAN : SendFile(it, k, kept)
          \/ PutManifest(it)
          \/ RecordCommit(it)
          \/ FinishDropState(it)
          \/ FinishDelete(it)
    BY <1>2 DEF Upload
  <2>2. CASE StartItem(it)
    BY <1>0, <2>2, StartItemInflight
  <2>3. CASE \E k \in Kinds, kept \in BOOLEAN : SendFile(it, k, kept)
    BY <1>0, <2>3, SendFileInflight
  <2>4. CASE PutManifest(it)
    BY <2>4, QuietInflight DEF PutManifest, journalVars, outboxVars
  <2>5. CASE RecordCommit(it)
    BY <1>0, <2>5, RecordCommitInflight
  <2>6. CASE FinishDropState(it)
    BY <2>6, QuietInflight DEF FinishDropState, journalVars
  <2>7. CASE FinishDelete(it)
    <3>1. IsCommitted(it) /\ items' = items \ {it} /\ UNCHANGED <<mem, cap>>
          /\ UNCHANGED <<committed, started, sent, files>>
      BY <2>7 DEF FinishDelete, journalVars
    <3> QED BY <3>1, QuietInflight
  <2> QED BY <2>1, <2>2, <2>3, <2>4, <2>5, <2>6, <2>7
<1>3. CASE DiscardBegin
  <2>1. PICK it \in items : Discard(it)
    BY <1>3 DEF DiscardBegin, DiscardGap, DiscardMissing, DiscardCorrupt,
                DiscardRefused, DiscardUnmergeable
  <2> QED BY <2>1, DiscardInflight
<1>4. CASE DiscardDropState \/ DiscardVictim
  BY <1>4, DiscardRestInflight
<1>5. CASE Faults
  <2>1. CASE (Crash \/ LoseIndex \/ LoseState) /\ UNCHANGED journalVars
    BY <2>1, QuietInflight DEF Crash, LoseIndex, LoseState, journalVars
  <2>2. CASE (\E it \in items, k \in Kinds : LoseFile(it, k) \/ CorruptFile(it, k))
             /\ UNCHANGED journalVars
    <3>0. PICK it \in items : \E too : Touched(it, too) /\ UNCHANGED <<cap, mem, now>>
      BY <2>2, TouchSteps
    <3>1. PICK too : it \in items /\ Touched(it, too) /\ UNCHANGED <<cap, mem, now>>
      BY <3>0
    <3>2. UNCHANGED <<committed, started, sent, files>>
      BY <2>2 DEF journalVars
    <3>3. StartedFirst'
      BY <1>0, <3>1, <3>2, TouchedInflight
    <3>4. InflightMatches'
      BY <3>1, <3>2 DEF Touched, Same, InflightInv, InflightMatches, SentOf, Data
    <3>5. (SentStarted /\ FilesCommitted /\ VictimsForgotten)'
      BY <3>1, <3>2 DEF InflightInv, SentStarted, FilesCommitted, VictimsForgotten
    <3> QED BY <3>3, <3>4, <3>5 DEF InflightInv
  <2>3. CASE \E it \in items, k \in Kinds : Mismatch(it, k)
    BY <2>3, QuietInflight DEF Mismatch
  <2>4. CASE LoseJournal
    BY <2>4 DEF LoseJournal, InflightInv, StartedFirst, SentStarted, InflightMatches, SentOf,
                FilesCommitted, VictimsForgotten
  <2> QED BY <1>5, <2>1, <2>2, <2>3, <2>4 DEF Faults, OutboxDamage
<1>6. CASE UNCHANGED vars
  BY <1>6, QuietInflight DEF vars, outboxVars, journalVars
<1> QED BY <1>1, <1>2, <1>3, <1>4, <1>5, <1>6 DEF Next
-----------------------------------------------------------------------------
(* The ids of files on Drive.                                                *)

\* Ids are given out in order.
IdsFresh ==
  /\ \A f \in files \cup sent : f.id < nextId
  /\ \A m \in manifests : \A f \in m.files : f.id < nextId
  /\ \A i \in deletes : i < nextId

\* A file in flight shares its id with no other file.
SentApart == \A f \in sent :
  /\ \A g \in files \cup sent : g.id = f.id => g = f
  /\ \A m \in manifests : \A g \in m.files : g.id = f.id => g = f

\* Nothing the journal still names is queued for deletion.
JournalKept == \A f \in files \cup sent : f.id \notin deletes

\* Every file of the item has its id in the journal.
AllSent(it) == \A k \in Files(it) : \E f \in SentOf(it) : f.kind = k

\* A restore point names a file in flight only once its item is all sent.
SentComplete == \A m \in manifests : \A it \in items :
  \A f \in SentOf(it) : f \in m.files => AllSent(it)

\* Which Drive file ids are in use.
IdsInv == IdsFresh /\ SentApart /\ JournalKept /\ NoDeleteInUse /\ SentComplete

\* An item of which every file was sent has no next file and is complete.
LEMMA AllSentDone ==
  ASSUME NEW it, AllSent(it)
  PROVE  /\ Files(it) \subseteq SentKinds(it) /\ LocallyComplete(it)
         /\ \A k : ~NextKind(it, k)
BY DEF AllSent, SentKinds, LocallyComplete, NextKind

\* What is in flight is not yet among the committed files.
LEMMA SentNotCommitted ==
  ASSUME Numbers, InflightInv, NEW f \in sent
  PROVE  f \notin files /\ ~(f.seq <= committed[f.chain])
<1>1. PICK x \in items : Name(x) = <<f.chain, f.seq>> /\ Underway(x)
  BY DEF InflightInv, SentStarted, StartedFirst
<1>2. x.chain = f.chain /\ x.seq = f.seq
  BY <1>1 DEF Name
<1>3. ~(f.seq <= committed[f.chain])
  BY <1>1, <1>2 DEF Underway, IsCommitted
<1> QED BY <1>3 DEF InflightInv, FilesCommitted

\* A step that leaves journal and Drive.
LEMMA QuietIds ==
  ASSUME IdsInv, UNCHANGED <<journalVars, driveVars>>,
         \A x \in items' : SentOf(x) = {} \/ \E y \in items : Same(y, x)
  PROVE  IdsInv'
<1>1. UNCHANGED <<files, sent, deletes, nextId, manifests>>
  BY DEF journalVars, driveVars
<1>2. (IdsFresh /\ SentApart /\ JournalKept /\ NoDeleteInUse)'
  BY <1>1 DEF IdsInv, IdsFresh, SentApart, JournalKept, NoDeleteInUse
<1>3. SentComplete'
  <2> SUFFICES ASSUME NEW m \in manifests, NEW x \in items', NEW f \in SentOf(x), f \in m.files
               PROVE  AllSent(x)'
    BY <1>1 DEF SentComplete, SentOf
  <2>1. PICK y \in items : Same(y, x)
    OBVIOUS
  <2>2. SentOf(y) = SentOf(x) /\ Files(y) = Files(x) /\ SentOf(x)' = SentOf(x) /\ Files(x)' = Files(x)
    BY <1>1, <2>1 DEF Same, SentOf, Files
  <2>3. AllSent(y)
    BY <2>2 DEF IdsInv, SentComplete
  <2> QED BY <2>2, <2>3 DEF AllSent
<1> QED BY <1>2, <1>3 DEF IdsInv

\* A file sent has an id of its own, and its item was not all sent.
LEMMA SendFileIds ==
  ASSUME TypeInv, Numbers, ChainInv, InflightInv, IdsInv, NEW it \in items, NEW k \in Kinds,
         NEW kept \in BOOLEAN, SendFile(it, k, kept)
  PROVE  IdsInv'
<1>1. PICK too : Touched(it, too)
  BY TouchSteps
<1>2. PICK f : /\ sent' = sent \cup {f} /\ f.id = nextId /\ nextId' = nextId + 1
               /\ f.chain = it.chain /\ f.seq = it.seq
  BY SendFileSends
<1>3. UNCHANGED <<files, deletes, manifests>> /\ NextKind(it, k)
  BY DEF SendFile
<1>4. /\ \A g \in files \cup sent : g.id \in Nat /\ g.id < nextId
      /\ \A m \in manifests : \A g \in m.files : g.id \in Nat /\ g.id < nextId
      /\ \A i \in deletes : i \in Nat /\ i < nextId
      /\ nextId \in Nat
  BY DEF Numbers, IdsInv, IdsFresh
<1>5. IdsFresh'
  BY <1>2, <1>3, <1>4 DEF IdsFresh
<1>6. SentApart'
  BY <1>2, <1>3, <1>4 DEF SentApart, IdsInv
<1>7. JournalKept'
  BY <1>2, <1>3, <1>4 DEF JournalKept, IdsInv
<1>8. NoDeleteInUse'
  BY <1>3 DEF IdsInv, NoDeleteInUse
<1>9. SentComplete'
  <2> SUFFICES ASSUME NEW m \in manifests, NEW x \in items',
                      NEW g \in sent', g.chain = x.chain, g.seq = x.seq, g \in m.files
               PROVE  AllSent(x)'
    BY <1>3 DEF SentComplete, SentOf
  <2>1. PICK y \in items : Same(y, x)
    BY <1>1 DEF Touched, Same
  <2>2. g \in SentOf(y)
    BY <1>2, <1>4, <2>1 DEF SentOf, Same
  <2>3. AllSent(y)
    BY <2>2 DEF IdsInv, SentComplete
  <2>4. SentOf(y) \subseteq SentOf(x)' /\ Files(x)' = Files(y)
    BY <1>2, <2>1 DEF Same, SentOf, Files
  <2> QED BY <2>3, <2>4 DEF AllSent
<1> QED BY <1>5, <1>6, <1>7, <1>8, <1>9 DEF IdsInv

\* A manifest names files the journal names, those in flight of its own item.
LEMMA PutManifestIds ==
  ASSUME TypeInv, Numbers, ChainInv, InflightInv, IdsInv, NEW it \in items, PutManifest(it)
  PROVE  IdsInv'
<1>1. /\ UNCHANGED <<items, files, sent, deletes, nextId>>
      /\ manifests' = manifests \cup {ManifestOf(it)} /\ Files(it) = SentKinds(it)
  BY DEF PutManifest, outboxVars, journalVars
<1>2. \A g \in ManifestOf(it).files : g \in files \/ g \in SentOf(it)
  BY DEF ManifestOf, ManifestFiles
<1> DEFINE new == ManifestOf(it)
<1>3. \A g \in new.files : g \in files \cup sent
  BY <1>2 DEF SentOf
<1> HIDE DEF new
<1>4. IdsFresh'
  BY <1>1, <1>3 DEF IdsInv, IdsFresh, new
<1>5. SentApart'
  BY <1>1, <1>3 DEF IdsInv, SentApart, new
<1>6. JournalKept' /\ NoDeleteInUse'
  BY <1>1, <1>3 DEF IdsInv, JournalKept, NoDeleteInUse, new
<1>7. SentComplete'
  <2> SUFFICES ASSUME NEW m \in manifests', NEW x \in items, NEW f \in SentOf(x), f \in m.files
               PROVE  AllSent(x)'
    BY <1>1 DEF SentComplete, SentOf
  <2>1. AllSent(x)
    <3>1. CASE m \in manifests
      BY <3>1 DEF IdsInv, SentComplete
    <3>2. CASE m = ManifestOf(it)
      <4>1. f \in sent /\ f \notin files
        BY SentNotCommitted DEF SentOf
      <4>2. f \in SentOf(it)
        BY <1>2, <3>2, <4>1
      <4>3. x = it
        BY <4>2 DEF SentOf, ChainInv, NamesUnique
      <4> QED BY <1>1, <4>3 DEF AllSent, SentKinds
    <3> QED BY <1>1, <3>1, <3>2
  <2> QED BY <1>1, <2>1 DEF AllSent, SentOf, Files
<1> QED BY <1>4, <1>5, <1>6, <1>7 DEF IdsInv

\* A commit moves an item's files from those in flight to the chain's.
LEMMA RecordCommitIds ==
  ASSUME IdsInv, NEW it \in items, RecordCommit(it)
  PROVE  IdsInv'
<1>1. /\ UNCHANGED <<items, deletes, nextId, manifests>>
      /\ files' = files \cup SentOf(it) /\ sent' = sent \ SentOf(it)
  BY DEF RecordCommit, outboxVars, driveVars
<1>2. files' \cup sent' \subseteq files \cup sent /\ sent' \subseteq sent
  BY <1>1 DEF SentOf
<1>3. (IdsFresh /\ SentApart /\ JournalKept /\ NoDeleteInUse)'
  BY <1>1, <1>2 DEF IdsInv, IdsFresh, SentApart, JournalKept, NoDeleteInUse
<1>4. SentComplete'
  <2> SUFFICES ASSUME NEW m \in manifests, NEW x \in items, NEW f \in sent',
                      f.chain = x.chain, f.seq = x.seq, f \in m.files
               PROVE  AllSent(x)'
    BY <1>1 DEF SentComplete, SentOf
  <2>1. f \in SentOf(x) /\ f \notin SentOf(it) /\ f \in sent
    BY <1>1, <1>2 DEF SentOf
  <2>2. SentOf(x)' = SentOf(x)
    BY <1>1, <2>1 DEF SentOf
  <2>3. AllSent(x)
    BY <2>1 DEF IdsInv, SentComplete
  <2> QED BY <2>2, <2>3 DEF AllSent, Files
<1> QED BY <1>3, <1>4 DEF IdsInv

\* What makes an upload step give an item up.
DiscardReason(it) == \/ DiscardGap(it)
                     \/ DiscardMissing(it)
                     \/ \E k \in Kinds : DiscardCorrupt(it, k) \/ DiscardRefused(it, k)
                     \/ DiscardUnmergeable(it)

\* An item all sent, and listed as in flight.
SentUp(it) == Name(it) \in started /\ AllSent(it)

\* An item that was all sent is the first of its chain, and pending.
LEMMA SentUpFirst ==
  ASSUME Numbers, ChainInv, InflightInv, NEW x \in items, SentUp(x)
  PROVE  Underway(x) /\ x \in Pending
<1>1. PICK y \in items : Name(y) = Name(x) /\ Underway(y)
  BY DEF SentUp, InflightInv, StartedFirst
<1>2. y = x
  BY <1>1 DEF Name, ChainInv, NamesUnique
<1> QED BY <1>1, <1>2, FirstPending DEF Underway, ChainInv

\* It is not discarded.
LEMMA SentUpSpared ==
  ASSUME TypeInv, Numbers, ChainInv, InflightInv, NEW it \in items, DiscardReason(it),
         NEW o \in Victims(it)
  PROVE  ~SentUp(o)
<1> SUFFICES ASSUME SentUp(o) PROVE FALSE
  OBVIOUS
<1>1. o \in items /\ o.chain = it.chain /\ it.seq <= o.seq
  BY DEF Victims, Pending, Numbers
<1>2. AllSent(o) /\ Name(o) \in started
  BY DEF SentUp
<1>4. Underway(o)
  BY <1>1, SentUpFirst
<1>5. it \in Pending
  BY DEF DiscardReason, DiscardGap, DiscardMissing, DiscardCorrupt, DiscardRefused,
         DiscardUnmergeable, CorruptDelta, Uploading, Oldest
<1>6. it = o
  <2>1. it.seq <= o.prev \/ o.seq <= it.seq
    BY <1>1, <1>5, PendingIs DEF ChainInv
  <2>2. it = o \/ (o.prev < it.seq /\ it.seq < o.seq) \/ o.seq <= it.prev
    BY <1>1, <1>4 DEF Underway, First
  <2> QED BY <1>1, <2>1, <2>2 DEF Numbers, ChainInv, Shape
<1>7. CASE DiscardGap(it)
  BY <1>4, <1>6, <1>7 DEF DiscardGap, Underway
<1>8. CASE DiscardMissing(it)
  BY <1>2, <1>6, <1>8, AllSentDone DEF DiscardMissing
<1>9. CASE \E k \in Kinds : DiscardCorrupt(it, k) \/ DiscardRefused(it, k)
  BY <1>2, <1>6, <1>9, AllSentDone DEF DiscardCorrupt, DiscardRefused
<1>10. CASE DiscardUnmergeable(it)
  BY <1>2, <1>6, <1>10 DEF DiscardUnmergeable, CorruptDelta, NotMergeable
<1> QED BY <1>7, <1>8, <1>9, <1>10 DEF DiscardReason

\* No discard has a victim whose files a restore point names.
LEMMA DiscardSpares ==
  ASSUME TypeInv, Numbers, ChainInv, InflightInv, IdsInv,
         NEW it \in items, DiscardReason(it),
         NEW o \in Victims(it), NEW f \in SentOf(o), NEW m \in manifests
  PROVE  f \notin m.files
<1> SUFFICES ASSUME f \in m.files PROVE FALSE
  OBVIOUS
<1>1. AllSent(o)
  BY DEF IdsInv, SentComplete, Victims, Pending
<1>2. Name(o) \in started
  BY DEF SentOf, Name, InflightInv, SentStarted
<1> QED BY <1>1, <1>2, SentUpSpared DEF SentUp

\* A discard queues for deletion only files nothing else names.
LEMMA DiscardIds ==
  ASSUME TypeInv, Numbers, ChainInv, InflightInv, IdsInv,
         NEW it \in items, DiscardReason(it)
  PROVE  IdsInv'
<1> DEFINE gone == UNION {SentOf(o) : o \in Victims(it)}
<1>0. Discard(it)
  BY DEF DiscardReason, DiscardGap, DiscardMissing, DiscardCorrupt, DiscardRefused,
         DiscardUnmergeable
<1>1. /\ sent' = sent \ gone /\ deletes' = deletes \cup {f.id : f \in gone}
      /\ UNCHANGED <<items, files, nextId, manifests>>
  BY <1>0 DEF Discard, driveVars
<1>2. gone \subseteq sent
  BY DEF SentOf
<1>3. \A f \in gone : \A m \in manifests : f \notin m.files
  BY DiscardSpares
<1>4. \A f \in gone : f \notin files
  BY <1>2, SentNotCommitted
<1>5. \A x \in items : SentOf(x) \cap gone = {} \/ SentOf(x) \subseteq gone
  <2> SUFFICES ASSUME NEW x \in items, NEW f \in SentOf(x), f \in gone
               PROVE  SentOf(x) \subseteq gone
    OBVIOUS
  <2>1. PICK o \in Victims(it) : f \in SentOf(o)
    OBVIOUS
  <2>2. SentOf(x) = SentOf(o)
    BY <2>1 DEF SentOf
  <2> QED BY <2>2
<1> HIDE DEF gone
<1>6. IdsFresh'
  BY <1>1, <1>2 DEF IdsInv, IdsFresh
<1>7. SentApart'
  BY <1>1, <1>2 DEF IdsInv, SentApart
<1>8. JournalKept'
  BY <1>1, <1>2, <1>4 DEF IdsInv, SentApart, JournalKept
<1>9. NoDeleteInUse'
  BY <1>1, <1>2, <1>3 DEF IdsInv, SentApart, NoDeleteInUse
<1>10. SentComplete'
  <2> SUFFICES ASSUME NEW m \in manifests, NEW x \in items, NEW f \in sent',
                      f.chain = x.chain, f.seq = x.seq, f \in m.files
               PROVE  AllSent(x)'
    BY <1>1 DEF SentComplete, SentOf
  <2>1. f \in SentOf(x) /\ f \notin gone
    BY <1>1 DEF SentOf
  <2>2. SentOf(x)' = SentOf(x)
    BY <1>1, <1>5, <2>1 DEF SentOf
  <2>3. AllSent(x)
    BY <2>1 DEF IdsInv, SentComplete
  <2> QED BY <2>2, <2>3 DEF AllSent, Files
<1> QED BY <1>6, <1>7, <1>8, <1>9, <1>10 DEF IdsInv

\* IdsInv is inductive.
LEMMA IdsInvStep ==
  ASSUME TypeInv, TypeInv', ChainInv, InflightInv, IdsInv, [Next]_vars
  PROVE  IdsInv'
<1>0. Numbers /\ Numbers'
  <2>1. Numbers
    BY NumbersType
  <2>2. Numbers'
    BY NumbersType, PTL
  <2> QED BY <2>1, <2>2
<1>a. \A x \in items : Same(x, x)
  BY DEF Same
<1>1. CASE Outbox
  <2>0. UNCHANGED <<journalVars, driveVars>>
    BY <1>1 DEF Outbox
  <2>1. CASE Capture
    <3>1. PICK it \in Item, c \in Contents, r \in Recs, id \in StoreIds : Added(it, c, r, id)
      BY <2>1, CaptureAdds
    <3>2. items' \subseteq items \cup {it} /\ SentOf(it) = {}
      BY <1>0, <3>1, AddedAfter, AddedUnsent DEF Pending
    <3> QED BY <1>a, <2>0, <3>2, QuietIds
  <2>2. CASE \E a, b \in Pending, left \in Seqs : Coalesce(NotMergeable, a, b, left)
    <3>0. PICK a, b \in Pending : \E R, rest : MergesRun(R, a, b, rest)
      BY <1>0, <2>0, <2>2, CoalesceMerges
    <3>1. PICK R, rest : a \in Pending /\ b \in Pending /\ MergesRun(R, a, b, rest)
      BY <3>0
    <3>2. items' \subseteq items \cup {Merged(R)} /\ SentOf(Merged(R)) = {}
      BY <1>0, <3>1, MergedUnsent DEF MergesRun, Run, Pending
    <3> QED BY <1>a, <2>0, <3>2, QuietIds
  <2>3. CASE SaveIndex \/ SaveState \/ Sweep
    <3>1. items' \subseteq items
      BY <2>3 DEF SaveIndex, SaveState, Sweep, Pending
    <3> QED BY <1>a, <2>0, <3>1, QuietIds
  <2> QED BY <1>1, <2>1, <2>2, <2>3 DEF Outbox
<1>2. CASE Upload
  <2>1. PICK it \in items :
          \/ StartItem(it)
          \/ \E k \in Kinds, kept \in BOOLEAN : SendFile(it, k, kept)
          \/ PutManifest(it)
          \/ RecordCommit(it)
          \/ FinishDropState(it)
          \/ FinishDelete(it)
    BY <1>2 DEF Upload
  <2>2. CASE StartItem(it)
    <3>1. UNCHANGED <<items, files, sent, deletes, nextId, manifests>>
      BY <2>2 DEF StartItem, outboxVars
    <3> QED BY <3>1 DEF IdsInv, IdsFresh, SentApart, JournalKept, NoDeleteInUse, SentComplete,
                        AllSent, SentOf, Files
  <2>3. CASE \E k \in Kinds, kept \in BOOLEAN : SendFile(it, k, kept)
    BY <1>0, <2>3, SendFileIds
  <2>4. CASE PutManifest(it)
    BY <1>0, <2>4, PutManifestIds
  <2>5. CASE RecordCommit(it)
    BY <2>5, RecordCommitIds
  <2>6. CASE FinishDropState(it) \/ FinishDelete(it)
    <3>1. items' \subseteq items /\ UNCHANGED <<journalVars, driveVars>>
      BY <2>6 DEF FinishDropState, FinishDelete
    <3> QED BY <1>a, <3>1, QuietIds
  <2> QED BY <2>1, <2>2, <2>3, <2>4, <2>5, <2>6
<1>3. CASE DiscardBegin
  <2>1. PICK it \in items : DiscardReason(it)
    BY <1>3 DEF DiscardBegin, DiscardReason
  <2> QED BY <1>0, <2>1, DiscardIds
<1>4. CASE DiscardDropState \/ DiscardVictim
  <2>1. items' \subseteq items /\ UNCHANGED <<journalVars, driveVars>>
    BY <1>4 DEF DiscardDropState, DiscardVictim
  <2> QED BY <1>a, <2>1, QuietIds
<1>5. CASE Faults
  <2>1. CASE (Crash \/ LoseIndex \/ LoseState) /\ UNCHANGED <<journalVars, driveVars>>
    <3>1. items' = items
      BY <2>1 DEF Crash, LoseIndex, LoseState
    <3> QED BY <1>a, <2>1, <3>1, QuietIds
  <2>2. CASE (\E it \in items, k \in Kinds : LoseFile(it, k) \/ CorruptFile(it, k))
             /\ UNCHANGED <<journalVars, driveVars>>
    <3>0. PICK it \in items : \E too : Touched(it, too)
      BY <2>2, TouchSteps
    <3>1. PICK too : it \in items /\ Touched(it, too)
      BY <3>0
    <3>2. \A x \in items' : \E y \in items : Same(y, x)
      BY <1>a, <3>1 DEF Touched
    <3> QED BY <2>2, <3>2, QuietIds
  <2>3. CASE \E it \in items, k \in Kinds : Mismatch(it, k)
    <3>1. UNCHANGED <<items, files, sent, deletes, nextId, manifests>>
      BY <2>3 DEF Mismatch, driveVars
    <3> QED BY <3>1 DEF IdsInv, IdsFresh, SentApart, JournalKept, NoDeleteInUse, SentComplete,
                        AllSent, SentOf, Files
  <2>4. CASE LoseJournal
    <3>1. files' = {} /\ sent' = {} /\ deletes' = {} /\ UNCHANGED <<items, nextId, manifests>>
      BY <2>4 DEF LoseJournal, driveVars
    <3> QED BY <3>1 DEF IdsInv, IdsFresh, SentApart, JournalKept, NoDeleteInUse, SentComplete,
                        SentOf
  <2> QED BY <1>5, <2>1, <2>2, <2>3, <2>4 DEF Faults, OutboxDamage
<1>6. CASE UNCHANGED vars
  <2>1. items' = items /\ UNCHANGED <<journalVars, driveVars>>
    BY <1>6 DEF vars, outboxVars
  <2> QED BY <1>a, <2>1, QuietIds
<1> QED BY <1>1, <1>2, <1>3, <1>4, <1>5, <1>6 DEF Next
-----------------------------------------------------------------------------
(* Theorems.                                                                 *)

\* The three invariants hold at the start.
LEMMA ChainsInit == Init => ChainInv /\ InflightInv /\ IdsInv
<1> SUFFICES ASSUME Init PROVE ChainInv /\ InflightInv /\ IdsInv
  OBVIOUS
<1>1. /\ items = {} /\ cap = None /\ mem = None /\ manifests = {}
      /\ files = {} /\ sent = {} /\ started = {} /\ deletes = {}
  BY DEF Init, OutboxInit
<1>2. ChainInv
  BY <1>1 DEF ChainInv, Shape, NamesUnique, Nested, ChainsKnown
<1>3. InflightInv
  BY <1>1 DEF InflightInv, StartedFirst, SentStarted, InflightMatches, FilesCommitted,
              VictimsForgotten
<1>4. IdsInv
  BY <1>1 DEF IdsInv, IdsFresh, SentApart, JournalKept, NoDeleteInUse, SentComplete
<1> QED BY <1>2, <1>3, <1>4

\* The three invariants hold in every state of every behaviour.
LEMMA ChainsAlways == Spec => [](TypeInv /\ ChainInv /\ InflightInv /\ IdsInv)
<1> DEFINE I == TypeInv /\ ChainInv /\ InflightInv /\ IdsInv
<1>1. Init => I
  BY TypeInvInit, ChainsInit
<1>2. I /\ [Next]_vars => I'
  <2> SUFFICES ASSUME I, [Next]_vars PROVE I'
    OBVIOUS
  <2>1. TypeInv'
    BY TypeInvStep
  <2> QED BY <2>1, ChainInvStep, InflightInvStep, IdsInvStep
<1> QED BY <1>1, <1>2, PTL DEF Spec

\* A file id the journal holds for an item in flight is a file with that very
\* item's bytes: the next step of _upload_item may skip the file on the strength
\* of its name, also after a merge, a discard or a recapture gave the name to
\* another item.
THEOREM InflightIsOwn == Spec => []InflightMatches
<1>1. ChainInv /\ InflightInv => InflightMatches
  BY DEF InflightInv
<1> QED BY <1>1, ChainsAlways, PTL

\* Nothing queued for deletion is a file a restore point needs, whatever was
\* discarded while a manifest already named its files.
THEOREM DeletesSpareRestorePoints == Spec => []NoDeleteInUse
<1>1. IdsInv => NoDeleteInUse
  BY DEF IdsInv
<1> QED BY <1>1, ChainsAlways, PTL

-----------------------------------------------------------------------------
(* What is known of the content at a seq of a chain.                         *)

\* An item, a manifest or the capture state says d is the content at seq s.
IsPoint(ch, s, d) ==
  \/ \E it \in items : it.chain = ch /\ it.seq = s /\ it.db = d
  \/ \E m \in manifests : m.chain = ch /\ m.seq = s /\ m.db = d
  \/ cap # None /\ cap.chain = ch /\ cap.seq = s /\ cap.db = d

\* Whoever says what was captured at a seq, says the same.
PointsAgree == \A ch, s, d, e : IsPoint(ch, s, d) /\ IsPoint(ch, s, e) => d = e

\* The store never shrinks along a chain: a delta is refused when it did.
PointsGrow == \A ch, s, t, d, e :
  IsPoint(ch, s, d) /\ IsPoint(ch, t, e) /\ s <= t => DOMAIN d \subseteq DOMAIN e

\* With d underneath, the item's pages make up its content.
Carries(it, d) ==
  \A p \in DOMAIN it.db : p \in DOMAIN it.pages \/ (p \in DOMAIN d /\ it.db[p] = d[p])

\* Each item has the pages in which it differs from every point it follows.
SegmentsComplete == \A it \in items : \A s, d :
  IsPoint(it.chain, s, d) /\ it.prev <= s /\ s < it.seq => Carries(it, d)

\* An item's pages are pages of its content, and a base has them all.
PagesOfDb == \A it \in items :
  /\ DOMAIN it.pages \subseteq DOMAIN it.db
  /\ \A p \in DOMAIN it.pages : it.pages[p] = it.db[p]
  /\ it.prev = 0 => DOMAIN it.pages = DOMAIN it.db

\* What items, manifests and the state say of the content.
ContentInv == PointsAgree /\ PointsGrow /\ SegmentsComplete /\ PagesOfDb

\* The chain capture.json continues: nothing is past its tip, and from the state
\* to the tip each item continues from the one before.
ManifestsBehind == cap # None => \A m \in manifests : m.chain = cap.chain =>
  m.seq <= cap.seq \/ \E it \in items : it.chain = m.chain /\ m.seq <= it.seq

\* From the state to the tip the pending items follow one another.
NoGapSince == cap # None => \A y \in Pending : (y.chain = cap.chain /\ cap.seq < y.seq) =>
  y.prev <= cap.seq \/ \E d \in Pending : d.chain = y.chain /\ d.seq = y.prev

\* The state's own item is still there, or inside a later one, or on Drive.
CapBacked == cap # None =>
  \/ \E it \in items : it.chain = cap.chain /\ it.prev < cap.seq /\ cap.seq <= it.seq
  \/ \E m \in manifests : m.chain = cap.chain /\ cap.seq <= m.seq

\* A capture that has yet to write its state has committed its chain's last item.
MemCaptured == (mem # None /\ mem.job = "capture") =>
  /\ \E it \in items : it.chain = mem.cap.chain /\ it.seq = mem.cap.seq /\ it.db = mem.cap.db
  /\ \A it \in items : it.chain = mem.cap.chain => it.seq <= mem.cap.seq
  /\ \A m \in manifests : m.chain = mem.cap.chain => m.seq <= mem.cap.seq

\* Manifests are not from the future, nor older than an item they come after.
ManifestsKnown == /\ \A m \in manifests : m.chain <= now /\ m.at <= now
                  /\ \A m \in manifests, it \in items :
                       (m.chain = it.chain /\ it.seq <= m.seq) => it.at <= m.at

\* What capture.json says of its chain.
StateInv == ManifestsBehind /\ NoGapSince /\ CapBacked /\ MemCaptured /\ ManifestsKnown

\* The tip of the chain is a point of it.
LEMMA TipPoint ==
  ASSUME TypeInv, Numbers, ChainInv, cap # None
  PROVE  IsPoint(cap.chain, Tip.seq, Tip.db)
<1>1. \/ Tip.seq = cap.seq /\ Tip.db = cap.db
      \/ \E o \in items : o.seq = Tip.seq /\ o.db = Tip.db /\ o.chain = cap.chain
  BY TipAbove
<1> QED BY <1>1 DEF IsPoint

\* No point of the chain is past the tip.
LEMMA PointsBelowTip ==
  ASSUME TypeInv, Numbers, ChainInv, StateInv, cap # None,
         NEW s, NEW d, IsPoint(cap.chain, s, d)
  PROVE  s <= Tip.seq
<1>1. /\ Tip.seq \in Nat /\ cap.seq <= Tip.seq /\ cap.seq \in Nat
      /\ \A o \in items : o.chain = cap.chain => o.seq <= Tip.seq /\ o.seq \in Nat
  BY TipAbove DEF Numbers
<1>2. ASSUME NEW m \in manifests, m.chain = cap.chain PROVE m.seq <= Tip.seq
  <2>1. m.seq \in Nat
    BY DEF Numbers
  <2>2. m.seq <= cap.seq \/ \E it \in items : it.chain = m.chain /\ m.seq <= it.seq
    BY <1>2 DEF StateInv, ManifestsBehind
  <2> QED BY <1>1, <1>2, <2>1, <2>2
<1> QED BY <1>1, <1>2 DEF IsPoint

\* The next delta would contain every page in which the store differs from the tip.
LEMMA ChangedEnough ==
  ASSUME TypeInv, Numbers, ChainInv, ContentInv, StateInv,
         NEW c \in Contents, NEW id, CanExtend(c, id), NEW p \in DOMAIN c, p \notin Changed(c)
  PROVE  p \in DOMAIN Tip.db /\ c[p] = Tip.db[p]
<1>1. cap # None /\ Anchored
  BY DEF CanExtend
<1>2. p \in Nat /\ p <= p
  BY ContentsFacts, ConstantsAssumption
<1>3. p \in DOMAIN idx /\ c[p] = idx[p]
  BY DEF Changed
<1>4. \A it \in Later : p \notin DOMAIN it.pages
  <2> SUFFICES ASSUME NEW it \in Later, p \in DOMAIN it.pages PROVE FALSE
    OBVIOUS
  <2>1. p \in SegmentRange(it, c)
    BY <1>2 DEF SegmentRange
  <2> QED BY <2>1 DEF Changed
<1>5. /\ Since \subseteq Pending
      /\ \A s \in Since : /\ s \in items /\ s.chain = cap.chain /\ cap.seq < s.seq
                          /\ s.seq \in Nat /\ s.prev \in Nat /\ s.seq \in Seqs
                          /\ s.prev < s.seq
  <2>1. \A s \in items : s.seq \in Seqs
    BY DEF TypeInv, TypeOK, OutboxTypeOK, Item
  <2> QED BY <2>1 DEF Since, Pending, Numbers, ChainInv, Shape
<1>6. IsPoint(cap.chain, Anchor, idx) /\ Anchor \in Nat /\ cap.seq <= Anchor /\ cap.seq \in Nat
  <2>0. cap.seq \in Nat
    BY <1>1 DEF Numbers
  <2>1. CASE idx = cap.db
    BY <1>1, <2>0, <2>1 DEF Anchor, IsPoint
  <2>2. CASE idx # cap.db
    <3>1. Matching # {} /\ \A s \in Matching : s.seq \in Seqs
      BY <1>1, <1>5, <2>2 DEF Anchored, Matching
    <3>2. NewestOf(Matching) \in Matching
      BY <3>1, NewestOfMax
    <3>3. PICK s \in Since : s.db = idx /\ Anchor = s.seq
      BY <2>2, <3>2 DEF Anchor, Matching
    <3> QED BY <1>5, <2>0, <3>3 DEF IsPoint
  <2> QED BY <2>1, <2>2
<1>7. IsPoint(cap.chain, Tip.seq, Tip.db) /\ Anchor <= Tip.seq /\ Tip.seq \in Nat
  BY <1>1, <1>6, TipPoint, PointsBelowTip, TipAbove
<1>8. p \in DOMAIN Tip.db
  BY <1>3, <1>6, <1>7 DEF ContentInv, PointsGrow
<1>9. CASE Anchor = Tip.seq
  <2>1. Tip.db = idx
    BY <1>6, <1>7, <1>9 DEF ContentInv, PointsAgree
  <2> QED BY <1>3, <1>8, <2>1
<1>10. CASE Anchor # Tip.seq
  <2> DEFINE B == {x \in Later : p \in DOMAIN x.db /\ x.db[p] = Tip.db[p]}
  <2>1. Later \subseteq Since /\ \A x \in Since : Anchor < x.seq => x \in Later
    BY DEF Later
  <2>2. B # {} /\ \A x \in B : x.seq \in Seqs
    <3>1. PICK o \in Since : o.seq = Tip.seq /\ o.db = Tip.db
      BY <1>1, <1>6, <1>7, <1>10, TipAbove
    <3>2. o \in B
      BY <1>6, <1>7, <1>8, <1>10, <2>1, <3>1
    <3> QED BY <1>5, <2>1, <3>2
  <2>3. PICK x \in B : \A y \in B : x.seq <= y.seq
    BY <2>2, OldestExists
  <2>4. x \in Later /\ x \in Since /\ p \in DOMAIN x.db /\ x.db[p] = Tip.db[p]
        /\ p \notin DOMAIN x.pages
    BY <1>4, <2>1
  <2>5. Anchor < x.seq /\ x \in items /\ x \in Pending /\ x.seq \in Nat /\ x.prev \in Nat
        /\ x.chain = cap.chain /\ x.prev < x.seq /\ cap.seq < x.seq
    BY <1>5, <2>4 DEF Later
  <2>6. CASE x.prev <= Anchor
    <3>1. Carries(x, idx)
      BY <1>6, <2>5, <2>6 DEF ContentInv, SegmentsComplete
    <3>2. x.db[p] = idx[p]
      BY <2>4, <3>1 DEF Carries
    <3> QED BY <1>3, <1>8, <2>4, <3>2
  <2>7. CASE Anchor < x.prev
    <3>1. PICK d \in Pending : d.chain = x.chain /\ d.seq = x.prev
      BY <1>1, <1>6, <2>5, <2>7 DEF StateInv, NoGapSince
    <3>2. d \in Since /\ d \in Later /\ d \in items
      BY <1>6, <2>1, <2>5, <2>7, <3>1 DEF Since, Pending
    <3>3. IsPoint(x.chain, d.seq, d.db)
      BY <3>1, <3>2 DEF IsPoint
    <3>4. Carries(x, d.db)
      BY <2>5, <3>1, <3>3 DEF ContentInv, SegmentsComplete
    <3>5. p \in DOMAIN d.db /\ d.db[p] = Tip.db[p]
      BY <2>4, <3>4 DEF Carries
    <3>6. d \in B
      BY <3>2, <3>5
    <3> QED BY <2>3, <2>5, <3>1, <3>6
  <2> QED BY <1>6, <2>5, <2>6, <2>7
<1> QED BY <1>9, <1>10
-----------------------------------------------------------------------------
(* What a merge writes.                                                      *)

\* The items of a run that have page p.
Covering(R, p) == {it \in R : Covers(it, p)}

\* The pages of a merged item, and its local files.
LEMMA MergedPages ==
  ASSUME TypeInv, Numbers, ChainInv, NEW begun, NEW a, NEW b, NEW R, Run(R, a, b, begun)
  PROVE  /\ \A p : p \in DOMAIN Merged(R).pages <=>
                     p \in DOMAIN b.db /\ \E it \in R : Covers(it, p)
         /\ \A p \in DOMAIN Merged(R).pages :
              Merged(R).pages[p] = NewestOf(Covering(R, p)).pages[p]
         /\ Merged(R).here = Files(Merged(R))
         /\ (\A it \in R : it.bad = {}) => Merged(R).bad = {}
<1> DEFINE seen == {p \in DOMAIN NewestOf(R).db : \E it \in R : Covers(it, p)}
           pages == [p \in seen |-> NewestOf({it \in R : Covers(it, p)}).pages[p]]
           withRecs == {it \in R : it.recs # None}
           recs == IF withRecs = {} THEN None ELSE NewestOf(withRecs).recs
           here == (IF seen = {} THEN {} ELSE {"pages"})
                   \cup (IF recs = None THEN {} ELSE {"records"})
           bad == IF withRecs = {} THEN {} ELSE NewestOf(withRecs).bad \cap {"records"}
           prev == (CHOOSE it \in R : \A o \in R : it.seq <= o.seq).prev
<1>1. R \subseteq items /\ b \in R
  BY DEF Run, Pending
<1>2. \A c \in R : c.seq \in Seqs
  BY <1>1 DEF TypeInv, TypeOK, OutboxTypeOK, Item
<1>3. NewestOf(R) = b
  <2>1. NewestOf(R) \in R /\ \A t \in R : t.seq <= NewestOf(R).seq
    BY <1>1, <1>2, NewestOfMax
  <2>2. NewestOf(R).seq = b.seq /\ NewestOf(R).chain = b.chain
    BY <1>1, <2>1 DEF Run, Numbers
  <2> QED BY <1>1, <2>1, <2>2 DEF ChainInv, NamesUnique
<1>4. Merged(R) = [NewestOf(R) EXCEPT !.prev = prev, !.pages = pages, !.recs = recs,
                                      !.here = here, !.bad = bad]
  BY DEF Merged
<1>5. NewestOf(R) \in Item
  BY <1>1, <1>3 DEF TypeInv, TypeOK, OutboxTypeOK
<1>6. DOMAIN pages = seen /\ \A p \in seen : pages[p] = NewestOf(Covering(R, p)).pages[p]
  BY DEF Covering
<1>7. withRecs # {} => NewestOf(withRecs) \in R
  <2>1. withRecs # {} => NewestOf(withRecs) \in withRecs
    BY <1>2, NewestOfMax
  <2> QED BY <2>1
<1>8. (\A it \in R : it.bad = {}) => bad = {}
  BY <1>7
<1>9. \A p : p \in seen <=> p \in DOMAIN b.db /\ \E it \in R : Covers(it, p)
  BY <1>3
<1> HIDE DEF pages, recs, here, bad, prev, withRecs
<1>10. Merged(R).pages = pages /\ Merged(R).recs = recs /\ Merged(R).here = here
       /\ Merged(R).bad = bad
  BY <1>4, <1>5 DEF Item
<1>11. Merged(R).pages \in PageMaps
  BY <1>1, MergedType DEF Item
<1>12. here = Files(Merged(R))
  BY <1>6, <1>10, <1>11, NoPages DEF Files, here
<1> QED BY <1>6, <1>8, <1>9, <1>10, <1>12

\* Down a run, a page no item carries after seq s is as it was at s.
LEMMA RunPage ==
  ASSUME TypeInv, Numbers, ChainInv, ContentInv,
         NEW begun, NEW a, NEW b, NEW R, Run(R, a, b, begun),
         NEW s \in Nat, NEW d, IsPoint(b.chain, s, d), a.prev <= s, s < b.seq,
         NEW p \in DOMAIN b.db,
         \A x \in R : s < x.seq => p \notin DOMAIN x.pages
  PROVE  p \in DOMAIN d /\ d[p] = b.db[p]
<1> DEFINE B == {x \in R : s < x.seq /\ p \in DOMAIN x.db /\ x.db[p] = b.db[p]}
<1>1. /\ R \subseteq items /\ a \in R /\ b \in R
      /\ \A x \in R : /\ x.chain = b.chain /\ x.seq \in Nat /\ x.prev \in Nat /\ x.prev < x.seq
                      /\ x.seq \in Seqs
  <2>1. \A x \in items : x.seq \in Seqs
    BY DEF TypeInv, TypeOK, OutboxTypeOK, Item
  <2> QED BY <2>1 DEF Run, Pending, Numbers, ChainInv, Shape
<1>2. b \in B
  BY <1>1
<1>3. PICK x \in B : \A y \in B : x.seq <= y.seq
  BY <1>1, <1>2, OldestExists
<1>4. x \in R /\ s < x.seq /\ p \in DOMAIN x.db /\ x.db[p] = b.db[p] /\ p \notin DOMAIN x.pages
      /\ x \in items /\ x.chain = b.chain
  BY <1>1
<1>5. CASE x.prev <= s
  <2>1. Carries(x, d)
    BY <1>1, <1>4, <1>5 DEF ContentInv, SegmentsComplete
  <2> QED BY <1>4, <2>1 DEF Carries
<1>6. CASE s < x.prev
  <2>1. PICK y \in R : y.seq = x.prev
    BY <1>1, <1>4, <1>6 DEF Run
  <2>2. IsPoint(x.chain, y.seq, y.db)
    BY <1>1, <1>4, <2>1 DEF IsPoint
  <2>3. Carries(x, y.db)
    BY <1>1, <1>4, <2>1, <2>2 DEF ContentInv, SegmentsComplete
  <2>4. y \in B
    BY <1>4, <1>6, <2>1, <2>3 DEF Carries
  <2> QED BY <1>1, <1>3, <1>4, <2>1, <2>4
<1> QED BY <1>1, <1>4, <1>5, <1>6

\* A merged item's pages are those of its content, and with what is known of any
\* seq from its start on they make it up.
LEMMA MergedContent ==
  ASSUME TypeInv, Numbers, ChainInv, ContentInv,
         NEW begun, NEW a, NEW b, NEW R, Run(R, a, b, begun), NEW one, one = Merged(R)
  PROVE  /\ DOMAIN one.pages \subseteq DOMAIN one.db
         /\ \A p \in DOMAIN one.pages : one.pages[p] = one.db[p]
         /\ \A s, d : IsPoint(b.chain, s, d) /\ a.prev <= s /\ s < b.seq => Carries(one, d)
<1>1. /\ R \subseteq items /\ a \in R /\ b \in R /\ b \in items
      /\ \A x \in R : /\ x.chain = b.chain /\ x.seq \in Nat /\ x.prev \in Nat /\ x.prev < x.seq
                      /\ x.seq \in Seqs /\ x \in items
                      /\ a.seq <= x.seq /\ x.seq <= b.seq
  <2>1. \A x \in items : x.seq \in Seqs
    BY DEF TypeInv, TypeOK, OutboxTypeOK, Item
  <2> QED BY <2>1 DEF Run, Pending, Numbers, ChainInv, Shape
<1>2. \A x \in R : /\ DOMAIN x.pages \subseteq DOMAIN x.db
                   /\ \A p \in DOMAIN x.pages : x.pages[p] = x.db[p]
  BY <1>1 DEF ContentInv, PagesOfDb
<1>3. one.db = b.db
  BY MergedFields
<1>4. /\ \A p : p \in DOMAIN one.pages <=> p \in DOMAIN b.db /\ \E it \in R : Covers(it, p)
      /\ \A p \in DOMAIN one.pages : one.pages[p] = NewestOf(Covering(R, p)).pages[p]
  BY MergedPages
<1>5. ASSUME NEW p \in DOMAIN one.pages
      PROVE  one.pages[p] = b.db[p]
  <2> DEFINE n == NewestOf(Covering(R, p))
  <2>1. Covering(R, p) # {} /\ \A x \in Covering(R, p) : x.seq \in Seqs
    BY <1>1, <1>4 DEF Covering
  <2>2. n \in Covering(R, p) /\ \A x \in Covering(R, p) : x.seq <= n.seq
    BY <2>1, NewestOfMax
  <2> HIDE DEF n
  <2>3. n \in R /\ p \in DOMAIN n.pages /\ p \in DOMAIN n.db /\ n.pages[p] = n.db[p]
    BY <1>2, <2>2 DEF Covering, Covers
  <2>4. CASE n.seq = b.seq
    <3>1. n = b
      BY <1>1, <2>3, <2>4 DEF ChainInv, NamesUnique
    <3> QED BY <1>4, <2>3, <3>1 DEF n
  <2>5. CASE n.seq < b.seq
    <3>1. \A x \in R : n.seq < x.seq => p \notin DOMAIN x.pages
      <4> SUFFICES ASSUME NEW x \in R, n.seq < x.seq, p \in DOMAIN x.pages PROVE FALSE
        OBVIOUS
      <4>1. x \in Covering(R, p)
        BY <1>2 DEF Covering, Covers
      <4> QED BY <1>1, <2>2, <2>3, <4>1
    <3>2. IsPoint(b.chain, n.seq, n.db) /\ n.seq \in Nat
      BY <1>1, <2>3 DEF IsPoint
    <3>3. a.prev <= n.seq
      BY <1>1, <2>3
    <3>4. p \in DOMAIN b.db
      BY <1>4
    <3>5. n.db[p] = b.db[p]
      BY <2>5, <3>1, <3>2, <3>3, <3>4, RunPage
    <3> QED BY <1>4, <2>3, <3>5 DEF n
  <2> QED BY <1>1, <2>3, <2>4, <2>5
<1>6. ASSUME NEW s, NEW d, IsPoint(b.chain, s, d), a.prev <= s, s < b.seq
      PROVE  Carries(one, d)
  <2> SUFFICES ASSUME NEW p \in DOMAIN b.db, p \notin DOMAIN one.pages
               PROVE  p \in DOMAIN d /\ b.db[p] = d[p]
    BY <1>3 DEF Carries
  <2>1. \A x \in R : p \notin DOMAIN x.pages
    BY <1>2, <1>4 DEF Covers
  <2>2. s \in Nat
    BY <1>6 DEF IsPoint, Numbers
  <2> QED BY <1>6, <2>1, <2>2, RunPage
<1> QED BY <1>3, <1>4, <1>5, <1>6

-----------------------------------------------------------------------------
(* ContentInv is inductive, given StateInv.                                  *)

\* Steps that add no point and change no content.
LEMMA QuietContent ==
  ASSUME ContentInv,
         \A ch, s, d : IsPoint(ch, s, d)' => IsPoint(ch, s, d),
         \A x \in items' : \E y \in items : Same(y, x)
  PROVE  ContentInv'
<1>1. PointsAgree'
  BY DEF ContentInv, PointsAgree
<1>2. PointsGrow'
  BY DEF ContentInv, PointsGrow
<1>3. SegmentsComplete'
  <2> SUFFICES ASSUME NEW x \in items', NEW s, NEW d, IsPoint(x.chain, s, d)',
                      x.prev <= s, s < x.seq
               PROVE  Carries(x, d)
    BY DEF SegmentsComplete, Carries
  <2>1. PICK y \in items : Same(y, x)
    OBVIOUS
  <2>2. IsPoint(x.chain, s, d)
    OBVIOUS
  <2>3. Carries(y, d)
    BY <2>1, <2>2 DEF ContentInv, SegmentsComplete, Same
  <2> QED BY <2>1, <2>3 DEF Carries, Same
<1>4. PagesOfDb'
  BY DEF ContentInv, PagesOfDb, Same
<1> QED BY <1>1, <1>2, <1>3, <1>4 DEF ContentInv

\* A merge adds no point.
LEMMA MergedContentInv ==
  ASSUME TypeInv, Numbers, ChainInv, ContentInv,
         NEW a, NEW b, NEW R, NEW rest, MergesRun(R, a, b, rest)
  PROVE  ContentInv'
<1> DEFINE one == Merged(R)
<1>1. Run(R, a, b, NotMergeable)
  BY DEF MergesRun
<1>2. one.chain = b.chain /\ one.seq = b.seq /\ one.db = b.db /\ one.prev = a.prev
  BY <1>1, MergedFields
<1>3. /\ items' \subseteq items \cup {one} /\ a \in items /\ b \in items
      /\ UNCHANGED <<cap, manifests>>
  BY DEF MergesRun, Run, Pending, driveVars
<1>4. /\ DOMAIN one.pages \subseteq DOMAIN one.db
      /\ \A p \in DOMAIN one.pages : one.pages[p] = one.db[p]
      /\ \A s, d : IsPoint(b.chain, s, d) /\ a.prev <= s /\ s < b.seq => Carries(one, d)
  BY <1>1, MergedContent
<1>5. a.prev # 0
  BY <1>1 DEF Run, IsBase
<1> HIDE DEF one
<1>6. \A ch, s, d : IsPoint(ch, s, d)' => IsPoint(ch, s, d)
  BY <1>2, <1>3 DEF IsPoint
<1>7. PointsAgree' /\ PointsGrow'
  BY <1>6 DEF ContentInv, PointsAgree, PointsGrow
<1>8. SegmentsComplete'
  <2> SUFFICES ASSUME NEW x \in items', NEW s, NEW d, IsPoint(x.chain, s, d)',
                      x.prev <= s, s < x.seq
               PROVE  Carries(x, d)
    BY DEF SegmentsComplete, Carries
  <2>1. IsPoint(x.chain, s, d)
    BY <1>6
  <2>2. CASE x \in items
    BY <2>1, <2>2 DEF ContentInv, SegmentsComplete
  <2>3. CASE x = one
    BY <1>2, <1>4, <2>1, <2>3
  <2> QED BY <1>3, <2>2, <2>3
<1>9. PagesOfDb'
  BY <1>2, <1>3, <1>4, <1>5 DEF ContentInv, PagesOfDb
<1> QED BY <1>7, <1>8, <1>9 DEF ContentInv

\* No point of the chain a capture adds to is at or past the new item.
LEMMA AddedPoint ==
  ASSUME TypeInv, Numbers, ChainInv, StateInv,
         NEW it \in Item, NEW c, NEW r, NEW id, Added(it, c, r, id),
         NEW s, NEW d, IsPoint(it.chain, s, d)
  PROVE  s <= it.prev /\ s \in Nat /\ cap # None /\ it.chain = cap.chain
<1>1. s \in Nat
  BY DEF IsPoint, Numbers
<1>2. CASE it.chain = now + 1
  <2>1. now \in Nat /\ ~(now + 1 <= now)
    BY DEF Numbers
  <2>2. \A x \in items : x.chain <= now
    BY DEF ChainInv, Shape
  <2>3. \A m \in manifests : m.chain <= now
    BY DEF StateInv, ManifestsKnown
  <2>4. cap # None => cap.chain <= now
    BY DEF ChainInv, ChainsKnown
  <2> QED BY <1>2, <2>1, <2>2, <2>3, <2>4 DEF IsPoint
<1>3. CASE cap # None /\ it.chain = cap.chain /\ it.prev = Tip.seq
  BY <1>1, <1>3, PointsBelowTip
<1> QED BY <1>2, <1>3 DEF Added, NewItem

\* A capture's item makes up its content with its chain's tip.
LEMMA AddedContent ==
  ASSUME TypeInv, Numbers, ChainInv, ContentInv, StateInv, UNCHANGED <<journalVars, driveVars>>,
         NEW it \in Item, NEW c, NEW r, NEW id, Added(it, c, r, id)
  PROVE  ContentInv'
<1>1. /\ \A o \in items : o.chain = it.chain => o.seq <= it.prev
      /\ it.prev \in Nat /\ it.prev < it.seq
      /\ items' = Pending \cup {it} /\ Pending \subseteq items
  BY AddedAfter DEF Pending
<1>2. UNCHANGED <<cap, manifests>> /\ c \in Contents /\ it.db = c
  BY DEF Added, NewItem, driveVars
<1>3. it.seq \in Nat
  BY DEF Item, ConstantsAssumption, Seqs
<1>4. \A s, d : IsPoint(it.chain, s, d) =>
        s <= it.prev /\ s \in Nat /\ cap # None /\ it.chain = cap.chain
  BY AddedPoint
<1>5. \A ch, s, d : IsPoint(ch, s, d)' =>
        \/ IsPoint(ch, s, d) /\ (ch = it.chain => s < it.seq)
        \/ ch = it.chain /\ s = it.seq /\ d = c
  <2>1. \A ch, s, d : IsPoint(ch, s, d)' =>
          IsPoint(ch, s, d) \/ (ch = it.chain /\ s = it.seq /\ d = c)
    BY <1>1, <1>2 DEF IsPoint
  <2>2. \A s, d : IsPoint(it.chain, s, d) => s < it.seq
    BY <1>1, <1>3, <1>4
  <2> QED BY <2>1, <2>2
<1>6. PointsAgree'
  BY <1>3, <1>5 DEF ContentInv, PointsAgree
<1>7. \A s, d : IsPoint(it.chain, s, d) =>
        /\ cap # None /\ CanExtend(c, id) /\ it.prev = Tip.seq /\ it.chain = cap.chain
        /\ DOMAIN d \subseteq DOMAIN c
  <2> SUFFICES ASSUME NEW s, NEW d, IsPoint(it.chain, s, d)
               PROVE  /\ cap # None /\ CanExtend(c, id) /\ it.prev = Tip.seq /\ it.chain = cap.chain
                      /\ DOMAIN d \subseteq DOMAIN c
    OBVIOUS
  <2>1. s <= it.prev /\ s \in Nat /\ cap # None /\ it.chain = cap.chain
    BY <1>4
  <2>2. CanExtend(c, id) /\ it.prev = Tip.seq
    <3>1. it.chain # now + 1
      <4>1. cap.chain <= now /\ now \in Nat
        BY <2>1 DEF ChainInv, ChainsKnown, Numbers
      <4> QED BY <2>1, <4>1
    <3> QED BY <3>1 DEF Added, NewItem
  <2>3. IsPoint(it.chain, Tip.seq, Tip.db)
    BY <2>1, TipPoint
  <2>4. DOMAIN d \subseteq DOMAIN Tip.db
    BY <2>1, <2>2, <2>3 DEF ContentInv, PointsGrow
  <2> QED BY <2>1, <2>2, <2>4 DEF CanExtend
<1>8. PointsGrow'
  <2> SUFFICES ASSUME NEW ch, NEW s, NEW t, NEW d, NEW e,
                      IsPoint(ch, s, d)', IsPoint(ch, t, e)', s <= t
               PROVE  DOMAIN d \subseteq DOMAIN e
    BY DEF PointsGrow
  <2>1. CASE IsPoint(ch, s, d) /\ IsPoint(ch, t, e)
    BY <2>1 DEF ContentInv, PointsGrow
  <2>2. CASE ch = it.chain /\ t = it.seq /\ e = c /\ IsPoint(ch, s, d)
    BY <1>7, <2>2
  <2>3. CASE ch = it.chain /\ s = it.seq /\ d = c /\ IsPoint(ch, t, e)
    BY <1>1, <1>3, <1>4, <2>3
  <2>4. CASE d = c /\ e = c
    BY <2>4
  <2> QED BY <1>5, <2>1, <2>2, <2>3, <2>4
<1>9. SegmentsComplete'
  <2> SUFFICES ASSUME NEW x \in items', NEW s, NEW d, IsPoint(x.chain, s, d)',
                      x.prev <= s, s < x.seq
               PROVE  Carries(x, d)
    BY DEF SegmentsComplete, Carries
  <2>1. CASE x = it
    <3>1. IsPoint(it.chain, s, d)
      BY <1>3, <1>5, <2>1
    <3>2. /\ cap # None /\ CanExtend(c, id) /\ it.prev = Tip.seq /\ it.chain = cap.chain
          /\ s = Tip.seq
      BY <1>1, <1>4, <1>7, <2>1, <3>1
    <3>3. d = Tip.db
      BY <3>1, <3>2, TipPoint DEF ContentInv, PointsAgree
    <3>4. DOMAIN it.pages = Changed(c)
      <4>1. it.chain # now + 1
        BY <3>2 DEF ChainInv, ChainsKnown, Numbers
      <4> QED BY <4>1 DEF Added, NewItem
    <3>5. \A p \in DOMAIN c : p \in Changed(c) \/ (p \in DOMAIN Tip.db /\ c[p] = Tip.db[p])
      BY <1>2, <3>2, ChangedEnough
    <3> QED BY <1>2, <2>1, <3>3, <3>4, <3>5 DEF Carries
  <2>2. CASE x # it
    <3>1. x \in items
      BY <1>1, <2>2
    <3>2. IsPoint(x.chain, s, d)
      <4>1. ~(x.chain = it.chain /\ s = it.seq)
        <5>1. x.chain = it.chain => x.seq <= it.prev /\ x.seq \in Nat
          BY <1>1, <3>1 DEF Numbers
        <5> QED BY <1>1, <1>3, <5>1
      <4> QED BY <1>5, <4>1
    <3> QED BY <3>1, <3>2 DEF ContentInv, SegmentsComplete
  <2> QED BY <2>1, <2>2
<1>10. PagesOfDb'
  <2>1. /\ DOMAIN it.pages \subseteq DOMAIN it.db
        /\ \A p \in DOMAIN it.pages : it.pages[p] = it.db[p]
        /\ it.prev = 0 => DOMAIN it.pages = DOMAIN it.db
    <3>1. CASE it.pages = c
      BY <1>2, <3>1
    <3>2. CASE /\ cap # None /\ it.prev = Tip.seq
               /\ DOMAIN it.pages = Changed(c) /\ \A p \in Changed(c) : it.pages[p] = c[p]
      <4>1. Changed(c) \subseteq DOMAIN c
        BY DEF Changed, SegmentRange
      <4>2. it.prev # 0
        BY <3>2, TipAbove DEF Numbers
      <4> QED BY <1>2, <3>2, <4>1, <4>2
    <3> QED BY <3>1, <3>2 DEF Added, NewItem
  <2> QED BY <1>1, <2>1 DEF ContentInv, PagesOfDb
<1> QED BY <1>6, <1>8, <1>9, <1>10 DEF ContentInv
-----------------------------------------------------------------------------
(* The steps, sorted by what they do to items, state and manifests.          *)

\* A step that leaves the items, or drops the state.
Quiet == /\ UNCHANGED <<items, now, manifests>>
         /\ cap' \in {cap, None}
         /\ \/ mem' \in {mem, None}
            \/ mem # None /\ mem.job = "capture" /\ mem'.job = "capture" /\ mem'.cap = mem.cap
            \/ mem'.job = "discard"

\* Every step is a capture, a merge, a manifest, a change of an item's files,
\* the saving of the state, the end of a committed item or of a discarded one, a
\* sweep, or leaves all of this.
LEMMA StepKinds ==
  ASSUME TypeInv, Numbers, ChainInv, [Next]_vars
  PROVE  \/ /\ UNCHANGED <<journalVars, driveVars>>
            /\ \E it \in Item, c \in Contents, r \in Recs, id \in StoreIds : Added(it, c, r, id)
         \/ \E a, b \in Pending : \E R, rest : MergesRun(R, a, b, rest)
         \/ \E it \in items : PutManifest(it)
         \/ /\ mem = None /\ UNCHANGED <<cap, mem, now, manifests>>
            /\ \E it \in items, too \in Item : Touched(it, too)
         \/ SaveState /\ manifests' = manifests
         \/ \E it \in items : FinishDelete(it)
         \/ DiscardVictim
         \/ Sweep /\ manifests' = manifests
         \/ Quiet
<1>1. CASE Outbox
  <2>0. UNCHANGED <<journalVars, driveVars>> /\ manifests' = manifests
    BY <1>1 DEF Outbox, driveVars
  <2>1. CASE Capture
    BY <2>0, <2>1, CaptureAdds
  <2>2. CASE SaveIndex
    <3>1. mem \in [job : {"capture"}, saved : BOOLEAN, cap : CaptureState]
      BY <2>2 DEF SaveIndex, TypeInv, TypeOK, OutboxTypeOK
    <3>2. mem'.job = "capture" /\ mem'.cap = mem.cap
      BY <2>2, <3>1 DEF SaveIndex
    <3> QED BY <2>0, <2>2, <3>2 DEF SaveIndex, Quiet
  <2>3. CASE \E a, b \in Pending, left \in Seqs : Coalesce(NotMergeable, a, b, left)
    BY <2>0, <2>3, CoalesceMerges
  <2> QED BY <1>1, <2>0, <2>1, <2>2, <2>3 DEF Outbox
<1>2. CASE Upload
  <2>1. PICK it \in items :
          \/ StartItem(it)
          \/ \E k \in Kinds, kept \in BOOLEAN : SendFile(it, k, kept)
          \/ PutManifest(it)
          \/ RecordCommit(it)
          \/ FinishDropState(it)
          \/ FinishDelete(it)
    BY <1>2 DEF Upload
  <2>2. CASE \E k \in Kinds, kept \in BOOLEAN : SendFile(it, k, kept)
    <3>1. mem = None /\ manifests' = manifests
      BY <2>2 DEF SendFile, Uploading
    <3> QED BY <2>2, <3>1, TouchSteps
  <2>3. CASE StartItem(it) \/ RecordCommit(it) \/ FinishDropState(it)
    BY <2>3 DEF StartItem, RecordCommit, FinishDropState, outboxVars, driveVars, Quiet
  <2> QED BY <2>1, <2>2, <2>3
<1>3. CASE DiscardBegin
  <2>1. PICK it \in items : Discard(it)
    BY <1>3 DEF DiscardBegin, DiscardGap, DiscardMissing, DiscardCorrupt,
                DiscardRefused, DiscardUnmergeable
  <2>2. mem'.job = "discard"
    BY <2>1 DEF Discard
  <2> QED BY <2>1, <2>2 DEF Discard, driveVars, Quiet
<1>4. CASE DiscardDropState
  <2>1. mem # None /\ mem.job = "discard"
    BY <1>4 DEF DiscardDropState
  <2>2. mem \in [job : {"discard"}, chain : Chains, dropped : BOOLEAN,
                 victims : SUBSET (Chains \X Seqs)]
    BY <2>1 DEF TypeInv, TypeOK, OutboxTypeOK
  <2>3. mem'.job = "discard"
    BY <1>4, <2>2 DEF DiscardDropState
  <2> QED BY <1>4, <2>3 DEF DiscardDropState, driveVars, Quiet
<1>5. CASE Faults
  <2>1. CASE (Crash \/ LoseIndex \/ LoseState) /\ UNCHANGED <<journalVars, driveVars>>
    BY <2>1 DEF Crash, LoseIndex, LoseState, driveVars, Quiet
  <2>2. CASE (\E it \in items, k \in Kinds : LoseFile(it, k) \/ CorruptFile(it, k))
             /\ UNCHANGED <<journalVars, driveVars>>
    <3>1. mem = None /\ manifests' = manifests
      BY <2>2 DEF LoseFile, CorruptFile, driveVars
    <3> QED BY <2>2, <3>1, TouchSteps
  <2>3. CASE LoseJournal \/ \E it \in items, k \in Kinds : Mismatch(it, k)
    BY <2>3 DEF LoseJournal, Mismatch, driveVars, Quiet
  <2> QED BY <1>5, <2>1, <2>2, <2>3 DEF Faults, OutboxDamage
<1>6. CASE UNCHANGED vars
  BY <1>6 DEF vars, outboxVars, driveVars, Quiet
<1> QED BY <1>1, <1>2, <1>3, <1>4, <1>5, <1>6 DEF Next

\* What a manifest says of its item.
LEMMA ManifestFields ==
  ASSUME NEW it
  PROVE  LET m == ManifestOf(it)
         IN  m.chain = it.chain /\ m.seq = it.seq /\ m.at = it.at /\ m.db = it.db
BY DEF ManifestOf

\* ContentInv is inductive, given StateInv.
LEMMA ContentInvStep ==
  ASSUME TypeInv, TypeInv', ChainInv, ContentInv, StateInv, [Next]_vars
  PROVE  ContentInv'
<1>0. Numbers
  BY NumbersType
<1>a. \A x \in items : Same(x, x)
  BY DEF Same
<1>1. CASE /\ UNCHANGED <<journalVars, driveVars>>
           /\ \E it \in Item, c \in Contents, r \in Recs, id \in StoreIds : Added(it, c, r, id)
  BY <1>0, <1>1, AddedContent
<1>2. CASE \E a, b \in Pending : \E R, rest : MergesRun(R, a, b, rest)
  BY <1>0, <1>2, MergedContentInv
<1>3. CASE \E it \in items : PutManifest(it)
  <2>1. PICK it \in items : PutManifest(it)
    BY <1>3
  <2>2. UNCHANGED <<items, cap>> /\ manifests' = manifests \cup {ManifestOf(it)}
    BY <2>1 DEF PutManifest, outboxVars
  <2>3. ManifestOf(it).chain = it.chain /\ ManifestOf(it).seq = it.seq /\ ManifestOf(it).db = it.db
    BY ManifestFields
  <2>4. \A ch, s, d : IsPoint(ch, s, d)' => IsPoint(ch, s, d)
    BY <2>2, <2>3 DEF IsPoint
  <2> QED BY <1>a, <2>2, <2>4, QuietContent
<1>4. CASE \E it \in items, too \in Item : Touched(it, too) /\ UNCHANGED <<cap, manifests>>
  <2>1. PICK it \in items, too \in Item : Touched(it, too) /\ UNCHANGED <<cap, manifests>>
    BY <1>4
  <2>2. Same(it, too) /\ items' = (items \ {it}) \cup {too}
    BY <2>1 DEF Touched
  <2>3. \A ch, s, d : IsPoint(ch, s, d)' => IsPoint(ch, s, d)
    BY <2>1, <2>2 DEF IsPoint, Same
  <2> QED BY <1>a, <2>2, <2>3, QuietContent
<1>5. CASE SaveState /\ manifests' = manifests
  <2>1. items' = items /\ cap' = mem.cap /\ mem # None /\ mem.job = "capture"
    BY <1>5 DEF SaveState
  <2>2. \A ch, s, d : IsPoint(ch, s, d)' => IsPoint(ch, s, d)
    BY <1>5, <2>1 DEF IsPoint, StateInv, MemCaptured
  <2> QED BY <1>a, <2>1, <2>2, QuietContent
<1>6. CASE items' \subseteq items /\ cap' \in {cap, None} /\ manifests' = manifests
  <2>1. \A ch, s, d : IsPoint(ch, s, d)' => IsPoint(ch, s, d)
    BY <1>6 DEF IsPoint
  <2> QED BY <1>6, <1>a, <2>1, QuietContent
<1>7. CASE (\E it \in items : FinishDelete(it)) \/ DiscardVictim \/ Quiet
           \/ (Sweep /\ manifests' = manifests)
  BY <1>6, <1>7 DEF FinishDelete, DiscardVictim, Quiet, Sweep, driveVars, Pending
<1> QED BY <1>0, <1>1, <1>2, <1>3, <1>4, <1>5, <1>7, StepKinds
-----------------------------------------------------------------------------
(* What steps do to the pending items.                                       *)

\* No pending item is reached over by another.
PendingAre == Pending = {it \in items : \A o \in items :
                           o.chain = it.chain => it.seq <= o.prev \/ o.seq <= it.seq}

\* PendingIs, as a state predicate.
LEMMA PendingSet == Numbers /\ Shape => PendingAre
<1> SUFFICES ASSUME Numbers, Shape PROVE PendingAre
  OBVIOUS
<1>1. Pending \subseteq items
  BY DEF Pending
<1> QED BY <1>1, PendingIs DEF PendingAre

\* The same of the next state.
LEMMA PendingNext ==
  ASSUME Numbers', Shape'
  PROVE  Pending' = {it \in items' : \A o \in items' :
                       o.chain = it.chain => it.seq <= o.prev \/ o.seq <= it.seq}
<1>1. Numbers' /\ Shape' => PendingAre'
  BY PendingSet, PTL
<1> QED BY <1>1 DEF PendingAre

\* A capture's item is pending, and no other stops to be.
LEMMA PendingAdded ==
  ASSUME TypeInv, Numbers, Numbers', ChainInv, Shape',
         NEW it \in Item, NEW c, NEW r, NEW id, Added(it, c, r, id)
  PROVE  Pending' = Pending \cup {it}
<1>1. /\ \A o \in items : o.chain = it.chain => o.seq <= it.prev
      /\ it.prev \in Nat /\ it.prev < it.seq /\ items' = Pending \cup {it} /\ Pending \subseteq items
  BY AddedAfter DEF Pending
<1>2. \A x \in items' : x \in Pending' <=>
        \A o \in items' : o.chain = x.chain => x.seq <= o.prev \/ o.seq <= x.seq
  BY PendingNext
<1>3. ASSUME NEW x \in Pending
      PROVE  x \in Pending'
  <2>1. \A o \in items : o.chain = x.chain => x.seq <= o.prev \/ o.seq <= x.seq
    BY PendingIs DEF ChainInv
  <2> QED BY <1>1, <1>2, <2>1
<1>4. it \in Pending'
  <2>1. \A o \in Pending : o.chain = it.chain => o.seq <= it.seq
    BY <1>1 DEF Numbers
  <2> QED BY <1>1, <1>2, <2>1 DEF Numbers
<1>5. Pending' \subseteq items'
  BY PendingNext
<1> QED BY <1>1, <1>3, <1>4, <1>5

\* A merge puts its item in the place of the run.
LEMMA PendingMerged ==
  ASSUME TypeInv, Numbers, Numbers', ChainInv, Shape',
         NEW a, NEW b, NEW R, NEW rest, MergesRun(R, a, b, rest)
  PROVE  Pending' = (Pending \ R) \cup {Merged(R)}
<1> DEFINE one == Merged(R)
<1>1. Run(R, a, b, NotMergeable)
  BY DEF MergesRun
<1>2. one.chain = b.chain /\ one.seq = b.seq /\ one.prev = a.prev
  BY <1>1, MergedFields
<1>3. /\ items' = (Pending \ R) \cup {one} \cup rest /\ rest \subseteq R
      /\ a \in items /\ b \in items /\ Pending \subseteq items
      /\ \A x \in rest : x \in items /\ x.chain = b.chain /\ a.seq <= x.seq /\ x.seq < b.seq
  BY <1>1 DEF MergesRun, Run, Pending
<1>4. \A x \in items' : x \in Pending' <=>
        \A o \in items' : o.chain = x.chain => x.seq <= o.prev \/ o.seq <= x.seq
  BY PendingNext
<1>5. Pending' \subseteq items'
  BY PendingNext
<1>6. \A x \in Pending \ R : x.chain = b.chain =>
        \/ x.seq < a.seq /\ x.seq <= a.prev
        \/ b.seq < x.seq /\ b.seq <= x.prev
  BY <1>1, RunApart
<1>7. a.prev < a.seq /\ a.seq <= b.seq
  BY <1>1, <1>3 DEF ChainInv, Shape, Run
<1> HIDE DEF one
<1>8. ASSUME NEW x \in Pending \ R
      PROVE  x \in Pending'
  <2>1. \A o \in items : o.chain = x.chain => x.seq <= o.prev \/ o.seq <= x.seq
    BY PendingIs DEF ChainInv
  <2>2. one.chain = x.chain => x.seq <= one.prev \/ one.seq <= x.seq
    BY <1>2, <1>3, <1>6 DEF Numbers
  <2>3. \A o \in items' : o \in items \/ o = one
    BY <1>3
  <2> QED BY <1>3, <1>4, <2>1, <2>2, <2>3
<1>9. one \in Pending'
  <2> SUFFICES ASSUME NEW o \in items', o.chain = one.chain
               PROVE  one.seq <= o.prev \/ o.seq <= one.seq
    BY <1>3, <1>4
  <2>1. CASE o = one
    BY <1>2, <1>3, <2>1 DEF Numbers
  <2>2. CASE o \in rest
    BY <1>2, <1>3, <2>2 DEF Numbers
  <2>3. CASE o \in Pending \ R
    <3>1. \/ o.seq < a.seq
          \/ b.seq <= o.prev
      BY <1>2, <1>6, <2>3
    <3>2. o \in items
      BY <1>3, <2>3
    <3> QED BY <1>2, <1>3, <1>7, <3>1, <3>2 DEF Numbers
  <2> QED BY <1>3, <2>1, <2>2, <2>3
<1>10. \A x \in rest : x \notin Pending'
  <2> SUFFICES ASSUME NEW x \in rest PROVE ~(x.seq <= one.prev \/ one.seq <= x.seq)
    BY <1>2, <1>3, <1>4
  <2>1. x \in items /\ a.seq <= x.seq /\ x.seq < b.seq
    BY <1>3
  <2> QED BY <1>2, <1>3, <1>7, <2>1 DEF Numbers
<1>11. \A x \in rest : x \notin Pending \ R
  BY <1>3
<1> QED BY <1>3, <1>5, <1>8, <1>9, <1>10 DEF one

\* A sweep leaves the pending items pending.
LEMMA PendingSwept ==
  ASSUME Numbers, Numbers', ChainInv, Shape', items' = Pending
  PROVE  Pending' = Pending
<1>1. Pending \subseteq items /\ \A x \in Pending : \A o \in items :
        o.chain = x.chain => x.seq <= o.prev \/ o.seq <= x.seq
  BY PendingIs DEF ChainInv, Pending
<1>2. Pending' = {it \in items' : \A o \in items' :
                    o.chain = it.chain => it.seq <= o.prev \/ o.seq <= it.seq}
  BY PendingNext
<1> QED BY <1>1, <1>2

\* A change of files leaves pending what was pending.
LEMMA TouchedPending ==
  ASSUME Numbers, Numbers', ChainInv, Shape', NEW it \in items, NEW too, Touched(it, too)
  PROVE  /\ \A x \in Pending : \E y \in Pending' : Same(x, y)
         /\ \A y \in Pending' : \E x \in Pending : Same(x, y)
<1>1. Same(it, too) /\ items' = (items \ {it}) \cup {too}
  BY DEF Touched
<1>2. /\ \A x \in items : \E y \in items' : Same(x, y)
      /\ \A y \in items' : \E x \in items : Same(x, y)
  BY <1>1 DEF Same
<1>3. ASSUME NEW x \in items, NEW y \in items', Same(x, y)
      PROVE  x \in Pending <=> y \in Pending'
  <2>1. x \in Pending <=> \A o \in items : o.chain = x.chain => x.seq <= o.prev \/ o.seq <= x.seq
    BY PendingIs DEF ChainInv
  <2>2. y \in Pending' <=> \A o \in items' : o.chain = y.chain => y.seq <= o.prev \/ o.seq <= y.seq
    BY PendingNext
  <2> QED BY <1>2, <1>3, <2>1, <2>2 DEF Same
<1>4. Pending' \subseteq items' /\ Pending \subseteq items
  BY PendingNext DEF Pending
<1> QED BY <1>2, <1>3, <1>4

\* Every item of a run goes on from no earlier than its first.
LEMMA RunStart ==
  ASSUME Numbers, ChainInv, NEW begun, NEW a, NEW b, NEW R, Run(R, a, b, begun), NEW c \in R
  PROVE  a.prev <= c.prev
<1>1. a \in items /\ c \in items /\ a.prev < a.seq
  BY DEF Run, Pending, ChainInv, Shape
<1>2. CASE c = a
  BY <1>1, <1>2 DEF Numbers
<1>3. CASE c # a
  <2>1. PICK d \in R : d.seq = c.prev
    BY <1>3 DEF Run
  <2>2. a.seq <= d.seq
    BY DEF Run
  <2> QED BY <1>1, <2>1, <2>2 DEF Numbers
<1> QED BY <1>2, <1>3
-----------------------------------------------------------------------------
(* StateInv is inductive.                                                    *)

\* Every item is still there or lies inside one that is, taken no earlier.
Kept == \A x \in items : \E y \in items' :
  /\ y.chain = x.chain /\ y.prev <= x.prev /\ x.seq <= y.seq /\ x.at <= y.at
  /\ y.seq = x.seq => y.db = x.db

\* A merge keeps every item.
LEMMA MergeKeeps ==
  ASSUME TypeInv, Numbers, ChainInv, NEW a, NEW b, NEW R, NEW rest, MergesRun(R, a, b, rest)
  PROVE  Kept
<1> DEFINE one == Merged(R)
<1>1. Run(R, a, b, NotMergeable)
  BY DEF MergesRun
<1>2. /\ one.chain = b.chain /\ one.seq = b.seq /\ one.prev = a.prev /\ one.at = b.at
      /\ one.db = b.db
  BY <1>1, MergedFields
<1>3. items' = (Pending \ R) \cup {one} \cup rest /\ b \in items /\ a \in items
  BY <1>1 DEF MergesRun, Run, Pending
<1> HIDE DEF one
<1> SUFFICES ASSUME NEW x \in items
             PROVE  \E y \in items' :
                      /\ y.chain = x.chain /\ y.prev <= x.prev /\ x.seq <= y.seq /\ x.at <= y.at
                      /\ y.seq = x.seq => y.db = x.db
  BY DEF Kept
<1>4. PICK o \in Pending : /\ o.chain = x.chain /\ o.prev <= x.prev /\ x.seq <= o.seq
                           /\ x.at <= o.at
                           /\ o.seq = x.seq => o = x
  BY PendingCover
<1>5. CASE o \notin R
  BY <1>3, <1>4, <1>5
<1>6. CASE o \in R
  <2>1. o \in items /\ o.chain = b.chain /\ o.seq <= b.seq /\ a.prev <= o.prev
    BY <1>1, <1>4, <1>6, RunStart DEF Run, Pending
  <2>2. o.at <= b.at
    <3>1. CASE o = b
      BY <1>3, <3>1 DEF Numbers
    <3>2. CASE o # b
      <4>1. o.seq < b.seq
        BY <1>3, <2>1, <3>2 DEF Numbers, ChainInv, NamesUnique
      <4> QED BY <1>3, <2>1, <4>1 DEF ChainInv, Nested
    <3> QED BY <3>1, <3>2
  <2>3. b.seq = x.seq => b = x
    <3>1. b.chain = x.chain
      BY <1>4, <2>1
    <3> QED BY <1>3, <3>1 DEF ChainInv, NamesUnique
  <2> QED BY <1>2, <1>3, <1>4, <2>1, <2>2, <2>3 DEF Numbers
<1> QED BY <1>5, <1>6

\* A capture, a sweep and a change of files keep every item.
LEMMA PendingKeeps ==
  ASSUME TypeInv, Numbers, ChainInv, Pending \subseteq items'
  PROVE  Kept
<1>1. \A x \in items : \E o \in Pending :
        /\ o.chain = x.chain /\ o.prev <= x.prev /\ x.seq <= o.seq /\ x.at <= o.at
        /\ o.seq = x.seq => o = x
  BY PendingCover
<1> QED BY <1>1 DEF Kept

\* A change of files keeps every item.
LEMMA TouchKeeps ==
  ASSUME Numbers, NEW it \in items, NEW too, Touched(it, too)
  PROVE  Kept
<1>1. \A x \in items : \E y \in items' : Same(x, y)
  BY DEF Touched, Same
<1>2. \A x \in items : x.seq \in Nat /\ x.prev \in Nat /\ x.at \in Nat
  BY DEF Numbers
<1>3. \A x \in items : x.prev <= x.prev /\ x.seq <= x.seq /\ x.at <= x.at
  BY <1>2
<1> QED BY <1>1, <1>3 DEF Kept, Same

\* The items of capture.json's chain outlive a committed item that goes, except
\* one at or before the state; those of a discarded chain are of another chain.
LEMMA GoneBehind ==
  ASSUME TypeInv, Numbers, ChainInv, InflightInv, cap # None,
         (\E it \in items : FinishDelete(it)) \/ DiscardVictim,
         NEW x \in items, x.chain = cap.chain, x \notin items'
  PROVE  x.seq <= cap.seq /\ IsCommitted(x) /\ items' = items \ {x}
<1>1. CASE DiscardVictim
  <2>1. mem # None /\ mem.job = "discard" /\ mem.dropped
    BY <1>1 DEF DiscardVictim
  <2>2. Name(x) \in mem.victims
    BY <1>1 DEF DiscardVictim
  <2>3. x.chain = mem.chain
    BY <2>1, <2>2 DEF InflightInv, VictimsForgotten, Name
  <2> QED BY <2>1, <2>3 DEF InflightInv, VictimsForgotten
<1>2. CASE \E it \in items : FinishDelete(it)
  <2>1. FinishDelete(x)
    BY <1>2 DEF FinishDelete
  <2>2. ~(x.seq > cap.seq) /\ IsCommitted(x) /\ items' = items \ {x}
    BY <2>1 DEF FinishDelete, StateBehind
  <2> QED BY <2>2 DEF Numbers
<1> QED BY <1>1, <1>2

\* Neither a manifest nor an item is past the tip of capture.json's chain.
LEMMA ManifestsBehindStep ==
  ASSUME TypeInv, Numbers, Numbers', ChainInv, InflightInv, StateInv, [Next]_vars
  PROVE  ManifestsBehind'
<1>1. ASSUME Kept, UNCHANGED <<cap, manifests>> PROVE ManifestsBehind'
  <2> SUFFICES ASSUME cap # None, NEW m \in manifests, m.chain = cap.chain, ~(m.seq <= cap.seq)
               PROVE  \E it \in items' : it.chain = m.chain /\ m.seq <= it.seq
    BY <1>1 DEF ManifestsBehind
  <2>1. PICK x \in items : x.chain = m.chain /\ m.seq <= x.seq
    BY DEF StateInv, ManifestsBehind
  <2>2. PICK y \in items' : y.chain = x.chain /\ x.seq <= y.seq
    BY <1>1 DEF Kept
  <2> QED BY <2>1, <2>2 DEF Numbers
<1>2. CASE \E it \in Item, c \in Contents, r \in Recs, id \in StoreIds :
             Added(it, c, r, id) /\ UNCHANGED <<journalVars, driveVars>>
  BY <1>1, <1>2, AddedAfter, PendingKeeps DEF Added, driveVars
<1>3. CASE \E a, b \in Pending : \E R, rest : MergesRun(R, a, b, rest)
  BY <1>1, <1>3, MergeKeeps DEF MergesRun, driveVars
<1>4. CASE \E it \in items : PutManifest(it)
  <2>1. PICK it \in items : PutManifest(it)
    BY <1>4
  <2>2. UNCHANGED <<items, cap>> /\ manifests' = manifests \cup {ManifestOf(it)}
        /\ ManifestOf(it).chain = it.chain /\ ManifestOf(it).seq = it.seq
    BY <2>1, ManifestFields DEF PutManifest, outboxVars
  <2> QED BY <2>2 DEF StateInv, ManifestsBehind, Numbers
<1>5. CASE \E it \in items, too \in Item : Touched(it, too) /\ UNCHANGED <<cap, manifests>>
  BY <1>1, <1>5, TouchKeeps
<1>6. CASE SaveState /\ manifests' = manifests
  <2>1. cap' = mem.cap /\ mem # None /\ mem.job = "capture"
    BY <1>6 DEF SaveState
  <2> QED BY <1>6, <2>1 DEF StateInv, MemCaptured, ManifestsBehind
<1>7. CASE (\E it \in items : FinishDelete(it)) \/ DiscardVictim
  <2>1. UNCHANGED <<cap, manifests>>
    BY <1>7 DEF FinishDelete, DiscardVictim, driveVars
  <2> SUFFICES ASSUME cap # None, NEW m \in manifests, m.chain = cap.chain, ~(m.seq <= cap.seq)
               PROVE  \E it \in items' : it.chain = m.chain /\ m.seq <= it.seq
    BY <2>1 DEF ManifestsBehind
  <2>2. PICK x \in items : x.chain = m.chain /\ m.seq <= x.seq
    BY DEF StateInv, ManifestsBehind
  <2>3. ~(x.seq <= cap.seq)
    BY <2>2 DEF Numbers
  <2> QED BY <1>7, <2>2, <2>3, GoneBehind
<1>8. CASE Sweep /\ manifests' = manifests
  BY <1>1, <1>8, PendingKeeps DEF Sweep
<1>9. CASE Quiet
  BY <1>9 DEF Quiet, StateInv, ManifestsBehind
<1> QED BY <1>2, <1>3, <1>4, <1>5, <1>6, <1>7, <1>8, <1>9, StepKinds

\* The state's item waits or is on Drive.
LEMMA CapBackedStep ==
  ASSUME TypeInv, Numbers, Numbers', ChainInv, InflightInv, StateInv, JournalInv,
         entries \subseteq folders, [Next]_vars
  PROVE  CapBacked'
<1>1. ASSUME Kept, cap' = cap, manifests \subseteq manifests' PROVE CapBacked'
  <2> SUFFICES ASSUME cap # None
               PROVE  \/ \E it \in items' : it.chain = cap.chain /\ it.prev < cap.seq /\ cap.seq <= it.seq
                      \/ \E m \in manifests' : m.chain = cap.chain /\ cap.seq <= m.seq
    BY <1>1 DEF CapBacked
  <2>1. CASE \E m \in manifests : m.chain = cap.chain /\ cap.seq <= m.seq
    BY <1>1, <2>1
  <2>2. CASE \E it \in items : it.chain = cap.chain /\ it.prev < cap.seq /\ cap.seq <= it.seq
    <3>1. PICK x \in items : x.chain = cap.chain /\ x.prev < cap.seq /\ cap.seq <= x.seq
      BY <2>2
    <3>2. PICK y \in items' : y.chain = x.chain /\ y.prev <= x.prev /\ x.seq <= y.seq
      BY <1>1 DEF Kept
    <3>3. y.prev < cap.seq /\ cap.seq <= y.seq
      BY <3>1, <3>2 DEF Numbers
    <3> QED BY <3>1, <3>2, <3>3
  <2> QED BY <2>1, <2>2 DEF StateInv, CapBacked
<1>2. CASE \E it \in Item, c \in Contents, r \in Recs, id \in StoreIds :
             Added(it, c, r, id) /\ UNCHANGED <<journalVars, driveVars>>
  BY <1>1, <1>2, AddedAfter, PendingKeeps DEF Added, driveVars
<1>3. CASE \E a, b \in Pending : \E R, rest : MergesRun(R, a, b, rest)
  BY <1>1, <1>3, MergeKeeps DEF MergesRun, driveVars
<1>4. CASE \E it \in items : PutManifest(it)
  BY <1>4 DEF PutManifest, outboxVars, StateInv, CapBacked
<1>5. CASE \E it \in items, too \in Item : Touched(it, too) /\ UNCHANGED <<cap, manifests>>
  BY <1>1, <1>5, TouchKeeps
<1>6. CASE SaveState /\ manifests' = manifests
  <2>1. cap' = mem.cap /\ mem # None /\ mem.job = "capture" /\ items' = items
    BY <1>6 DEF SaveState
  <2>2. PICK x \in items : x.chain = mem.cap.chain /\ x.seq = mem.cap.seq
    BY <2>1 DEF StateInv, MemCaptured
  <2>3. x.prev < x.seq /\ x.seq <= x.seq
    BY DEF ChainInv, Shape, Numbers
  <2> QED BY <2>1, <2>2, <2>3 DEF CapBacked
<1>7. CASE (\E it \in items : FinishDelete(it)) \/ DiscardVictim
  <2>1. UNCHANGED <<cap, manifests>>
    BY <1>7 DEF FinishDelete, DiscardVictim, driveVars
  <2> SUFFICES ASSUME cap # None
               PROVE  \/ \E it \in items' : it.chain = cap.chain /\ it.prev < cap.seq /\ cap.seq <= it.seq
                      \/ \E m \in manifests : m.chain = cap.chain /\ cap.seq <= m.seq
    BY <2>1 DEF CapBacked
  <2> SUFFICES ASSUME NEW x \in items, x.chain = cap.chain, x.prev < cap.seq, cap.seq <= x.seq,
                      x \notin items'
               PROVE  \E m \in manifests : m.chain = cap.chain /\ cap.seq <= m.seq
    BY DEF StateInv, CapBacked
  <2>2. IsCommitted(x)
    BY <1>7, GoneBehind
  <2>3. x.seq <= committed[x.chain] /\ x.chain \in Chains /\ committed[x.chain] \in Nat
        /\ x.seq \in Nat /\ 1 <= x.seq /\ cap.seq \in Nat
    BY <2>2 DEF IsCommitted, Numbers
  <2>c. committed[x.chain] > 0
    BY <2>3
  <2>4. x.chain \in folders
    BY <2>3, <2>c DEF JournalInv, EntriesKnown
  <2>5. PICK m \in manifests : m.chain = x.chain /\ m.seq = committed[x.chain]
    BY <2>c, <2>4 DEF JournalInv, JournalBacked
  <2> QED BY <2>3, <2>5
<1>8. CASE Sweep /\ manifests' = manifests
  BY <1>1, <1>8, PendingKeeps DEF Sweep
<1>9. CASE Quiet
  BY <1>9 DEF Quiet, StateInv, CapBacked
<1> QED BY <1>2, <1>3, <1>4, <1>5, <1>6, <1>7, <1>8, <1>9, StepKinds

\* From the state to the tip, each item goes on from one before it.
LEMMA NoGapSinceStep ==
  ASSUME TypeInv, Numbers, Numbers', ChainInv, Shape', InflightInv, StateInv, [Next]_vars
  PROVE  NoGapSince'
<1>0. Pending \subseteq items
  BY DEF Pending
<1>1. ASSUME Pending' = Pending, cap' = cap PROVE NoGapSince'
  BY <1>1 DEF StateInv, NoGapSince
<1>2. CASE \E it \in Item, c \in Contents, r \in Recs, id \in StoreIds : Added(it, c, r, id)
  <2>1. PICK it \in Item, c \in Contents, r \in Recs, id \in StoreIds : Added(it, c, r, id)
    BY <1>2
  <2>2. Pending' = Pending \cup {it} /\ cap' = cap
    BY <2>1, PendingAdded DEF Added
  <2> SUFFICES ASSUME cap # None, NEW y \in Pending', y.chain = cap.chain, cap.seq < y.seq,
                      ~(y.prev <= cap.seq)
               PROVE  \E d \in Pending : d.chain = y.chain /\ d.seq = y.prev
    BY <2>2 DEF NoGapSince
  <2>3. CASE y \in Pending
    BY <2>3 DEF StateInv, NoGapSince
  <2>4. CASE y = it
    <3>1. it.chain # now + 1
      BY <2>4 DEF ChainInv, ChainsKnown, Numbers
    <3>2. it.prev = Tip.seq
      BY <2>1, <3>1 DEF Added, NewItem
    <3>3. cap.seq <= cap.seq
      BY DEF Numbers
    <3> QED BY <2>4, <3>2, <3>3, TipAbove
  <2> QED BY <2>2, <2>3, <2>4
<1>3. CASE \E a, b \in Pending : \E R, rest : MergesRun(R, a, b, rest)
  <2>0. PICK a, b \in Pending : \E R, rest : MergesRun(R, a, b, rest)
    BY <1>3
  <2>1. PICK R, rest : a \in Pending /\ b \in Pending /\ MergesRun(R, a, b, rest)
    BY <2>0
  <2> DEFINE one == Merged(R)
  <2>2. Pending' = (Pending \ R) \cup {one} /\ cap' = cap /\ Run(R, a, b, NotMergeable)
    BY <2>1, PendingMerged DEF MergesRun
  <2>3. one.chain = b.chain /\ one.seq = b.seq /\ one.prev = a.prev
    BY <2>2, MergedFields
  <2>4. a \in items /\ b \in items /\ a.chain = b.chain /\ a.seq <= b.seq /\ a.prev < a.seq
    BY <1>0, <2>2 DEF Run, ChainInv, Shape
  <2> HIDE DEF one
  <2> SUFFICES ASSUME cap # None, NEW y \in Pending', y.chain = cap.chain, cap.seq < y.seq,
                      ~(y.prev <= cap.seq)
               PROVE  \E d \in Pending' : d.chain = y.chain /\ d.seq = y.prev
    BY <2>2 DEF NoGapSince
  <2>5. CASE y = one
    <3>1. cap.seq < a.seq
      BY <2>3, <2>4, <2>5 DEF Numbers
    <3>2. PICK d \in Pending : d.chain = a.chain /\ d.seq = a.prev
      BY <2>3, <2>4, <2>5, <3>1 DEF StateInv, NoGapSince
    <3>3. d \notin R
      BY <1>0, <2>2, <2>4, <3>2 DEF Run, Numbers
    <3> QED BY <2>2, <2>3, <2>4, <2>5, <3>2, <3>3
  <2>6. CASE y \in Pending \ R
    <3>1. PICK d \in Pending : d.chain = y.chain /\ d.seq = y.prev
      BY <2>6 DEF StateInv, NoGapSince
    <3>2. CASE d \in R
      <4>1. y.chain = b.chain /\ a.seq <= y.prev /\ y.prev <= b.seq
        BY <2>2, <3>1, <3>2 DEF Run
      <4>2. y.seq < a.seq \/ b.seq <= y.prev
        BY <2>2, <2>6, <4>1, RunApart
      <4>3. y \in items /\ y.prev < y.seq
        BY <1>0, <2>6 DEF ChainInv, Shape
      <4>4. y.prev = b.seq
        BY <2>4, <4>1, <4>2, <4>3 DEF Numbers
      <4> QED BY <2>2, <2>3, <4>1, <4>4
    <3> QED BY <2>2, <3>1, <3>2
  <2> QED BY <2>2, <2>5, <2>6
<1>4. CASE \E it \in items : PutManifest(it)
  BY <1>1, <1>4 DEF PutManifest, outboxVars, Pending, Superseded
<1>5. CASE \E it \in items, too \in Item : Touched(it, too) /\ UNCHANGED <<cap, manifests>>
  <2>1. /\ \A x \in Pending : \E y \in Pending' : Same(x, y)
        /\ \A y \in Pending' : \E x \in Pending : Same(x, y)
    BY <1>5, TouchedPending
  <2> SUFFICES ASSUME cap # None, NEW y \in Pending', y.chain = cap.chain, cap.seq < y.seq,
                      ~(y.prev <= cap.seq)
               PROVE  \E d \in Pending' : d.chain = y.chain /\ d.seq = y.prev
    BY <1>5 DEF NoGapSince
  <2>2. PICK x \in Pending : Same(x, y)
    BY <2>1
  <2>3. PICK d \in Pending : d.chain = x.chain /\ d.seq = x.prev
    BY <2>2 DEF Same, StateInv, NoGapSince
  <2> QED BY <2>1, <2>2, <2>3 DEF Same
<1>6. CASE SaveState
  <2>1. cap' = mem.cap /\ mem # None /\ mem.job = "capture" /\ items' = items
    BY <1>6 DEF SaveState
  <2>2. \A x \in items : x.chain = mem.cap.chain => x.seq <= mem.cap.seq
    BY <2>1 DEF StateInv, MemCaptured
  <2>3. Pending' \subseteq items'
    BY PendingNext
  <2>4. cap' # None => cap'.seq \in Nat /\ \A x \in items' : x.seq \in Nat
    BY DEF Numbers
  <2>5. \A x \in items' : x.chain = cap'.chain => x.seq <= cap'.seq
    BY <2>1, <2>2
  <2>6. cap' # None => \A x \in items' : x.chain = cap'.chain => ~(cap'.seq < x.seq)
    BY <2>4, <2>5
  <2> QED BY <2>3, <2>6 DEF NoGapSince
<1>7. CASE (\E it \in items : FinishDelete(it)) \/ DiscardVictim
  <2>1. cap' = cap /\ items' \subseteq items
    BY <1>7 DEF FinishDelete, DiscardVictim
  <2> SUFFICES ASSUME cap # None, NEW y \in Pending', y.chain = cap.chain, cap.seq < y.seq,
                      ~(y.prev <= cap.seq)
               PROVE  \E d \in Pending' : d.chain = y.chain /\ d.seq = y.prev
    BY <2>1 DEF NoGapSince
  <2>2. /\ y \in items'
        /\ \A o \in items' : o.chain = y.chain => y.seq <= o.prev \/ o.seq <= y.seq
    BY PendingNext
  <2>3. y \in Pending
    <3> SUFFICES ASSUME NEW o \in items, o.chain = y.chain, o \notin items'
                 PROVE  o.seq <= y.seq
      BY <2>1, <2>2, PendingIs DEF ChainInv
    <3>1. o.seq <= cap.seq
      BY <1>7, GoneBehind
    <3> QED BY <2>1, <2>2, <3>1 DEF Numbers
  <2>4. PICK d \in Pending : d.chain = y.chain /\ d.seq = y.prev
    BY <2>3 DEF StateInv, NoGapSince
  <2>5. d \in items /\ ~(d.seq <= cap.seq)
    BY <1>0, <2>4
  <2>6. d \in items'
    BY <1>7, <2>4, <2>5, GoneBehind
  <2>7. d \in Pending'
    <3>1. \A o \in items' : o.chain = d.chain => d.seq <= o.prev \/ o.seq <= d.seq
      BY <2>1, <2>4, PendingIs DEF ChainInv
    <3> QED BY <2>6, <3>1, PendingNext
  <2> QED BY <2>4, <2>7
<1>8. CASE Sweep
  BY <1>1, <1>8, PendingSwept DEF Sweep
<1>9. CASE Quiet
  <2>1. Pending' = Pending
    BY <1>9 DEF Quiet, Pending, Superseded
  <2> QED BY <1>9, <2>1 DEF Quiet, StateInv, NoGapSince
<1> QED BY <1>2, <1>3, <1>4, <1>5, <1>6, <1>7, <1>8, <1>9, StepKinds

\* While a capture has still to write its state, its item is the chain's last.
LEMMA MemCapturedStep ==
  ASSUME TypeInv, Numbers, Numbers', ChainInv, StateInv, [Next]_vars
  PROVE  MemCaptured'
<1>1. ASSUME NEW it \in Item, NEW c \in Contents, NEW r \in Recs, NEW id \in StoreIds,
             Added(it, c, r, id), UNCHANGED <<journalVars, driveVars>>
      PROVE  MemCaptured'
  <2>1. /\ \A o \in items : o.chain = it.chain => o.seq <= it.prev
        /\ it.prev \in Nat /\ it.prev < it.seq /\ items' = Pending \cup {it} /\ Pending \subseteq items
    BY <1>1, AddedAfter DEF Pending
  <2>2. /\ mem'.cap.chain = it.chain /\ mem'.cap.seq = it.seq /\ mem'.cap.db = it.db
        /\ manifests' = manifests
    BY <1>1 DEF Added, NewItem, driveVars
  <2>3. it.seq \in Nat
    BY <2>1 DEF Numbers
  <2>4. \A o \in items' : o.chain = it.chain => o.seq <= it.seq
    BY <2>1, <2>3 DEF Numbers
  <2>5. \A m \in manifests : m.chain = it.chain => m.seq <= it.seq
    <3> SUFFICES ASSUME NEW m \in manifests, m.chain = it.chain PROVE m.seq <= it.seq
      OBVIOUS
    <3>1. IsPoint(it.chain, m.seq, m.db)
      BY DEF IsPoint
    <3>2. m.seq <= it.prev /\ m.seq \in Nat
      BY <1>1, <3>1, AddedPoint
    <3> QED BY <2>1, <2>3, <3>2
  <2> QED BY <2>1, <2>2, <2>4, <2>5 DEF MemCaptured
<1>2. CASE \E a, b \in Pending : \E R, rest : MergesRun(R, a, b, rest)
  BY <1>2 DEF MergesRun, MemCaptured
<1>3. CASE \E it \in items : PutManifest(it)
  BY <1>3 DEF PutManifest, Uploading, outboxVars, MemCaptured
<1>4. CASE mem = None /\ mem' = mem
  BY <1>4 DEF MemCaptured
<1>5. CASE SaveState
  BY <1>5 DEF SaveState, MemCaptured
<1>6. CASE (\E it \in items : FinishDelete(it)) \/ Sweep
  BY <1>6 DEF FinishDelete, Sweep, MemCaptured
<1>7. CASE DiscardVictim
  <2>1. mem # None /\ mem.job = "discard"
    BY <1>7 DEF DiscardVictim
  <2>2. mem \in [job : {"discard"}, chain : Chains, dropped : BOOLEAN,
                 victims : SUBSET (Chains \X Seqs)]
    BY <2>1 DEF TypeInv, TypeOK, OutboxTypeOK
  <2>3. mem' = None \/ mem'.job = "discard"
    BY <1>7, <2>2 DEF DiscardVictim
  <2> QED BY <2>3 DEF MemCaptured
<1>8. CASE Quiet
  BY <1>8 DEF Quiet, StateInv, MemCaptured
<1> QED BY <1>1, <1>2, <1>3, <1>4, <1>5, <1>6, <1>7, <1>8, StepKinds

\* No manifest is from the future, or older than an item it comes after.
LEMMA ManifestsKnownStep ==
  ASSUME TypeInv, Numbers, Numbers', ChainInv, StateInv, [Next]_vars
  PROVE  ManifestsKnown'
<1>1. ASSUME NEW it \in Item, NEW c \in Contents, NEW r \in Recs, NEW id \in StoreIds,
             Added(it, c, r, id), UNCHANGED <<journalVars, driveVars>>
      PROVE  ManifestsKnown'
  <2>1. /\ it.prev \in Nat /\ it.prev < it.seq /\ items' = Pending \cup {it} /\ Pending \subseteq items
    BY <1>1, AddedAfter DEF Pending
  <2>2. manifests' = manifests /\ now' = now + 1
    BY <1>1 DEF Added, driveVars
  <2>3. it.seq \in Nat
    BY <2>1 DEF Numbers
  <2>4. \A m \in manifests : m.chain <= now + 1 /\ m.at <= now + 1
    BY DEF StateInv, ManifestsKnown, Numbers
  <2>5. \A m \in manifests : m.chain = it.chain => ~(it.seq <= m.seq)
    <3> SUFFICES ASSUME NEW m \in manifests, m.chain = it.chain PROVE ~(it.seq <= m.seq)
      OBVIOUS
    <3>1. IsPoint(it.chain, m.seq, m.db)
      BY DEF IsPoint
    <3>2. m.seq <= it.prev /\ m.seq \in Nat
      BY <1>1, <3>1, AddedPoint
    <3> QED BY <2>1, <2>3, <3>2
  <2> QED BY <2>1, <2>2, <2>4, <2>5 DEF StateInv, ManifestsKnown
<1>2. ASSUME NEW a \in Pending, NEW b \in Pending, NEW R, NEW rest, MergesRun(R, a, b, rest)
      PROVE  ManifestsKnown'
  <2>1. Run(R, a, b, NotMergeable) /\ UNCHANGED <<now, manifests>>
    BY <1>2 DEF MergesRun, driveVars
  <2>2. Merged(R).chain = b.chain /\ Merged(R).seq = b.seq /\ Merged(R).at = b.at
    BY <2>1, MergedFields
  <2>3. items' \subseteq items \cup {Merged(R)} /\ b \in items
    BY <1>2, <2>1 DEF MergesRun, Run, Pending
  <2> QED BY <2>1, <2>2, <2>3 DEF StateInv, ManifestsKnown
<1>3. ASSUME NEW it \in items, PutManifest(it)
      PROVE  ManifestsKnown'
  <2>1. UNCHANGED <<items, now>> /\ manifests' = manifests \cup {ManifestOf(it)}
        /\ ManifestOf(it).chain = it.chain /\ ManifestOf(it).seq = it.seq
        /\ ManifestOf(it).at = it.at
    BY <1>3, ManifestFields DEF PutManifest, outboxVars
  <2>2. it.chain <= now /\ it.at <= now
    BY DEF ChainInv, Shape
  <2>3. ASSUME NEW x \in items, x.chain = it.chain, x.seq <= it.seq
        PROVE  x.at <= it.at
    <3>1. CASE x = it
      BY <3>1 DEF Numbers
    <3>2. CASE x # it
      <4>1. x.seq < it.seq
        BY <2>3, <3>2 DEF ChainInv, NamesUnique, Numbers
      <4> QED BY <2>3, <4>1 DEF ChainInv, Nested
    <3> QED BY <3>1, <3>2
  <2>4. \A m \in manifests' : m.chain <= now /\ m.at <= now
    BY <2>1, <2>2 DEF StateInv, ManifestsKnown
  <2>5. \A m \in manifests', x \in items : (m.chain = x.chain /\ x.seq <= m.seq) => x.at <= m.at
    BY <2>1, <2>3 DEF StateInv, ManifestsKnown
  <2> QED BY <2>1, <2>4, <2>5 DEF ManifestsKnown
<1>4. CASE \E it \in items, too \in Item : Touched(it, too) /\ UNCHANGED <<now, manifests>>
  BY <1>4 DEF Touched, Same, StateInv, ManifestsKnown
<1>5. CASE items' \subseteq items /\ UNCHANGED <<now, manifests>>
  BY <1>5 DEF StateInv, ManifestsKnown
<1>6. CASE (\E it \in items : FinishDelete(it)) \/ DiscardVictim \/ Quiet
           \/ ((SaveState \/ Sweep) /\ manifests' = manifests)
  BY <1>5, <1>6 DEF FinishDelete, DiscardVictim, Quiet, SaveState, Sweep, driveVars, Pending
<1> QED BY <1>1, <1>2, <1>3, <1>4, <1>6, StepKinds

\* A chain the journal knows has its folder.
EntriesOnDrive == entries \subseteq folders

\* No step takes a folder away, and a chain is entered only with its folder.
LEMMA EntriesOnDriveStep == EntriesOnDrive /\ [Next]_vars => EntriesOnDrive'
<1> SUFFICES ASSUME EntriesOnDrive, [Next]_vars PROVE EntriesOnDrive'
  OBVIOUS
<1>1. CASE Outbox
  BY <1>1 DEF Outbox, journalVars, driveVars, EntriesOnDrive
<1>2. CASE Upload
  BY <1>2 DEF Upload, StartItem, SendFile, PutManifest, RecordCommit, FinishDropState,
              FinishDelete, journalVars, driveVars, EntriesOnDrive
<1>3. CASE DiscardBegin
  <2>1. PICK it \in items : Discard(it)
    BY <1>3 DEF DiscardBegin, DiscardGap, DiscardMissing, DiscardCorrupt,
                DiscardRefused, DiscardUnmergeable
  <2> QED BY <2>1 DEF Discard, driveVars, EntriesOnDrive
<1>4. CASE DiscardDropState \/ DiscardVictim
  BY <1>4 DEF DiscardDropState, DiscardVictim, journalVars, driveVars, EntriesOnDrive
<1>5. CASE Faults
  BY <1>5 DEF Faults, Mismatch, LoseJournal, journalVars, driveVars, EntriesOnDrive
<1>6. CASE UNCHANGED vars
  BY <1>6 DEF vars, journalVars, driveVars, EntriesOnDrive
<1> QED BY <1>1, <1>2, <1>3, <1>4, <1>5, <1>6 DEF Next

\* StateInv is inductive.
LEMMA StateInvStep ==
  ASSUME TypeInv, TypeInv', ChainInv, ChainInv', InflightInv, StateInv, JournalInv,
         EntriesOnDrive, [Next]_vars
  PROVE  StateInv'
<1>0. Numbers /\ Numbers'
  <2>1. Numbers
    BY NumbersType
  <2>2. Numbers'
    BY NumbersType, PTL
  <2> QED BY <2>1, <2>2
<1>1. Shape'
  BY DEF ChainInv
<1> QED BY <1>0, <1>1, ManifestsBehindStep, NoGapSinceStep, CapBackedStep, MemCapturedStep,
           ManifestsKnownStep DEF StateInv, EntriesOnDrive
-----------------------------------------------------------------------------
(* What a restore point rebuilds.                                            *)

\* An item's file of a kind is on Drive once.
FilesDistinct ==
  /\ \A f, g \in files \cup sent :
       (f.chain = g.chain /\ f.seq = g.seq /\ f.kind = g.kind) => f = g
  /\ \A m \in manifests : \A f, g \in m.files :
       (f.seq = g.seq /\ f.kind = g.kind) => f = g

\* One file for each name, and every manifest rebuilds its content.
RestoreInv == FilesDistinct /\ RestoreExact

\* No item's file is sent twice.
LEMMA SendFileDistinct ==
  ASSUME TypeInv, Numbers, ChainInv, InflightInv, FilesDistinct, NEW it \in items, NEW k, NEW kept,
         SendFile(it, k, kept)
  PROVE  FilesDistinct'
<1>1. PICK f : /\ sent' = sent \cup {f} /\ f.chain = it.chain /\ f.seq = it.seq /\ f.kind = k
  BY SendFileSends
<1>2. UNCHANGED <<files, manifests>> /\ NextKind(it, k) /\ Uploading(it)
  BY DEF SendFile
<1>3. \A g \in sent : ~(g.chain = it.chain /\ g.seq = it.seq /\ g.kind = k)
  BY <1>2 DEF NextKind, SentKinds, SentOf
<1>4. ~(it.seq <= committed[it.chain])
  BY <1>2 DEF Uploading, IsCommitted
<1>5. \A g \in files : ~(g.chain = it.chain /\ g.seq = it.seq)
  BY <1>4 DEF InflightInv, FilesCommitted
<1> QED BY <1>1, <1>2, <1>3, <1>5 DEF FilesDistinct

\* What PutManifest's manifest names: the chain's files and those of its item.
LEMMA NewManifest ==
  ASSUME TypeInv, Numbers, ChainInv, InflightInv, NEW it \in items, PutManifest(it),
         NEW new, new = ManifestOf(it)
  PROVE  /\ Underway(it) /\ it.chain \in folders
         /\ new.chain = it.chain /\ new.seq = it.seq /\ new.at = it.at /\ new.db = it.db
         /\ \A f \in new.files : \/ f \in files /\ f.chain = it.chain
                                 \/ f \in SentOf(it)
         /\ \A f : (f.kind = "pages" /\ (f \in SentOf(it) \/ (f \in files /\ f.chain = it.chain)))
              => f \in new.files
         /\ \A f \in SentOf(it) : f \in sent /\ f.seq = it.seq /\ f.data = Data(it, f.kind)
         /\ \A k \in Files(it) : \E f \in SentOf(it) : f.kind = k
<1>1. Underway(it) /\ it.chain \in folders /\ Files(it) = SentKinds(it)
  BY UploadingFirst DEF PutManifest
<1>2. new.files = ManifestFiles({f \in files : f.chain = it.chain} \cup SentOf(it))
  BY DEF ManifestOf
<1>3. "pages" # "records"
  OBVIOUS
<1>4. /\ \A f \in new.files : \/ f \in files /\ f.chain = it.chain
                              \/ f \in SentOf(it)
      /\ \A f : (f.kind = "pages" /\ (f \in SentOf(it) \/ (f \in files /\ f.chain = it.chain)))
           => f \in new.files
  BY <1>2, <1>3 DEF ManifestFiles
<1>5. /\ \A f \in SentOf(it) : f \in sent /\ f.seq = it.seq /\ f.data = Data(it, f.kind)
      /\ \A k \in Files(it) : \E f \in SentOf(it) : f.kind = k
  BY <1>1 DEF SentOf, SentKinds, InflightInv, InflightMatches
<1> QED BY <1>1, <1>4, <1>5, ManifestFields

\* A new restore point rebuilds its item's content: the pages the item carries
\* are its own files', the others are as the last committed point has them.
LEMMA PutManifestExact ==
  ASSUME TypeInv, Numbers, ChainInv, InflightInv, ContentInv, RestoreInv, JournalInv,
         NEW it \in items, PutManifest(it), NEW new, new = ManifestOf(it)
  PROVE  Rebuilds(new)
<1>1. /\ Underway(it) /\ it.chain \in folders
      /\ new.chain = it.chain /\ new.seq = it.seq /\ new.db = it.db
      /\ \A f \in new.files : \/ f \in files /\ f.chain = it.chain
                              \/ f \in SentOf(it)
      /\ \A f : (f.kind = "pages" /\ (f \in SentOf(it) \/ (f \in files /\ f.chain = it.chain)))
           => f \in new.files
      /\ \A f \in SentOf(it) : f \in sent /\ f.seq = it.seq /\ f.data = Data(it, f.kind)
      /\ \A k \in Files(it) : \E f \in SentOf(it) : f.kind = k
  BY NewManifest
<1>2. /\ it.seq \in Nat /\ it.chain \in Chains /\ committed[it.chain] \in Nat
      /\ committed[it.chain] < it.seq
  BY <1>1 DEF Numbers, Underway, IsCommitted
<1>3. \A f \in new.files : f.seq \in Nat /\ f.seq <= it.seq
  BY <1>1, <1>2 DEF Numbers, InflightInv, FilesCommitted
<1> SUFFICES ASSUME NEW p \in DOMAIN it.db
             PROVE  \E f \in PageFilesOf(new, p) :
                      /\ \A g \in PageFilesOf(new, p) : g.seq <= f.seq
                      /\ f.data[p] = it.db[p]
  BY <1>1 DEF Rebuilds
<1>4. CASE p \in DOMAIN it.pages
  <2>1. it.pages # << >>
    BY <1>4
  <2>2. PICK f \in SentOf(it) : f.kind = "pages"
    BY <1>1, <2>1 DEF Files
  <2>3. f.data = it.pages /\ f \in new.files /\ f.seq = it.seq
    BY <1>1, <2>2 DEF Data
  <2>4. f \in PageFilesOf(new, p)
    BY <1>4, <2>2, <2>3 DEF PageFilesOf
  <2>5. \A g \in PageFilesOf(new, p) : g.seq <= f.seq
    BY <1>3, <2>3 DEF PageFilesOf
  <2>6. f.data[p] = it.db[p]
    BY <1>4, <2>3 DEF ContentInv, PagesOfDb
  <2> QED BY <2>4, <2>5, <2>6
<1>5. CASE p \notin DOMAIN it.pages
  <2>1. committed[it.chain] > 0 /\ it.prev = committed[it.chain]
    <3>1. ~IsBase(it)
      BY <1>5 DEF IsBase, ContentInv, PagesOfDb
    <3> QED BY <1>1, <3>1 DEF Underway, Continuous
  <2>2. PICK m \in manifests : /\ m.chain = it.chain /\ m.seq = committed[it.chain]
                               /\ m.files = ManifestFiles({f \in files : f.chain = it.chain})
    BY <1>1, <2>1 DEF JournalInv, JournalBacked
  <2>3. IsPoint(it.chain, m.seq, m.db)
    BY <2>2 DEF IsPoint
  <2>4. Carries(it, m.db)
    BY <1>2, <2>1, <2>2, <2>3 DEF ContentInv, SegmentsComplete
  <2>5. p \in DOMAIN m.db /\ it.db[p] = m.db[p]
    BY <1>5, <2>4 DEF Carries
  <2>6. PICK f \in PageFilesOf(m, p) : /\ \A g \in PageFilesOf(m, p) : g.seq <= f.seq
                                       /\ f.data[p] = m.db[p]
    BY <2>5 DEF RestoreInv, RestoreExact, Rebuilds
  <2>7. \A g : (g \in files /\ g.chain = it.chain /\ g.kind = "pages") => g \in m.files
    BY <2>2 DEF ManifestFiles
  <2>8. f \in files /\ f.chain = it.chain /\ f.kind = "pages" /\ p \in DOMAIN f.data
    BY <2>2, <2>6 DEF ManifestFiles, PageFilesOf
  <2>9. f \in PageFilesOf(new, p)
    BY <1>1, <2>8 DEF PageFilesOf
  <2>10. ASSUME NEW g \in PageFilesOf(new, p) PROVE g.seq <= f.seq
    <3>1. g \in new.files /\ g.kind = "pages" /\ p \in DOMAIN g.data
      BY <2>10 DEF PageFilesOf
    <3>2. g \notin SentOf(it)
      BY <1>1, <1>5, <3>1 DEF Data
    <3>3. g \in PageFilesOf(m, p)
      BY <1>1, <2>7, <3>1, <3>2 DEF PageFilesOf
    <3> QED BY <2>6, <3>3
  <2> QED BY <2>5, <2>6, <2>9, <2>10
<1> QED BY <1>4, <1>5

\* The manifests and the journal's files change at four steps only.
LEMMA StepFiles ==
  ASSUME [Next]_vars
  PROVE  \/ \E it \in items, k \in Kinds, kept \in BOOLEAN : SendFile(it, k, kept)
         \/ \E it \in items : PutManifest(it)
         \/ \E it \in items : RecordCommit(it)
         \/ files' \subseteq files /\ sent' \subseteq sent /\ manifests' = manifests
<1>1. CASE Outbox
  BY <1>1 DEF Outbox, journalVars, driveVars
<1>2. CASE Upload
  BY <1>2 DEF Upload, StartItem, FinishDropState, FinishDelete, journalVars, driveVars
<1>3. CASE DiscardBegin
  <2>1. PICK it \in items : Discard(it)
    BY <1>3 DEF DiscardBegin, DiscardGap, DiscardMissing, DiscardCorrupt,
                DiscardRefused, DiscardUnmergeable
  <2> QED BY <2>1 DEF Discard, driveVars
<1>4. CASE DiscardDropState \/ DiscardVictim
  BY <1>4 DEF DiscardDropState, DiscardVictim, journalVars, driveVars
<1>5. CASE Faults
  BY <1>5 DEF Faults, Mismatch, LoseJournal, journalVars, driveVars
<1>6. CASE UNCHANGED vars
  BY <1>6 DEF vars, journalVars, driveVars
<1> QED BY <1>1, <1>2, <1>3, <1>4, <1>5, <1>6 DEF Next

\* RestoreInv is inductive.
LEMMA RestoreInvStep ==
  ASSUME TypeInv, ChainInv, InflightInv, ContentInv, RestoreInv, JournalInv, [Next]_vars
  PROVE  RestoreInv'
<1>0. Numbers
  BY NumbersType
<1>1. CASE \E it \in items, k \in Kinds, kept \in BOOLEAN : SendFile(it, k, kept)
  <2>1. FilesDistinct'
    BY <1>0, <1>1, SendFileDistinct DEF RestoreInv
  <2>2. RestoreExact'
    BY <1>1 DEF SendFile, RestoreInv, RestoreExact, Rebuilds, PageFilesOf
  <2> QED BY <2>1, <2>2 DEF RestoreInv
<1>2. CASE \E it \in items : PutManifest(it)
  <2>1. PICK it \in items : PutManifest(it)
    BY <1>2
  <2>2. PICK new : new = ManifestOf(it)
    OBVIOUS
  <2>3. manifests' = manifests \cup {new} /\ UNCHANGED <<files, sent>>
    BY <2>1, <2>2 DEF PutManifest, journalVars
  <2>4. Rebuilds(new)
    BY <1>0, <2>1, <2>2, PutManifestExact
  <2>5. RestoreExact'
    BY <2>3, <2>4 DEF RestoreInv, RestoreExact, Rebuilds, PageFilesOf
  <2>6. \A f \in new.files : f \in files \cup sent /\ f.chain = it.chain
    BY <1>0, <2>1, <2>2, NewManifest DEF SentOf
  <2>7. FilesDistinct'
    BY <2>3, <2>6 DEF RestoreInv, FilesDistinct
  <2> QED BY <2>5, <2>7 DEF RestoreInv
<1>3. CASE \E it \in items : RecordCommit(it)
  <2>1. PICK it \in items : RecordCommit(it)
    BY <1>3
  <2>2. files' \cup sent' \subseteq files \cup sent /\ manifests' = manifests
    BY <2>1 DEF RecordCommit, driveVars, SentOf
  <2> QED BY <2>2 DEF RestoreInv, FilesDistinct, RestoreExact, Rebuilds, PageFilesOf
<1>4. CASE files' \subseteq files /\ sent' \subseteq sent /\ manifests' = manifests
  BY <1>4 DEF RestoreInv, FilesDistinct, RestoreExact, Rebuilds, PageFilesOf
<1> QED BY <1>1, <1>2, <1>3, <1>4, StepFiles
-----------------------------------------------------------------------------
(* Without damage, nothing is ever missing.                                  *)

\* No file is corrupt, and none that is still to be sent is missing.
WholeFiles == \A it \in items : it.bad = {} /\ (~IsCommitted(it) => LocallyComplete(it))

\* Down from each waiting delta there are items waiting, to what is committed.
NoGaps == \A y \in Pending : (~IsCommitted(y) /\ ~IsBase(y)) =>
  \/ y.prev = committed[y.chain]
  \/ \E d \in Pending : d.chain = y.chain /\ d.seq = y.prev /\ ~IsCommitted(d)

\* A manifest is of a committed item, or of one whose commit is being written.
Journalled == \A m \in manifests :
  m.seq <= committed[m.chain] \/ <<m.chain, m.seq>> \in started

\* Nothing is being discarded.
NotDiscarding == mem = None \/ mem.job # "discard"

\* Without damage, nothing is missing, broken or given up.
CleanInv == damage = 0 => WholeFiles /\ NoGaps /\ Journalled /\ NotDiscarding

\* What is committed of a chain is no later than the tip of capture.json.
LEMMA CommittedBelowTip ==
  ASSUME TypeInv, Numbers, ChainInv, StateInv, JournalInv, EntriesOnDrive, cap # None
  PROVE  committed[cap.chain] <= Tip.seq /\ committed[cap.chain] \in Nat /\ Tip.seq \in Nat
<1>1. cap.chain \in Chains /\ committed[cap.chain] \in Nat /\ Tip.seq \in Nat
  BY TipAbove DEF Numbers
<1>2. CASE committed[cap.chain] > 0
  <2>1. cap.chain \in folders
    BY <1>1, <1>2 DEF JournalInv, EntriesKnown, EntriesOnDrive
  <2>2. PICK m \in manifests : m.chain = cap.chain /\ m.seq = committed[cap.chain]
    BY <1>2, <2>1 DEF JournalInv, JournalBacked
  <2>3. IsPoint(cap.chain, m.seq, m.db)
    BY <2>2 DEF IsPoint
  <2> QED BY <1>1, <2>2, <2>3, PointsBelowTip
<1>3. CASE ~(committed[cap.chain] > 0)
  BY <1>1, <1>3
<1> QED BY <1>1, <1>2, <1>3

\* Without damage the tip is committed or waits to be.
LEMMA TipWaits ==
  ASSUME TypeInv, Numbers, ChainInv, InflightInv, StateInv, JournalInv, EntriesOnDrive,
         Journalled, cap # None
  PROVE  \/ Tip.seq = committed[cap.chain]
         \/ \E d \in Pending : d.chain = cap.chain /\ d.seq = Tip.seq /\ ~IsCommitted(d)
<1>1. committed[cap.chain] <= Tip.seq /\ committed[cap.chain] \in Nat /\ Tip.seq \in Nat
  BY CommittedBelowTip
<1>2. /\ \A o \in items : o.chain = cap.chain => o.seq <= Tip.seq
      /\ \/ Tip.seq = cap.seq
         \/ \E o \in items : o.seq = Tip.seq /\ o.chain = cap.chain
      /\ cap.seq \in Nat /\ cap.seq <= Tip.seq
  BY TipAbove DEF Numbers
<1>3. ASSUME NEW x \in items, x.chain = cap.chain, x.seq = Tip.seq
      PROVE  \/ Tip.seq = committed[cap.chain]
             \/ \E d \in Pending : d.chain = cap.chain /\ d.seq = Tip.seq /\ ~IsCommitted(d)
  <2>1. x \in Pending
    BY <1>2, <1>3, PendingIs DEF ChainInv
  <2>2. CASE IsCommitted(x)
    BY <1>1, <1>3, <2>2 DEF IsCommitted
  <2> QED BY <1>3, <2>1, <2>2
<1>4. CASE Tip.seq = cap.seq
  <2>1. CASE \E it \in items : it.chain = cap.chain /\ cap.seq <= it.seq
    <3>1. PICK x \in items : x.chain = cap.chain /\ cap.seq <= x.seq
      BY <2>1
    <3>2. x.seq = Tip.seq
      BY <1>2, <1>4, <3>1 DEF Numbers
    <3> QED BY <1>3, <3>1, <3>2
  <2>2. CASE \E m \in manifests : m.chain = cap.chain /\ cap.seq <= m.seq
    <3>1. PICK m \in manifests : m.chain = cap.chain /\ cap.seq <= m.seq
      BY <2>2
    <3>2. IsPoint(cap.chain, m.seq, m.db) /\ m.seq \in Nat
      BY <3>1 DEF IsPoint, Numbers
    <3>3. m.seq = Tip.seq
      BY <1>1, <1>2, <1>4, <3>1, <3>2, PointsBelowTip
    <3>4. CASE m.seq <= committed[m.chain]
      BY <1>1, <3>1, <3>3, <3>4
    <3>5. CASE <<m.chain, m.seq>> \in started
      <4>1. PICK x \in items : Name(x) = <<m.chain, m.seq>>
        BY <3>5 DEF InflightInv, StartedFirst
      <4>2. x.chain = cap.chain /\ x.seq = Tip.seq
        BY <3>1, <3>3, <4>1 DEF Name
      <4> QED BY <1>3, <4>2
    <3> QED BY <3>4, <3>5 DEF Journalled
  <2> QED BY <2>1, <2>2 DEF StateInv, CapBacked
<1>5. CASE \E o \in items : o.seq = Tip.seq /\ o.chain = cap.chain
  BY <1>3, <1>5
<1> QED BY <1>2, <1>4, <1>5

\* Without damage, no step finds an item it must give up.
LEMMA NoReason ==
  ASSUME TypeInv, Numbers, ChainInv, WholeFiles, NoGaps, NEW it \in items, DiscardReason(it)
  PROVE  damage' # 0
<1>1. it.bad = {} /\ (~IsCommitted(it) => LocallyComplete(it))
  BY DEF WholeFiles
<1>2. CASE DiscardGap(it)
  <2>1. Oldest(it) /\ ~IsCommitted(it) /\ ~Continuous(it)
    BY <1>2 DEF DiscardGap
  <2>2. First(it) /\ it \in Pending
    BY <2>1, OldestFirst DEF Oldest
  <2>3. it.chain \in Chains /\ committed[it.chain] \in Nat /\ it.seq \in Nat /\ 1 <= it.seq
        /\ it.prev \in Nat /\ it.prev < it.seq
    BY DEF Numbers, ChainInv, Shape
  <2>4. ~IsBase(it)
    <3> SUFFICES ASSUME IsBase(it) PROVE committed[it.chain] = 0
      BY <2>1 DEF Continuous
    <3>1. it.seq = 1
      BY DEF IsBase, ChainInv, Shape
    <3> QED BY <2>1, <2>3, <3>1 DEF IsCommitted
  <2>5. it.prev # committed[it.chain]
    BY <2>1, <2>3, <2>4 DEF Continuous, IsBase
  <2>6. PICK d \in Pending : d.chain = it.chain /\ d.seq = it.prev
    BY <2>1, <2>2, <2>4, <2>5 DEF NoGaps
  <2>7. d \in items /\ d # it /\ d.seq \in Nat /\ d.prev \in Nat /\ d.prev < d.seq
    BY <2>3, <2>6 DEF Pending, Numbers, ChainInv, Shape
  <2> QED BY <2>2, <2>3, <2>6, <2>7 DEF First
<1>3. CASE DiscardMissing(it)
  BY <1>1, <1>3 DEF DiscardMissing
<1>4. CASE \E k \in Kinds : DiscardCorrupt(it, k)
  BY <1>1, <1>4 DEF DiscardCorrupt
<1>5. CASE \E k \in Kinds : DiscardRefused(it, k)
  <2>1. damage \in Nat
    BY ConstantsAssumption DEF TypeInv, TypeOK, OutboxTypeOK
  <2> QED BY <1>5, <2>1 DEF DiscardRefused
<1>6. CASE DiscardUnmergeable(it)
  BY <1>1, <1>6 DEF DiscardUnmergeable, CorruptDelta
<1> QED BY <1>2, <1>3, <1>4, <1>5, <1>6 DEF DiscardReason

\* Whether a file is missing depends on the journal's sent files only.
LEMMA WholeStays ==
  ASSUME NEW x, NEW y, Same(x, y), x.here = y.here,
         LocallyComplete(x), SentKinds(x) \subseteq SentKinds(x)'
  PROVE  LocallyComplete(y)'
<1>1. Files(y)' = Files(x) /\ SentKinds(y)' = SentKinds(x)'
  BY DEF Same, Files, SentKinds, SentOf
<1> QED BY <1>1 DEF LocallyComplete

\* A capture's item is whole and goes on from one that waits or is committed.
LEMMA AddedClean ==
  ASSUME TypeInv, Numbers, Numbers', ChainInv, Shape', InflightInv, StateInv, JournalInv,
         EntriesOnDrive, WholeFiles, NoGaps, Journalled, UNCHANGED <<journalVars, driveVars>>,
         NEW it \in Item, NEW c, NEW r, NEW id, Added(it, c, r, id)
  PROVE  (WholeFiles /\ NoGaps /\ Journalled /\ NotDiscarding)'
<1>1. /\ items' = Pending \cup {it} /\ Pending \subseteq items
      /\ Pending' = Pending \cup {it}
  BY AddedAfter, PendingAdded DEF Pending
<1>2. UNCHANGED <<committed, sent, started, manifests>>
  BY DEF journalVars, driveVars
<1>3. it.bad = {} /\ it.here = Files(it) /\ mem'.job = "capture"
  BY DEF Added, NewItem
<1>4. WholeFiles'
  <2> SUFFICES ASSUME NEW x \in items'
               PROVE  x.bad = {} /\ (~IsCommitted(x) => LocallyComplete(x))'
    BY <1>2 DEF WholeFiles, IsCommitted
  <2>1. CASE x = it
    BY <1>3, <2>1 DEF LocallyComplete, Files
  <2>2. CASE x \in items
    BY <1>2, <2>2 DEF WholeFiles, IsCommitted, LocallyComplete, Files, SentKinds, SentOf
  <2> QED BY <1>1, <2>1, <2>2
<1>5. NoGaps'
  <2> SUFFICES ASSUME NEW y \in Pending', ~IsCommitted(y), ~IsBase(y)
               PROVE  \/ y.prev = committed[y.chain]
                      \/ \E d \in Pending' : d.chain = y.chain /\ d.seq = y.prev /\ ~IsCommitted(d)
    BY <1>2 DEF NoGaps, IsCommitted, IsBase
  <2>1. CASE y \in Pending
    BY <1>1, <2>1 DEF NoGaps
  <2>2. CASE y = it
    <3>1. cap # None /\ it.chain = cap.chain /\ it.prev = Tip.seq
      BY <2>2 DEF Added, NewItem, IsBase
    <3> QED BY <1>1, <2>2, <3>1, TipWaits
  <2> QED BY <1>1, <2>1, <2>2
<1>6. Journalled'
  BY <1>2 DEF Journalled
<1>7. NotDiscarding'
  BY <1>3 DEF NotDiscarding
<1> QED BY <1>4, <1>5, <1>6, <1>7

\* A merged item is whole, and takes the place of its run in the chain.
LEMMA MergedClean ==
  ASSUME TypeInv, Numbers, Numbers', ChainInv, Shape', WholeFiles, NoGaps, Journalled,
         NotDiscarding, NEW a, NEW b, NEW R, NEW rest, MergesRun(R, a, b, rest)
  PROVE  (WholeFiles /\ NoGaps /\ Journalled /\ NotDiscarding)'
<1> DEFINE one == Merged(R)
<1>1. Run(R, a, b, NotMergeable)
  BY DEF MergesRun
<1>2. /\ items' = (Pending \ R) \cup {one} \cup rest /\ rest \subseteq R /\ R \subseteq Pending
      /\ Pending \subseteq items /\ a \in R /\ b \in R
      /\ Pending' = (Pending \ R) \cup {one}
  BY <1>1, PendingMerged DEF MergesRun, Run, Pending
<1>3. UNCHANGED <<committed, sent, started, manifests, mem>>
  BY DEF MergesRun, journalVars, driveVars
<1>4. one.chain = b.chain /\ one.seq = b.seq /\ one.prev = a.prev
  BY <1>1, MergedFields
<1>5. one.here = Files(one) /\ one.bad = {}
  <2>1. \A x \in R : x.bad = {}
    BY <1>2 DEF WholeFiles
  <2> QED BY <1>1, <2>1, MergedPages
<1>6. \A x \in R : ~IsCommitted(x) /\ ~IsBase(x) /\ x.chain = b.chain
                   /\ a.seq <= x.seq /\ x.seq <= b.seq
  BY <1>1, <1>2 DEF Run, NotMergeable
<1>7. a \in items /\ b \in items /\ a.prev < a.seq /\ a.seq <= b.seq
  BY <1>2, <1>6 DEF ChainInv, Shape
<1> HIDE DEF one
<1>8. WholeFiles'
  <2> SUFFICES ASSUME NEW x \in items'
               PROVE  x.bad = {} /\ (~IsCommitted(x) => LocallyComplete(x))'
    BY <1>3 DEF WholeFiles, IsCommitted
  <2>1. CASE x = one
    BY <1>5, <2>1 DEF LocallyComplete, Files
  <2>2. CASE x \in items
    BY <1>3, <2>2 DEF WholeFiles, IsCommitted, LocallyComplete, Files, SentKinds, SentOf
  <2> QED BY <1>2, <2>1, <2>2
<1>9. NoGaps'
  <2> SUFFICES ASSUME NEW y \in Pending', ~IsCommitted(y), ~IsBase(y)
               PROVE  \/ y.prev = committed[y.chain]
                      \/ \E d \in Pending' : d.chain = y.chain /\ d.seq = y.prev /\ ~IsCommitted(d)
    BY <1>3 DEF NoGaps, IsCommitted, IsBase
  <2>1. CASE y = one
    <3>1. \/ a.prev = committed[a.chain]
          \/ \E d \in Pending : d.chain = a.chain /\ d.seq = a.prev /\ ~IsCommitted(d)
      BY <1>2, <1>6 DEF NoGaps
    <3>2. a.chain = b.chain
      BY <1>2, <1>6
    <3>3. CASE a.prev = committed[a.chain]
      BY <1>4, <2>1, <3>2, <3>3
    <3>4. CASE \E d \in Pending : d.chain = a.chain /\ d.seq = a.prev /\ ~IsCommitted(d)
      <4>1. PICK d \in Pending : d.chain = a.chain /\ d.seq = a.prev /\ ~IsCommitted(d)
        BY <3>4
      <4>2. d \notin R
        BY <1>2, <1>6, <1>7, <4>1 DEF Numbers
      <4> QED BY <1>2, <1>4, <2>1, <3>2, <4>1, <4>2
    <3> QED BY <3>1, <3>3, <3>4
  <2>2. CASE y \in Pending \ R
    <3>1. CASE y.prev = committed[y.chain]
      BY <3>1
    <3>2. CASE \E d \in Pending : d.chain = y.chain /\ d.seq = y.prev /\ ~IsCommitted(d)
      <4>1. PICK d \in Pending : d.chain = y.chain /\ d.seq = y.prev /\ ~IsCommitted(d)
        BY <3>2
      <4>2. CASE d \notin R
        BY <1>2, <4>1, <4>2
      <4>3. CASE d \in R
        <5>1. y.chain = b.chain /\ a.seq <= y.prev /\ y.prev <= b.seq
          BY <1>6, <4>1, <4>3
        <5>2. y.seq < a.seq \/ b.seq <= y.prev
          BY <1>1, <2>2, <5>1, RunApart
        <5>3. y \in items /\ y.prev < y.seq
          BY <1>2, <2>2 DEF ChainInv, Shape
        <5>4. y.prev = b.seq
          BY <1>7, <5>1, <5>2, <5>3 DEF Numbers
        <5>5. ~IsCommitted(one)
          BY <1>2, <1>4, <1>6 DEF IsCommitted
        <5> QED BY <1>2, <1>4, <5>1, <5>4, <5>5
      <4> QED BY <4>2, <4>3
    <3> QED BY <2>2, <3>1, <3>2 DEF NoGaps
  <2> QED BY <1>2, <2>1, <2>2
<1>10. Journalled' /\ NotDiscarding'
  BY <1>3 DEF Journalled, NotDiscarding
<1> QED BY <1>8, <1>9, <1>10

\* A file leaves the disk once it is sent.
LEMMA SendFileClean ==
  ASSUME TypeInv, Numbers, Numbers', ChainInv, Shape', WholeFiles, NoGaps, Journalled,
         NEW it \in items, NEW k \in Kinds, NEW kept \in BOOLEAN, SendFile(it, k, kept)
  PROVE  (WholeFiles /\ NoGaps /\ Journalled /\ NotDiscarding)'
<1>1. PICK f : /\ sent' = sent \cup {f} /\ f.chain = it.chain /\ f.seq = it.seq /\ f.kind = k
  BY SendFileSends
<1>2. UNCHANGED <<committed, started, manifests, mem>> /\ mem = None
  BY DEF SendFile, Uploading
<1>3. \A x : SentKinds(x) \subseteq SentKinds(x)'
  BY <1>1 DEF SentKinds, SentOf
<1>4. it \in Item
  BY DEF TypeInv, TypeOK, OutboxTypeOK
<1>5. ASSUME NEW x \in items'
      PROVE  x.bad = {} /\ (~IsCommitted(x) => LocallyComplete(x)')
  <2>1. CASE x \in items
    <3>1. Same(x, x)
      BY DEF Same
    <3> QED BY <1>3, <2>1, <3>1, WholeStays DEF WholeFiles
  <2>2. CASE x = [it EXCEPT !.here = @ \ {k}]
    <3>1. /\ x.bad = it.bad /\ x.here = it.here \ {k} /\ x.chain = it.chain /\ x.seq = it.seq
          /\ x.pages = it.pages /\ x.recs = it.recs
      BY <1>4, <2>2 DEF Item
    <3>2. Files(x)' = Files(it) /\ SentKinds(x)' = SentKinds(it)'
      BY <3>1 DEF Files, SentKinds, SentOf
    <3>3. k \in SentKinds(it)'
      BY <1>1 DEF SentKinds, SentOf
    <3>4. x.bad = {} /\ (~IsCommitted(x) => LocallyComplete(it))
      BY <3>1 DEF WholeFiles, IsCommitted
    <3> QED BY <1>3, <3>1, <3>2, <3>3, <3>4 DEF LocallyComplete
  <2> QED BY <2>1, <2>2 DEF SendFile
<1>6. WholeFiles'
  BY <1>2, <1>5 DEF WholeFiles, IsCommitted
<1>7. NoGaps'
  <2>1. \E too \in Item : Touched(it, too)
    BY TouchSteps
  <2>2. /\ \A x \in Pending : \E y \in Pending' : Same(x, y)
        /\ \A y \in Pending' : \E x \in Pending : Same(x, y)
    BY <2>1, TouchedPending
  <2> SUFFICES ASSUME NEW y \in Pending', ~IsCommitted(y), ~IsBase(y)
               PROVE  \/ y.prev = committed[y.chain]
                      \/ \E d \in Pending' : d.chain = y.chain /\ d.seq = y.prev /\ ~IsCommitted(d)
    BY <1>2 DEF NoGaps, IsCommitted, IsBase
  <2>3. PICK x \in Pending : Same(x, y)
    BY <2>2
  <2>4. \/ x.prev = committed[x.chain]
        \/ \E d \in Pending : d.chain = x.chain /\ d.seq = x.prev /\ ~IsCommitted(d)
    BY <2>3 DEF NoGaps, Same, IsCommitted, IsBase
  <2> QED BY <2>2, <2>3, <2>4 DEF Same, IsCommitted
<1>8. Journalled' /\ NotDiscarding'
  BY <1>2 DEF Journalled, NotDiscarding
<1> QED BY <1>6, <1>7, <1>8

\* A commit is of the first item of its chain: the next one goes on from it.
LEMMA RecordCommitClean ==
  ASSUME TypeInv, Numbers, ChainInv, WholeFiles, NoGaps, Journalled,
         NEW it \in items, RecordCommit(it)
  PROVE  (WholeFiles /\ NoGaps /\ Journalled /\ NotDiscarding)'
<1>1. Underway(it)
  BY UploadingFirst DEF RecordCommit
<1>2. /\ committed' = [committed EXCEPT ![it.chain] = it.seq]
      /\ started' = started \ {Name(it)}
      /\ sent' = sent \ SentOf(it) /\ UNCHANGED <<items, mem, manifests>> /\ mem = None
      /\ Pending' = Pending
  BY DEF RecordCommit, outboxVars, Uploading, driveVars, Pending, Superseded
<1>3. /\ it.chain \in Chains /\ committed[it.chain] \in Nat /\ it.seq \in Nat
      /\ committed[it.chain] < it.seq
      /\ \A ch \in Chains : committed'[ch] = IF ch = it.chain THEN it.seq ELSE committed[ch]
  BY <1>1, <1>2 DEF TypeInv, TypeOK, JournalTypeOK, Numbers, Underway, IsCommitted
<1>4. \A x \in items : IsCommitted(x)' <=> x.seq <= (IF x.chain = it.chain THEN it.seq ELSE committed[x.chain])
  BY <1>3 DEF IsCommitted, Numbers
<1>5. \A x \in items : IsCommitted(x) => IsCommitted(x)'
  BY <1>3, <1>4 DEF IsCommitted, Numbers
<1>6. WholeFiles'
  <2> SUFFICES ASSUME NEW x \in items
               PROVE  x.bad = {} /\ (~IsCommitted(x)' => LocallyComplete(x)')
    BY <1>2 DEF WholeFiles
  <2>1. ASSUME ~IsCommitted(x)' PROVE LocallyComplete(x)'
    <3>1. ~(x.chain = it.chain /\ x.seq = it.seq)
      BY <1>3, <1>4, <2>1
    <3>2. SentOf(x)' = SentOf(x)
      BY <1>2, <3>1 DEF SentOf
    <3>3. LocallyComplete(x)
      BY <1>5, <2>1 DEF WholeFiles
    <3> QED BY <3>2, <3>3 DEF LocallyComplete, SentKinds, Files
  <2> QED BY <2>1 DEF WholeFiles
<1>7. NoGaps'
  <2> SUFFICES ASSUME NEW y \in Pending, ~IsCommitted(y)', ~IsBase(y)
               PROVE  \/ y.prev = committed'[y.chain]
                      \/ \E d \in Pending : d.chain = y.chain /\ d.seq = y.prev /\ ~IsCommitted(d)'
    BY <1>2 DEF NoGaps, IsBase
  <2>0. y \in items /\ y.chain \in Chains /\ y.seq \in Nat /\ y.prev \in Nat
        /\ committed[y.chain] \in Nat
    BY DEF Pending, Numbers
  <2>1. \/ y.prev = committed[y.chain]
        \/ \E d \in Pending : d.chain = y.chain /\ d.seq = y.prev /\ ~IsCommitted(d)
    BY <1>5, <2>0 DEF NoGaps
  <2>2. CASE y.chain # it.chain
    <3>1. committed'[y.chain] = committed[y.chain]
      BY <1>3, <2>0, <2>2
    <3>2. \A d \in Pending : d.chain = y.chain => (IsCommitted(d)' <=> IsCommitted(d))
      BY <3>1 DEF IsCommitted
    <3> QED BY <2>1, <3>1, <3>2
  <2>3. CASE y.chain = it.chain
    <3>1. ~(y.seq <= it.seq)
      BY <1>4, <2>0, <2>3
    <3>2. it.seq <= y.prev
      BY <1>1, <1>3, <2>0, <2>3, <3>1 DEF Underway, First
    <3>3. PICK d \in Pending : d.chain = y.chain /\ d.seq = y.prev /\ ~IsCommitted(d)
      BY <1>3, <2>0, <2>1, <2>3, <3>2
    <3>4. d \in items
      BY DEF Pending
    <3>5. CASE y.prev = it.seq
      BY <1>3, <2>3, <3>5
    <3>6. CASE y.prev # it.seq
      <4>1. ~IsCommitted(d)'
        BY <1>3, <1>4, <2>0, <2>3, <3>2, <3>3, <3>4, <3>6
      <4> QED BY <3>3, <4>1
    <3> QED BY <3>5, <3>6
  <2> QED BY <2>2, <2>3
<1>8. Journalled'
  <2> SUFFICES ASSUME NEW m \in manifests
               PROVE  m.seq <= committed'[m.chain] \/ <<m.chain, m.seq>> \in started'
    BY <1>2 DEF Journalled
  <2>0. m.seq \in Nat /\ m.chain \in Chains
    BY DEF Numbers
  <2>1. CASE m.chain = it.chain /\ m.seq <= it.seq
    BY <1>3, <2>1
  <2>2. CASE m.chain = it.chain /\ ~(m.seq <= it.seq)
    <3>1. ~(m.seq <= committed[m.chain]) /\ <<m.chain, m.seq>> # Name(it)
      BY <1>3, <2>0, <2>2 DEF Name
    <3> QED BY <1>2, <3>1 DEF Journalled
  <2>3. CASE m.chain # it.chain
    <3>1. committed'[m.chain] = committed[m.chain] /\ <<m.chain, m.seq>> # Name(it)
      BY <1>3, <2>0, <2>3 DEF Name
    <3> QED BY <1>2, <3>1 DEF Journalled
  <2> QED BY <2>1, <2>2, <2>3
<1>9. NotDiscarding'
  BY <1>2 DEF NotDiscarding
<1> QED BY <1>6, <1>7, <1>8, <1>9

\* A committed item that goes leaves no gap in front of one that waits.
LEMMA FinishDeleteClean ==
  ASSUME TypeInv, Numbers, Numbers', ChainInv, Shape', WholeFiles, NoGaps, Journalled,
         NEW it \in items, FinishDelete(it)
  PROVE  (WholeFiles /\ NoGaps /\ Journalled /\ NotDiscarding)'
<1>1. /\ IsCommitted(it) /\ it \in Pending /\ items' = items \ {it} /\ mem = None
      /\ UNCHANGED <<committed, started, sent, mem, manifests>>
  BY DEF FinishDelete, journalVars, driveVars
<1>2. WholeFiles'
  BY <1>1 DEF WholeFiles, IsCommitted, LocallyComplete, Files, SentKinds, SentOf
<1>3. \A x \in items : x \in Pending <=>
        \A o \in items : o.chain = x.chain => x.seq <= o.prev \/ o.seq <= x.seq
  BY PendingIs DEF ChainInv
<1>4. \A x \in items' : x \in Pending' <=>
        \A o \in items' : o.chain = x.chain => x.seq <= o.prev \/ o.seq <= x.seq
  BY PendingNext
<1>5. Pending' \subseteq items' /\ Pending \subseteq items
  BY PendingNext DEF Pending
<1>6. NoGaps'
  <2> SUFFICES ASSUME NEW y \in Pending', ~IsCommitted(y), ~IsBase(y)
               PROVE  \/ y.prev = committed[y.chain]
                      \/ \E d \in Pending' : d.chain = y.chain /\ d.seq = y.prev /\ ~IsCommitted(d)
    BY <1>1 DEF NoGaps, IsCommitted, IsBase
  <2>1. y \in items
    BY <1>1, <1>5
  <2>2. y.chain = it.chain => it.seq < y.seq
    <3>1. committed[it.chain] \in Nat /\ y.seq \in Nat /\ it.seq \in Nat
      BY <2>1 DEF Numbers
    <3> QED BY <1>1, <3>1 DEF IsCommitted
  <2>3. y \in Pending
    BY <1>1, <1>3, <1>4, <1>5, <2>1, <2>2 DEF Numbers
  <2>4. CASE \E d \in Pending : d.chain = y.chain /\ d.seq = y.prev /\ ~IsCommitted(d)
    <3>1. PICK d \in Pending : d.chain = y.chain /\ d.seq = y.prev /\ ~IsCommitted(d)
      BY <2>4
    <3>2. d \in items'
      BY <1>1, <1>5, <3>1
    <3>3. d \in Pending'
      BY <1>1, <1>3, <1>4, <1>5, <3>2
    <3> QED BY <3>1, <3>3
  <2> QED BY <2>3, <2>4 DEF NoGaps
<1>7. Journalled' /\ NotDiscarding'
  BY <1>1 DEF Journalled, NotDiscarding
<1> QED BY <1>2, <1>6, <1>7

\* A step that leaves the items and what is committed and sent of them.
LEMMA QuietClean ==
  ASSUME WholeFiles, NoGaps, Journalled, UNCHANGED <<items, committed, sent, manifests>>,
         started \subseteq started', mem' = None \/ mem'.job = "capture" \/ (mem' = mem /\ NotDiscarding)
  PROVE  (WholeFiles /\ NoGaps /\ Journalled /\ NotDiscarding)'
<1>1. WholeFiles'
  BY DEF WholeFiles, IsCommitted, LocallyComplete, Files, SentKinds, SentOf
<1>2. Pending' = Pending
  BY DEF Pending, Superseded
<1>3. NoGaps'
  BY <1>2 DEF NoGaps, IsCommitted, IsBase
<1>4. Journalled' /\ NotDiscarding'
  BY DEF Journalled, NotDiscarding
<1> QED BY <1>1, <1>3, <1>4

\* CleanInv is inductive.
LEMMA CleanInvStep ==
  ASSUME TypeInv, TypeInv', ChainInv, ChainInv', InflightInv, StateInv, JournalInv,
         EntriesOnDrive, CleanInv, [Next]_vars
  PROVE  CleanInv'
<1>0. Numbers /\ Numbers' /\ Shape'
  <2>1. Numbers
    BY NumbersType
  <2>2. Numbers'
    BY NumbersType, PTL
  <2> QED BY <2>1, <2>2 DEF ChainInv
<1>a. damage \in Nat
  BY ConstantsAssumption DEF TypeInv, TypeOK, OutboxTypeOK
<1> SUFFICES ASSUME damage' = 0
             PROVE  (WholeFiles /\ NoGaps /\ Journalled /\ NotDiscarding)'
  BY DEF CleanInv
<1>b. damage' = damage + 1 => FALSE
  BY <1>a
<1>c. ASSUME damage' = damage PROVE WholeFiles /\ NoGaps /\ Journalled /\ NotDiscarding
  BY <1>c DEF CleanInv
<1>1. CASE Outbox
  <2>0. UNCHANGED <<journalVars, driveVars>> /\ UNCHANGED <<committed, sent, started, manifests>>
    BY <1>1 DEF Outbox, journalVars, driveVars
  <2>1. CASE Capture
    <3>1. PICK it \in Item, c \in Contents, r \in Recs, id \in StoreIds : Added(it, c, r, id)
      BY <2>1, CaptureAdds
    <3>2. damage' = damage
      BY <3>1 DEF Added
    <3> QED BY <1>0, <1>c, <2>0, <3>1, <3>2, AddedClean
  <2>2. CASE SaveIndex
    <3>1. mem \in [job : {"capture"}, saved : BOOLEAN, cap : CaptureState]
      BY <2>2 DEF SaveIndex, TypeInv, TypeOK, OutboxTypeOK
    <3>2. mem'.job = "capture" /\ items' = items /\ damage' = damage
      BY <2>2, <3>1 DEF SaveIndex
    <3> QED BY <1>c, <2>0, <3>2, QuietClean
  <2>3. CASE SaveState
    BY <1>c, <2>0, <2>3, QuietClean DEF SaveState
  <2>4. CASE Sweep
    <3>1. items' = Pending /\ Pending \subseteq items /\ mem' = mem /\ damage' = damage
      BY <2>4 DEF Sweep, Pending
    <3>2. Pending' = Pending
      BY <1>0, <3>1, PendingSwept
    <3>3. WholeFiles'
      BY <1>c, <2>0, <3>1 DEF WholeFiles, IsCommitted, LocallyComplete, Files, SentKinds, SentOf
    <3>4. NoGaps'
      BY <1>c, <2>0, <3>1, <3>2 DEF NoGaps, IsCommitted, IsBase
    <3>5. Journalled' /\ NotDiscarding'
      BY <1>c, <2>0, <3>1 DEF Journalled, NotDiscarding
    <3> QED BY <3>3, <3>4, <3>5
  <2>5. CASE \E a, b \in Pending, left \in Seqs : Coalesce(NotMergeable, a, b, left)
    <3>0. PICK a, b \in Pending : \E R, rest : MergesRun(R, a, b, rest)
      BY <1>0, <2>0, <2>5, CoalesceMerges
    <3>1. PICK R, rest : a \in Pending /\ b \in Pending /\ MergesRun(R, a, b, rest)
      BY <3>0
    <3>2. damage' = damage
      BY <3>1 DEF MergesRun
    <3> QED BY <1>0, <1>c, <3>1, <3>2, MergedClean
  <2> QED BY <1>1, <2>1, <2>2, <2>3, <2>4, <2>5 DEF Outbox
<1>2. CASE Upload
  <2>1. PICK it \in items :
          \/ StartItem(it)
          \/ \E k \in Kinds, kept \in BOOLEAN : SendFile(it, k, kept)
          \/ PutManifest(it)
          \/ RecordCommit(it)
          \/ FinishDropState(it)
          \/ FinishDelete(it)
    BY <1>2 DEF Upload
  <2>2. damage' = damage
    BY <2>1 DEF StartItem, SendFile, PutManifest, RecordCommit, FinishDropState, FinishDelete,
                outboxVars
  <2>3. CASE StartItem(it)
    BY <1>c, <2>2, <2>3, QuietClean DEF StartItem, outboxVars
  <2>4. CASE \E k \in Kinds, kept \in BOOLEAN : SendFile(it, k, kept)
    BY <1>0, <1>c, <2>2, <2>4, SendFileClean
  <2>5. CASE PutManifest(it)
    <3>1. /\ UNCHANGED <<items, committed, started, sent, mem>> /\ Name(it) \in started
          /\ manifests' = manifests \cup {ManifestOf(it)}
      BY <2>5 DEF PutManifest, Begun, outboxVars, journalVars
    <3>2. ManifestOf(it).chain = it.chain /\ ManifestOf(it).seq = it.seq
      BY ManifestFields
    <3>3. Journalled'
      BY <1>c, <2>2, <3>1, <3>2 DEF Journalled, Name
    <3>4. Pending' = Pending
      BY <3>1 DEF Pending, Superseded
    <3>5. (WholeFiles /\ NoGaps /\ NotDiscarding)'
      BY <1>c, <2>2, <3>1, <3>4 DEF WholeFiles, NoGaps, NotDiscarding, IsCommitted, IsBase,
                                    LocallyComplete, Files, SentKinds, SentOf
    <3> QED BY <3>3, <3>5
  <2>6. CASE RecordCommit(it)
    BY <1>0, <1>c, <2>2, <2>6, RecordCommitClean
  <2>7. CASE FinishDropState(it)
    BY <1>c, <2>2, <2>7, QuietClean DEF FinishDropState, journalVars, driveVars
  <2>8. CASE FinishDelete(it)
    BY <1>0, <1>c, <2>2, <2>8, FinishDeleteClean
  <2> QED BY <2>1, <2>3, <2>4, <2>5, <2>6, <2>7, <2>8
<1>3. CASE DiscardBegin
  <2>1. PICK it \in items : DiscardReason(it)
    BY <1>3 DEF DiscardBegin, DiscardReason
  <2>2. damage' = damage \/ damage' = damage + 1
    BY <2>1 DEF DiscardReason, DiscardGap, DiscardMissing, DiscardCorrupt, DiscardRefused,
                DiscardUnmergeable
  <2>3. damage' # 0
    BY <1>0, <1>b, <1>c, <2>1, <2>2, NoReason
  <2> QED BY <2>3
<1>4. CASE DiscardDropState \/ DiscardVictim
  <2>1. damage' = damage /\ mem # None /\ mem.job = "discard"
    BY <1>4 DEF DiscardDropState, DiscardVictim
  <2> QED BY <1>c, <2>1 DEF NotDiscarding
<1>5. CASE Faults
  <2>1. CASE Crash /\ UNCHANGED <<journalVars, driveVars>>
    BY <1>c, <2>1, QuietClean DEF Crash, journalVars, driveVars
  <2>2. CASE OutboxDamage \/ LoseJournal \/ \E it \in items, k \in Kinds : Mismatch(it, k)
    <3>1. damage' = damage + 1
      BY <2>2 DEF OutboxDamage, LoseFile, CorruptFile, LoseIndex, LoseState, LoseJournal, Mismatch
    <3> QED BY <1>b, <3>1
  <2> QED BY <1>5, <2>1, <2>2 DEF Faults
<1>6. CASE UNCHANGED vars
  <2>1. UNCHANGED <<items, committed, sent, manifests, started, mem, damage>>
    BY <1>6 DEF vars, outboxVars, journalVars, driveVars
  <2> QED BY <1>c, <2>1, QuietClean
<1> QED BY <1>1, <1>2, <1>3, <1>4, <1>5, <1>6 DEF Next
-----------------------------------------------------------------------------
(* Theorems.                                                                 *)

\* All of it together: what holds in every state of the pipeline.
PipelineInv ==
  /\ TypeInv /\ ChainInv /\ InflightInv /\ JournalInv /\ EntriesOnDrive
  /\ ContentInv /\ StateInv /\ RestoreInv /\ CleanInv

\* It holds at the start.
LEMMA PipelineInit == Init => PipelineInv
<1> SUFFICES ASSUME Init PROVE PipelineInv
  OBVIOUS
<1>1. TypeInv /\ ChainInv /\ InflightInv /\ JournalInv
  BY TypeInvInit, ChainsInit, JournalInvInit
<1>2. /\ items = {} /\ cap = None /\ mem = None /\ manifests = {} /\ Pending = {}
      /\ files = {} /\ sent = {} /\ entries = {}
  BY DEF Init, OutboxInit, Pending
<1>3. EntriesOnDrive
  BY <1>2 DEF EntriesOnDrive
<1>4. \A ch, s, d : ~IsPoint(ch, s, d)
  BY <1>2 DEF IsPoint
<1>5. ContentInv
  BY <1>2, <1>4 DEF ContentInv, PointsAgree, PointsGrow, SegmentsComplete, PagesOfDb
<1>6. StateInv
  BY <1>2 DEF StateInv, ManifestsBehind, NoGapSince, CapBacked, MemCaptured, ManifestsKnown
<1>7. RestoreInv
  BY <1>2 DEF RestoreInv, FilesDistinct, RestoreExact
<1>8. CleanInv
  BY <1>2 DEF CleanInv, WholeFiles, NoGaps, Journalled, NotDiscarding
<1> QED BY <1>1, <1>3, <1>5, <1>6, <1>7, <1>8 DEF PipelineInv

\* Every step keeps it.
LEMMA PipelineStep == PipelineInv /\ [Next]_vars => PipelineInv'
<1> SUFFICES ASSUME PipelineInv, [Next]_vars PROVE PipelineInv'
  OBVIOUS
<1> USE DEF PipelineInv
<1>1. TypeInv'
  BY TypeInvStep
<1>2. ChainInv'
  BY <1>1, ChainInvStep
<1>3. InflightInv'
  BY <1>1, InflightInvStep
<1>4. JournalInv' /\ EntriesOnDrive'
  BY JournalInvStep, EntriesOnDriveStep
<1>5. ContentInv'
  BY <1>1, ContentInvStep
<1>6. StateInv'
  BY <1>1, <1>2, StateInvStep
<1>7. RestoreInv'
  BY RestoreInvStep
<1>8. CleanInv'
  BY <1>1, <1>2, CleanInvStep
<1> QED BY <1>1, <1>2, <1>3, <1>4, <1>5, <1>6, <1>7, <1>8

\* It holds in every state of every behaviour.
LEMMA PipelineAlways == Spec => []PipelineInv
BY PipelineInit, PipelineStep, PTL DEF Spec

\* Every restore point on Drive rebuilds exactly the store that was captured
\* for it, whatever was merged, re-uploaded, discarded or cut short in between.
THEOREM RestorePointsExact == Spec => []RestoreExact
<1>1. PipelineInv => RestoreExact
  BY DEF PipelineInv, RestoreInv
<1> QED BY <1>1, PipelineAlways, PTL

\* All manifests of one chain and seq name the same store: a crash between the
\* manifest and the journal may upload an item twice, but never two different
\* items under one name.  _commit, capture, coalesce.
THEOREM PointsOfASeqAgree == Spec => []OnePointPerSeq
<1>1. PipelineInv => OnePointPerSeq
  <2> SUFFICES ASSUME PipelineInv, NEW m \in manifests, NEW n \in manifests,
                      m.chain = n.chain, m.seq = n.seq
               PROVE  m.db = n.db
    BY DEF OnePointPerSeq
  <2>1. IsPoint(m.chain, m.seq, m.db) /\ IsPoint(m.chain, m.seq, n.db)
    BY DEF IsPoint
  <2> QED BY <2>1 DEF PipelineInv, ContentInv, PointsAgree
<1> QED BY <1>1, PipelineAlways, PTL

\* The next delta would contain every page in which the store differs from the
\* chain's tip, whichever of its three files the last capture got to write.
THEOREM CapturesMissNothing == Spec => []CaptureMissesNothing
<1>1. PipelineInv => CaptureMissesNothing
  <2> SUFFICES ASSUME PipelineInv, NEW c \in Contents, NEW id \in StoreIds, CanExtend(c, id),
                      NEW p \in DOMAIN c
               PROVE  (p \in DOMAIN Tip.db /\ c[p] = Tip.db[p]) \/ p \in Changed(c)
    BY DEF CaptureMissesNothing
  <2>1. Numbers
    BY NumbersType DEF PipelineInv
  <2> QED BY <2>1, ChangedEnough DEF PipelineInv
<1> QED BY <1>1, PipelineAlways, PTL

\* A chain that capture.json continues has its state's item still waiting or
\* already on Drive: no delta is captured onto nothing.
THEOREM StatesBacked == Spec => []StateBacked
<1>1. PipelineInv => StateBacked
  <2>1. PipelineInv => CapBacked /\ Numbers
    BY NumbersType DEF PipelineInv, StateInv
  <2>2. Numbers /\ cap # None => \A m \in manifests : cap.seq <= m.seq <=> m.seq >= cap.seq
    BY DEF Numbers
  <2> QED BY <2>1, <2>2 DEF StateBacked, CapBacked
<1> QED BY <1>1, PipelineAlways, PTL

\* Without a lost or damaged local file, a crash never costs a restore point:
\* no upload step finds an item it must discard.
THEOREM CrashesCostNothing == Spec => []NoNeedlessDiscard
<1>1. PipelineInv => NoNeedlessDiscard
  BY DEF PipelineInv, CleanInv, NotDiscarding, NoNeedlessDiscard
<1> QED BY <1>1, PipelineAlways, PTL

\* The steps at which an item may go without one that covers it.
LEMMA StepKeeps ==
  ASSUME TypeInv, Numbers, ChainInv, [Next]_vars
  PROVE  Kept \/ (\E it \in items : FinishDelete(it)) \/ DiscardVictim
<1>1. CASE \E it \in Item, c \in Contents, r \in Recs, id \in StoreIds : Added(it, c, r, id)
  BY <1>1, AddedAfter, PendingKeeps
<1>2. CASE \E a, b \in Pending : \E R, rest : MergesRun(R, a, b, rest)
  BY <1>2, MergeKeeps
<1>3. CASE \E it \in items, too \in Item : Touched(it, too)
  BY <1>3, TouchKeeps
<1>4. CASE items' = items
  BY <1>4, PendingKeeps DEF Pending
<1>5. CASE Sweep
  BY <1>5, PendingKeeps DEF Sweep
<1>6. CASE (\E it \in items : PutManifest(it)) \/ SaveState \/ Quiet
  BY <1>4, <1>6 DEF PutManifest, SaveState, Quiet, outboxVars
<1> QED BY <1>1, <1>2, <1>3, <1>5, <1>6, StepKinds

\* No step drops an item that is not committed, covered or an announced victim.
LEMMA DropsNothing ==
  ASSUME PipelineInv, [Next]_vars, NEW it \in items, ~IsCommitted(it)
  PROVE  \/ \E o \in items' : /\ o.chain = it.chain /\ o.prev < it.seq /\ it.seq <= o.seq
                              /\ (o.seq = it.seq => o.db = it.db)
         \/ mem # None /\ mem.job = "discard" /\ Name(it) \in mem.victims
<1>1. TypeInv /\ ChainInv /\ Numbers /\ Numbers'
  <2>1. TypeInv' /\ TypeInv
    BY TypeInvStep DEF PipelineInv
  <2>2. Numbers'
    BY <2>1, NumbersType, PTL
  <2> QED BY <2>1, <2>2, NumbersType DEF PipelineInv
<1>a. it.prev < it.seq /\ it.seq <= it.seq
  BY <1>1 DEF ChainInv, Shape, Numbers
<1>2. CASE Kept
  <2>1. PICK y \in items' : /\ y.chain = it.chain /\ y.prev <= it.prev /\ it.seq <= y.seq
                            /\ y.seq = it.seq => y.db = it.db
    BY <1>2 DEF Kept
  <2>2. y.prev < it.seq
    BY <1>1, <1>a, <2>1 DEF Numbers
  <2> QED BY <2>1, <2>2
<1>3. CASE \E x \in items : FinishDelete(x)
  <2>1. it \in items'
    BY <1>3 DEF FinishDelete
  <2> QED BY <1>a, <2>1
<1>4. CASE DiscardVictim
  <2>1. mem # None /\ mem.job = "discard"
    BY <1>4 DEF DiscardVictim
  <2>2. PICK v \in mem.victims : items' = {o \in items : Name(o) # v}
    BY <1>4 DEF DiscardVictim
  <2> QED BY <1>a, <2>1, <2>2
<1> QED BY <1>1, <1>2, <1>3, <1>4, StepKeeps

\* An item leaves the outbox only once committed, for a merged item that covers
\* it, or by an announced discard: no sweep, name clash or merge loses an
\* un-uploaded restore point.
THEOREM NothingIsDropped == Spec => NothingDropped
<1>1. PipelineInv /\ [Next]_vars =>
        [\A it \in items : ~IsCommitted(it) =>
           \/ \E o \in items' : /\ o.chain = it.chain /\ o.prev < it.seq /\ it.seq <= o.seq
                                /\ (o.seq = it.seq => o.db = it.db)
           \/ mem # None /\ mem.job = "discard" /\ Name(it) \in mem.victims]_vars
  BY DropsNothing
<1> QED BY <1>1, PipelineAlways, PTL DEF Spec, NothingDropped
-----------------------------------------------------------------------------
(* The pipeline implements RestorePoints.                                    *)

\* The snapshot that an item or a manifest stands for.
Snap(x) == [at |-> x.at, db |-> x.db]

\* The abstract variables.
Waiting == {[at |-> it.at, db |-> it.db] : it \in items}
Points  == {[at |-> m.at, db |-> Rebuilt(m)] : m \in manifests}
Faulty  == damage > 0

\* A restore of a manifest rebuilds the content it was made for.
LEMMA RebuiltIsDb ==
  ASSUME NEW m \in Manifest, Rebuilds(m),
         \A f, g \in m.files : (f.seq = g.seq /\ f.kind = g.kind) => f = g
  PROVE  Rebuilt(m) = m.db
<1>1. m.db \in Contents /\ \A f \in m.files : f.seq \in Seqs
  <2>1. \A f \in DriveFile : f.seq \in Seqs
    BY DEF DriveFile, PageFile, RecsFile
  <2> QED BY <2>1 DEF Manifest
<1>2. ASSUME NEW p \in DOMAIN m.db
      PROVE  PageFilesOf(m, p) # {} /\ NewestOf(PageFilesOf(m, p)).data[p] = m.db[p]
  <2>1. PICK f \in PageFilesOf(m, p) : /\ \A g \in PageFilesOf(m, p) : g.seq <= f.seq
                                       /\ f.data[p] = m.db[p]
    BY DEF Rebuilds
  <2> DEFINE n == NewestOf(PageFilesOf(m, p))
  <2>2. n \in PageFilesOf(m, p) /\ \A g \in PageFilesOf(m, p) : g.seq <= n.seq
    <3>1. \A g \in PageFilesOf(m, p) : g.seq \in Seqs
      BY <1>1 DEF PageFilesOf
    <3> QED BY <2>1, <3>1, NewestOfMax
  <2> HIDE DEF n
  <2>3. n.seq \in Nat /\ f.seq \in Nat
    BY <1>1, <2>1, <2>2, ConstantsAssumption DEF PageFilesOf, Seqs
  <2>4. n = f
    <3>1. n.seq = f.seq
      BY <2>1, <2>2, <2>3
    <3> QED BY <2>1, <2>2, <3>1 DEF PageFilesOf
  <2> QED BY <2>1, <2>4 DEF n
<1>3. {q \in DOMAIN m.db : PageFilesOf(m, q) # {}} = DOMAIN m.db
  BY <1>2
<1>4. Rebuilt(m) = [p \in DOMAIN m.db |-> m.db[p]]
  BY <1>2, <1>3 DEF Rebuilt
<1>5. m.db = [p \in DOMAIN m.db |-> m.db[p]]
  <2>1. PICK n \in 1..MaxPages : m.db \in [1..n -> Val]
    BY <1>1 DEF Contents
  <2> QED BY <2>1
<1> QED BY <1>4, <1>5

\* The restore points are those their manifests were made for.
PointsAreSnaps == Points = {Snap(m) : m \in manifests}

\* ... as the invariant has it.
LEMMA PointsSnaps == PipelineInv => PointsAreSnaps
<1> SUFFICES ASSUME PipelineInv PROVE PointsAreSnaps
  OBVIOUS
<1>1. ASSUME NEW m \in manifests PROVE Rebuilt(m) = m.db
  <2>1. m \in Manifest
    BY DEF PipelineInv, TypeInv, TypeOK, JournalTypeOK
  <2> QED BY <2>1, RebuiltIsDb DEF PipelineInv, RestoreInv, FilesDistinct, RestoreExact
<1> QED BY <1>1 DEF PointsAreSnaps, Points, Snap

\* What the abstract actions say, in the concrete variables.
TakeStep == \E s \in [at : Chains, db : Contents], old \in SUBSET Waiting :
  /\ s \notin Waiting /\ s \notin Points
  /\ Waiting' = (Waiting \ old) \cup {s}
  /\ Points' = Points /\ Faulty' = Faulty

\* A snapshot that waits is published, as it is.
PublishStep == \E s \in Waiting :
  /\ Points' = Points \cup {s}
  /\ Waiting' = Waiting /\ Faulty' = Faulty

\* Snapshots go, for a newer one or after a fault.
DropStep ==
  /\ Waiting' \subseteq Waiting
  /\ \A s \in Waiting \ Waiting' : Faulty \/ \E t \in Points \cup Waiting' : t.at >= s.at
  /\ Points' = Points /\ Faulty' = Faulty

\* A fault, and nothing else that shows.
FaultStep == Faulty' = TRUE /\ Waiting' = Waiting /\ Points' = Points

\* A step of these four is a step of RestorePoints.
LEMMA AbstractStep ==
  ASSUME TakeStep \/ PublishStep \/ DropStep \/ FaultStep
  PROVE  Promise!Next
<1>1. CASE TakeStep
  BY <1>1 DEF TakeStep, Promise!Next, Promise!Take, Waiting, Points, Faulty
<1>2. CASE PublishStep
  BY <1>2 DEF PublishStep, Promise!Next, Promise!Publish, Waiting, Points, Faulty
<1>3. CASE DropStep
  <2> DEFINE gone == Waiting \ Waiting'
  <2>1. gone \in SUBSET Waiting /\ Waiting' = Waiting \ gone
    BY <1>3 DEF DropStep
  <2>2. \A s \in gone : (\E t \in Points \cup (Waiting \ gone) : t.at >= s.at) \/ Faulty
    BY <1>3, <2>1 DEF DropStep
  <2> HIDE DEF gone
  <2>3. Points' = Points /\ Faulty' = Faulty
    BY <1>3 DEF DropStep
  <2>4. \E g \in SUBSET Waiting :
          /\ \A s \in g : (\E t \in Points \cup (Waiting \ g) : t.at >= s.at) \/ Faulty
          /\ Waiting' = Waiting \ g
    BY <2>1, <2>2
  <2> QED BY <2>3, <2>4 DEF Promise!Next, Promise!Drop, Waiting, Points, Faulty
<1>4. CASE FaultStep
  BY <1>4 DEF FaultStep, Promise!Next, Promise!Fault, Waiting, Points, Faulty
<1> QED BY <1>1, <1>2, <1>3, <1>4

\* The abstract restore points stay when the manifests do.
LEMMA PointsStay ==
  ASSUME manifests' = manifests
  PROVE  Points' = Points
BY DEF Points, Rebuilt, PageFilesOf, NewestOf

\* The abstract outbox does not see which files an item has.
LEMMA TouchedWaiting ==
  ASSUME NEW it \in items, NEW too, Touched(it, too)
  PROVE  Waiting' = Waiting
<1>1. too.at = it.at /\ too.db = it.db /\ items' = (items \ {it}) \cup {too}
  BY DEF Touched, Same
<1>2. ASSUME NEW x \in items
      PROVE  \E y \in items' : y.at = x.at /\ y.db = x.db
  BY <1>1
<1>3. ASSUME NEW y \in items'
      PROVE  \E x \in items : y.at = x.at /\ y.db = x.db
  BY <1>1
<1> QED BY <1>2, <1>3 DEF Waiting

\* Only a fault raises the count of faults, and it shows nothing else outside.
LEMMA DamageSteps ==
  ASSUME TypeInv, [Next]_vars, damage' # damage
  PROVE  FaultStep
<1>1. damage \in Nat
  BY ConstantsAssumption DEF TypeInv, TypeOK, OutboxTypeOK
<1>2. ASSUME damage' = damage + 1, items' = items, manifests' = manifests
      PROVE  FaultStep
  <2>1. Waiting' = Waiting
    BY <1>2 DEF Waiting
  <2> QED BY <1>1, <1>2, <2>1, PointsStay DEF FaultStep, Faulty
<1>3. CASE Outbox
  BY <1>3, ConstantsAssumption DEF Outbox, Capture, CaptureDelta, CaptureBase, CaptureItem, SaveIndex,
              SaveState, Sweep, Coalesce
<1>4. CASE Upload
  BY <1>4 DEF Upload, StartItem, SendFile, PutManifest, RecordCommit, FinishDropState,
              FinishDelete, outboxVars
<1>5. CASE DiscardBegin
  <2>1. PICK it \in items, k \in Kinds : DiscardRefused(it, k)
    BY <1>5 DEF DiscardBegin, DiscardGap, DiscardMissing, DiscardCorrupt,
                DiscardRefused, DiscardUnmergeable
  <2> QED BY <1>2, <2>1 DEF DiscardRefused, Discard, driveVars
<1>6. CASE DiscardDropState \/ DiscardVictim
  BY <1>6 DEF DiscardDropState, DiscardVictim
<1>7. CASE Faults
  <2>1. CASE Crash
    BY <2>1 DEF Crash
  <2>2. CASE (LoseIndex \/ LoseState) /\ UNCHANGED <<journalVars, driveVars>>
    BY <1>2, <2>2 DEF LoseIndex, LoseState, driveVars
  <2>3. CASE LoseJournal \/ \E it \in items, k \in Kinds : Mismatch(it, k)
    BY <1>2, <2>3 DEF LoseJournal, Mismatch, driveVars
  <2>4. CASE (\E it \in items, k \in Kinds : LoseFile(it, k) \/ CorruptFile(it, k))
             /\ UNCHANGED <<journalVars, driveVars>>
    <3>1. PICK it \in items, k \in Kinds : LoseFile(it, k) \/ CorruptFile(it, k)
      BY <2>4
    <3>2. damage' = damage + 1 /\ manifests' = manifests
      BY <2>4, <3>1 DEF LoseFile, CorruptFile, driveVars
    <3>3. PICK too \in Item : Touched(it, too)
      BY <3>1, TouchSteps
    <3>4. Waiting' = Waiting
      BY <3>3, TouchedWaiting
    <3> QED BY <1>1, <3>2, <3>4, PointsStay DEF FaultStep, Faulty
  <2> QED BY <1>7, <2>1, <2>2, <2>3, <2>4 DEF Faults, OutboxDamage
<1>8. CASE UNCHANGED vars
  BY <1>8 DEF vars, outboxVars
<1> QED BY <1>3, <1>4, <1>5, <1>6, <1>7, <1>8 DEF Next

\* A capture takes a snapshot: one that neither waits nor was published.
LEMMA AddedTakes ==
  ASSUME PipelineInv, PointsAreSnaps, Numbers,
         NEW it \in Item, NEW c, NEW r, NEW id, Added(it, c, r, id),
         manifests' = manifests
  PROVE  TakeStep
<1> DEFINE s == Snap(it)
           old == Waiting \ {Snap(o) : o \in Pending}
<1>1. items' = Pending \cup {it} /\ it.at = now + 1 /\ Pending \subseteq items /\ damage' = damage
  BY AddedAfter DEF PipelineInv, Added, NewItem, Pending
<1>2. s \in [at : Chains, db : Contents]
  BY DEF Item, Snap
<1>3. s \notin Waiting
  <2>1. \A x \in items : x.at # now + 1
    BY DEF PipelineInv, ChainInv, Shape, Numbers
  <2> QED BY <1>1, <2>1 DEF Waiting, Snap
<1>4. s \notin Points
  <2>1. \A m \in manifests : m.at # now + 1
    BY DEF PipelineInv, StateInv, ManifestsKnown, Numbers
  <2> QED BY <1>1, <2>1 DEF PointsAreSnaps, Snap
<1>5. Waiting' = {Snap(o) : o \in items'} /\ Waiting = {Snap(o) : o \in items}
  BY DEF Waiting, Snap
<1>6. Waiting' = (Waiting \ old) \cup {s}
  <2>1. Waiting \ old = {Snap(o) : o \in Pending}
    BY <1>1, <1>5
  <2>2. Waiting' = {Snap(o) : o \in Pending} \cup {s}
    BY <1>1, <1>5
  <2> QED BY <2>1, <2>2
<1>7. Points' = Points /\ Faulty' = Faulty
  BY <1>1, PointsStay DEF Faulty
<1>8. old \in SUBSET Waiting
  OBVIOUS
<1> HIDE DEF s, old
<1> QED BY <1>2, <1>3, <1>4, <1>6, <1>7, <1>8 DEF TakeStep

\* A merge and a sweep drop snapshots only for a newer one that waits.
LEMMA KeptDrops ==
  ASSUME Numbers, Kept, damage' = damage, manifests' = manifests,
         \A y \in items' : \E x \in items : x.at = y.at /\ x.db = y.db
  PROVE  DropStep
<1>1. Waiting' \subseteq Waiting
  BY DEF Waiting
<1>2. ASSUME NEW s \in Waiting
      PROVE  \E t \in Waiting' : t.at >= s.at
  <2>1. PICK x \in items : s = [at |-> x.at, db |-> x.db]
    BY DEF Waiting
  <2>2. PICK y \in items' : x.at <= y.at
    BY DEF Kept
  <2>3. PICK z \in items : z.at = y.at
    OBVIOUS
  <2>4. y.at \in Nat /\ x.at \in Nat
    BY <2>3 DEF Numbers
  <2>5. [at |-> y.at, db |-> y.db] \in Waiting'
    BY DEF Waiting
  <2> QED BY <2>1, <2>2, <2>4, <2>5
<1> QED BY <1>1, <1>2, PointsStay DEF DropStep, Faulty

\* A committed item that goes has its chain's newest restore point on Drive.
LEMMA FinishDrops ==
  ASSUME PipelineInv, PointsAreSnaps, Numbers, NEW it \in items, FinishDelete(it)
  PROVE  DropStep
<1>1. items' = items \ {it} /\ damage' = damage /\ manifests' = manifests /\ IsCommitted(it)
  BY DEF FinishDelete, driveVars
<1>2. it.chain \in Chains /\ it.seq \in Nat /\ 1 <= it.seq /\ committed[it.chain] \in Nat
  BY DEF Numbers
<1>3. committed[it.chain] > 0 /\ it.seq <= committed[it.chain]
  BY <1>1, <1>2 DEF IsCommitted
<1>4. it.chain \in folders
  BY <1>2, <1>3 DEF PipelineInv, JournalInv, EntriesKnown, EntriesOnDrive
<1>5. PICK m \in manifests : m.chain = it.chain /\ m.seq = committed[it.chain]
  BY <1>3, <1>4 DEF PipelineInv, JournalInv, JournalBacked
<1>6. it.at <= m.at /\ it.at \in Nat /\ m.at \in Nat
  BY <1>3, <1>5 DEF PipelineInv, StateInv, ManifestsKnown, Numbers
<1>7. Snap(m) \in Points /\ Snap(m).at >= it.at
  BY <1>6 DEF PointsAreSnaps, Snap
<1>8. Waiting' \subseteq Waiting /\ Waiting \ Waiting' \subseteq {Snap(it)}
  BY <1>1 DEF Waiting, Snap
<1>9. \A s \in Waiting \ Waiting' : s.at = it.at
  BY <1>8 DEF Snap
<1> QED BY <1>1, <1>7, <1>8, <1>9, PointsStay DEF DropStep, Faulty

\* A victim is given up only after a fault.
LEMMA VictimDrops ==
  ASSUME PipelineInv, DiscardVictim
  PROVE  DropStep
<1>1. items' \subseteq items /\ damage' = damage /\ manifests' = manifests
  BY DEF DiscardVictim, driveVars
<1>2. mem # None /\ mem.job = "discard"
  BY DEF DiscardVictim
<1>3. damage # 0
  BY <1>2 DEF PipelineInv, CleanInv, NotDiscarding
<1>4. Faulty
  BY <1>3, ConstantsAssumption DEF PipelineInv, TypeInv, TypeOK, OutboxTypeOK, Faulty
<1>5. Waiting' \subseteq Waiting
  BY <1>1 DEF Waiting
<1> QED BY <1>1, <1>4, <1>5, PointsStay DEF DropStep, Faulty

\* A manifest publishes its item's snapshot.
LEMMA ManifestPublishes ==
  ASSUME PointsAreSnaps, PointsAreSnaps', NEW it \in items, PutManifest(it)
  PROVE  PublishStep
<1>1. UNCHANGED <<items, damage>> /\ manifests' = manifests \cup {ManifestOf(it)}
  BY DEF PutManifest, outboxVars
<1>2. Snap(ManifestOf(it)) = Snap(it)
  BY ManifestFields DEF Snap
<1>3. Points' = {Snap(m) : m \in manifests'} /\ Points = {Snap(m) : m \in manifests}
  BY DEF PointsAreSnaps, Snap
<1>4. Points' = Points \cup {Snap(it)}
  BY <1>1, <1>2, <1>3
<1>5. Snap(it) \in Waiting /\ Waiting' = Waiting /\ Faulty' = Faulty
  BY <1>1 DEF Waiting, Snap, Faulty
<1> QED BY <1>4, <1>5 DEF PublishStep

\* Every step of the pipeline is a step of RestorePoints, or none.
LEMMA RefineStep ==
  ASSUME PipelineInv, PointsAreSnaps, PointsAreSnaps', [Next]_vars
  PROVE  Promise!Next \/ UNCHANGED <<Waiting, Points, Faulty>>
<1>0. TypeInv /\ ChainInv /\ Numbers
  BY NumbersType DEF PipelineInv
<1>1. CASE damage' # damage
  BY <1>0, <1>1, DamageSteps, AbstractStep
<1>2. CASE damage' = damage
  <2>1. ASSUME items' = items, manifests' = manifests
        PROVE  UNCHANGED <<Waiting, Points, Faulty>>
    <3>1. Waiting' = Waiting /\ Faulty' = Faulty
      BY <1>2, <2>1 DEF Waiting, Faulty
    <3> QED BY <2>1, <3>1, PointsStay
  <2>2. CASE /\ UNCHANGED <<journalVars, driveVars>>
             /\ \E it \in Item, c \in Contents, r \in Recs, id \in StoreIds : Added(it, c, r, id)
    <3>1. manifests' = manifests
      BY <2>2 DEF driveVars
    <3> QED BY <1>0, <2>2, <3>1, AddedTakes, AbstractStep
  <2>3. CASE \E a, b \in Pending : \E R, rest : MergesRun(R, a, b, rest)
    <3>0. PICK a, b \in Pending : \E R, rest : MergesRun(R, a, b, rest)
      BY <2>3
    <3>1. PICK R, rest : a \in Pending /\ b \in Pending /\ MergesRun(R, a, b, rest)
      BY <3>0
    <3>2. Kept
      BY <1>0, <3>1, MergeKeeps
    <3>3. Run(R, a, b, NotMergeable) /\ manifests' = manifests
      BY <3>1 DEF MergesRun, driveVars
    <3>4. Merged(R).at = b.at /\ Merged(R).db = b.db
      BY <1>0, <3>3, MergedFields
    <3>5. items' \subseteq items \cup {Merged(R)} /\ b \in items
      BY <3>1, <3>3 DEF MergesRun, Run, Pending
    <3>6. \A y \in items' : \E x \in items : x.at = y.at /\ x.db = y.db
      BY <3>4, <3>5
    <3> QED BY <1>0, <1>2, <3>2, <3>3, <3>6, KeptDrops, AbstractStep
  <2>4. CASE \E it \in items : PutManifest(it)
    BY <2>4, ManifestPublishes, AbstractStep
  <2>5. CASE manifests' = manifests /\ \E it \in items, too \in Item : Touched(it, too)
    <3>1. Waiting' = Waiting /\ Faulty' = Faulty
      BY <1>2, <2>5, TouchedWaiting DEF Faulty
    <3> QED BY <2>5, <3>1, PointsStay
  <2>6. CASE (SaveState /\ manifests' = manifests) \/ Quiet
    BY <2>1, <2>6 DEF SaveState, Quiet
  <2>7. CASE \E it \in items : FinishDelete(it)
    BY <1>0, <2>7, FinishDrops, AbstractStep
  <2>8. CASE DiscardVictim
    BY <2>8, VictimDrops, AbstractStep
  <2>9. CASE Sweep /\ manifests' = manifests
    <3>1. Pending \subseteq items' /\ items' \subseteq items
      BY <2>9 DEF Sweep, Pending
    <3>2. Kept
      BY <1>0, <3>1, PendingKeeps
    <3> QED BY <1>0, <1>2, <2>9, <3>1, <3>2, KeptDrops, AbstractStep
  <2> QED BY <1>0, <2>2, <2>3, <2>4, <2>5, <2>6, <2>7, <2>8, <2>9, StepKinds
<1> QED BY <1>1, <1>2

\* The pipeline implements the abstract backup: it publishes snapshots exactly
\* as taken, and drops one only for a newer one or after a fault.
THEOREM PipelinePublishes == Spec => PublishesSnapshots
<1>1. Init => Promise!Init
  BY DEF Init, OutboxInit, Promise!Init
<1>2. PipelineInv /\ PointsAreSnaps /\ PointsAreSnaps' /\ [Next]_vars
        => Promise!Next \/ UNCHANGED <<Waiting, Points, Faulty>>
  BY RefineStep
<1>3. PipelineInv /\ PointsAreSnaps /\ PointsAreSnaps' /\ [Next]_vars
        => [Promise!Next]_<<{[at |-> it.at, db |-> it.db] : it \in items},
                            {[at |-> m.at, db |-> Rebuilt(m)] : m \in manifests}, damage > 0>>
  BY <1>2 DEF Waiting, Points, Faulty
<1> QED BY <1>1, <1>3, PipelineAlways, PointsSnaps, PTL DEF Spec, PublishesSnapshots, Promise!Spec

-----------------------------------------------------------------------------
(* Pruning.  The invariant of the pipeline does not survive a prune that is  *)
(* cut short: the journal then calls committed what is in the trash.  What   *)
(* does is said of the chains that are not queued, and of runs without a     *)
(* crash.                                                                    *)

\* What stands for a restore point: an item of the outbox, or a manifest.
Copies == items \cup manifests

\* A chain is named for its base's time, and nothing is from the future.
Dated == \A x \in Copies : /\ x.chain <= x.at /\ x.at <= now
                           /\ x.seq = 1 => x.at = x.chain

\* Drive's times of a folder are no older than what is in it.
FoldersTouched == /\ \A ch \in folders : ch <= touched[ch] /\ ch <= now
                  /\ \A m \in manifests : m.at <= touched[m.chain]

\* As long as its base waits, nothing else of a chain is on Drive.
BasesFirst == \A m \in manifests, it \in items :
  m.chain = it.chain /\ IsBase(it) => m.seq = 1

\* A chain is queued only while the journal knows a newer one.
QueueBelow == \A q \in queued : \E ch \in CommittedChains : q < ch

\* The folder of a chain in the journal is gone only while it is queued.
EntriesStand == entries \ queued \subseteq folders

\* A chain with a committed item that is not queued has its manifest.
CommittedStand == \A ch \in CommittedChains \ queued :
  \E m \in manifests : m.chain = ch /\ m.seq = committed[ch]

\* What holds whatever crashes.
QueueInv == /\ TypeInv /\ PruneTypeOK /\ ChainInv /\ EntriesKnown
            /\ Dated /\ FoldersTouched /\ BasesFirst
            /\ QueueBelow /\ EntriesStand /\ CommittedStand

\* Nothing of a chain was captured after the next one had begun, and in a
\* chain time goes with the seq.
InOrder == \A x, y \in Copies :
  /\ x.chain < y.chain => x.at < y.chain
  /\ x.chain = y.chain /\ x.seq <= y.seq => x.at <= y.at

\* The state, or the one still to be written, is of the last capture.
IsLast(c) == \A x \in Copies : \/ x.chain < c.chain /\ x.at < c.chain
                               \/ x.chain = c.chain /\ x.seq <= c.seq
Capturing == mem # None /\ mem.job = "capture"
StateLast == /\ Capturing => IsLast(mem.cap)
             /\ ~Capturing /\ cap # None => IsLast(cap)

\* The outbox is done with a chain when a newer one is committed.
OlderDone == \A ch \in CommittedChains : \A it \in items : ch <= it.chain

\* A manifest of a chain in the journal is of its base, is recorded, or is of
\* the item that is under way.
Recorded == \A m \in manifests : m.chain \in entries =>
  \/ m.seq = 1 \/ m.seq <= committed[m.chain]
  \/ \E it \in items : Name(it) = <<m.chain, m.seq>> /\ SentUp(it)

\* What is queued lies behind the cutoff.
QueuedOld == \A m \in manifests : m.chain \in queued => m.at < cutoff

\* What holds while no process died.
UncrashedInv == crashes = 0 => /\ InOrder /\ StateLast /\ OlderDone
                               /\ InflightInv /\ Recorded /\ QueuedOld

PruneInv == QueueInv /\ UncrashedInv
-----------------------------------------------------------------------------
(* What a step does to items and manifests, to the journal's chains, and to  *)
(* what the process has in memory.                                           *)

\* Two copies of one capture.
Alike(x, y) == x.chain = y.chain /\ x.seq = y.seq /\ x.at = y.at

\* A step that captures nothing.
NothingNewer ==
  /\ now' = now
  /\ \A x \in items' : \E y \in items : Alike(x, y) /\ (IsBase(x) => IsBase(y))
  /\ \A m \in manifests' : m \in manifests \/ \E it \in items : PutManifest(it) /\ Alike(m, it)

\* A capture adds the item after what its chain has, or a new chain's base.
Captures(it) ==
  /\ mem = None /\ now' = now + 1 /\ items' = Pending \cup {it}
  /\ UNCHANGED <<journalVars, driveVars, cap, crashes>>
  /\ it.at = now + 1
  /\ \/ /\ cap # None /\ it.chain = cap.chain
        /\ cap.seq < it.seq /\ 1 < it.seq /\ ~IsBase(it)
     \/ it.chain = now + 1 /\ it.seq = 1
  /\ mem' # None /\ mem'.job = "capture"
  /\ mem'.cap.chain = it.chain /\ mem'.cap.seq = it.seq

\* What a capture makes.
LEMMA AddedCaptures ==
  ASSUME TypeInv, Numbers, Numbers', ChainInv, NEW it \in Item, NEW c, NEW r,
         NEW id \in StoreIds, Added(it, c, r, id), UNCHANGED <<journalVars, driveVars>>
  PROVE  Captures(it)
<1>1. it \in items' /\ items' = Pending \cup {it}
  BY AddedAfter
<1>2. it.seq \in Nat /\ it.chain \in Nat /\ now \in Nat
  BY <1>1 DEF Numbers
<1>3. mem' = [job |-> "capture", saved |-> FALSE,
              cap |-> [chain |-> it.chain, seq |-> it.seq, store |-> id,
                       recs |-> r, db |-> c]]
  BY DEF Added
<1>4. mem' # None /\ mem'.job = "capture" /\ mem'.cap.chain = it.chain /\ mem'.cap.seq = it.seq
  <2>1. mem'.cap \in CaptureState
    BY <1>3 DEF Added, CaptureState, Item
  <2>2. mem' \in [job : {"capture"}, saved : BOOLEAN, cap : CaptureState]
    BY <1>3, <2>1
  <2> QED BY <1>3, <2>2, NoneAssumption
<1>5. \/ /\ cap # None /\ it.chain = cap.chain
         /\ cap.seq < it.seq /\ 1 < it.seq /\ ~IsBase(it)
      \/ it.chain = now + 1 /\ it.seq = 1
  <2>1. CASE cap # None /\ it.chain = cap.chain /\ it.seq = Tip.seq + 1 /\ it.prev = Tip.seq
    BY <2>1, TipAbove DEF IsBase, Numbers
  <2>2. CASE it.chain = now + 1 /\ it.seq = 1
    BY <2>2
  <2> QED BY <2>1, <2>2 DEF Added, NewItem
<1> QED BY <1>1, <1>4, <1>5 DEF Captures, Added, NewItem

\* Every step of the pipeline is a capture, or captures nothing.
LEMMA NewerSteps ==
  ASSUME TypeInv, Numbers, Numbers', ChainInv, [Next]_vars
  PROVE  NothingNewer \/ \E it \in Item : Captures(it)
<1>0. \A x : Alike(x, x)
  BY DEF Alike
<1>a. Pending \subseteq items
  BY DEF Pending
<1>1. ASSUME items' \subseteq items, manifests' = manifests, now' = now
      PROVE  NothingNewer
  BY <1>0, <1>1 DEF NothingNewer
<1>2. ASSUME NEW it \in Item, NEW c \in Contents, NEW r \in Recs, NEW id \in StoreIds,
             Added(it, c, r, id), UNCHANGED <<journalVars, driveVars>>
      PROVE  Captures(it)
  BY <1>2, AddedCaptures
<1>3. ASSUME NEW a \in Pending, NEW b \in Pending, NEW R, NEW rest, MergesRun(R, a, b, rest)
      PROVE  NothingNewer
  <2>1. Run(R, a, b, NotMergeable)
    BY <1>3 DEF MergesRun
  <2>2. Alike(Merged(R), b) /\ Merged(R).prev = a.prev
    BY <2>1, MergedFields DEF Alike
  <2>3. a \in R /\ R \subseteq Pending /\ rest \subseteq R /\ \A x \in R : ~IsBase(x)
    BY <1>3, <2>1 DEF Run, MergesRun
  <2>4. ~IsBase(Merged(R))
    BY <2>2, <2>3 DEF IsBase
  <2>5. items' = (Pending \ R) \cup {Merged(R)} \cup rest
        /\ now' = now /\ manifests' = manifests
    BY <1>3 DEF MergesRun, driveVars
  <2> HIDE DEF MergesRun
  <2> QED BY <1>0, <1>a, <2>2, <2>3, <2>4, <2>5 DEF NothingNewer
<1>4. ASSUME NEW it \in items, PutManifest(it)
      PROVE  NothingNewer
  <2>1. Alike(ManifestOf(it), it)
    BY DEF Alike, ManifestOf
  <2>2. manifests' = manifests \cup {ManifestOf(it)} /\ items' = items /\ now' = now
    BY <1>4 DEF PutManifest, outboxVars
  <2> QED BY <1>0, <1>4, <2>1, <2>2 DEF NothingNewer
<1>5. ASSUME NEW it \in items, NEW too \in Item, Touched(it, too),
             UNCHANGED <<now, manifests>>
      PROVE  NothingNewer
  <2>1. Alike(too, it) /\ (IsBase(too) => IsBase(it))
    BY <1>5 DEF Touched, Same, Alike, IsBase
  <2> QED BY <1>0, <1>5, <2>1 DEF NothingNewer, Touched
<1>6. SaveState /\ manifests' = manifests => NothingNewer
  BY <1>1 DEF SaveState
<1>7. (\E it \in items : FinishDelete(it)) => NothingNewer
  BY <1>1 DEF FinishDelete, driveVars
<1>8. DiscardVictim => NothingNewer
  BY <1>1 DEF DiscardVictim, driveVars
<1>9. Sweep /\ manifests' = manifests => NothingNewer
  BY <1>1, <1>a DEF Sweep
<1>10. Quiet => NothingNewer
  BY <1>1 DEF Quiet
<1> QED BY <1>2, <1>3, <1>4, <1>5, <1>6, <1>7, <1>8, <1>9, <1>10, StepKinds

\* What a step of the pipeline does to the chains of the journal.
LEMMA JournalSteps ==
  ASSUME [Next]_vars
  PROVE  \/ \E it \in items : StartItem(it) \/ RecordCommit(it)
         \/ LoseJournal
         \/ UNCHANGED <<entries, committed, folders>>
<1>1. CASE Outbox
  BY <1>1 DEF Outbox, journalVars, driveVars
<1>2. CASE Upload
  <2>1. PICK it \in items :
          \/ StartItem(it)
          \/ \E k \in Kinds, kept \in BOOLEAN : SendFile(it, k, kept)
          \/ PutManifest(it)
          \/ RecordCommit(it)
          \/ FinishDropState(it)
          \/ FinishDelete(it)
    BY <1>2 DEF Upload
  <2>2. CASE \E k \in Kinds, kept \in BOOLEAN : SendFile(it, k, kept)
    BY <2>2 DEF SendFile
  <2>3. CASE PutManifest(it) \/ FinishDropState(it) \/ FinishDelete(it)
    BY <2>3 DEF PutManifest, FinishDropState, FinishDelete, journalVars, driveVars
  <2> QED BY <2>1, <2>2, <2>3
<1>3. CASE DiscardBegin
  <2>1. PICK it \in items : Discard(it)
    BY <1>3 DEF DiscardBegin, DiscardGap, DiscardMissing, DiscardCorrupt,
                DiscardRefused, DiscardUnmergeable
  <2> QED BY <2>1 DEF Discard, driveVars
<1>4. CASE DiscardDropState \/ DiscardVictim
  BY <1>4 DEF DiscardDropState, DiscardVictim, journalVars, driveVars
<1>5. CASE Faults
  <2>1. CASE (Crash \/ OutboxDamage) /\ UNCHANGED <<journalVars, driveVars>>
    BY <2>1 DEF journalVars, driveVars
  <2>2. CASE \E it \in items, k \in Kinds : Mismatch(it, k)
    BY <2>2 DEF Mismatch, driveVars
  <2> QED BY <1>5, <2>1, <2>2 DEF Faults
<1>6. CASE UNCHANGED vars
  BY <1>6 DEF vars, journalVars, driveVars
<1> QED BY <1>1, <1>2, <1>3, <1>4, <1>5, <1>6 DEF Next

-----------------------------------------------------------------------------
(* The newest committed chain, and what a prune step leaves.                 *)

\* A nonempty set of chains has a newest one.
LEMMA NewestOfChains ==
  ASSUME NEW S, S \subseteq Chains, S # {}
  PROVE  NewestIn(S) \in S /\ \A ch \in S : ch <= NewestIn(S)
<1> DEFINE T == {MaxCaptures - ch : ch \in S}
<1>0. MaxCaptures \in Nat /\ \A ch \in S : ch \in 1..MaxCaptures
  BY ConstantsAssumption DEF Chains
<1>1. T \subseteq Nat /\ T # {}
  <2>1. \A ch \in S : MaxCaptures - ch \in Nat
    BY <1>0
  <2> QED BY <2>1
<1>2. PICK x \in T : \A y \in T : x <= y
  BY <1>1, MinNat
<1>3. PICK c \in S : x = MaxCaptures - c
  OBVIOUS
<1>4. \A d \in S : MaxCaptures - c <= MaxCaptures - d
  BY <1>2, <1>3
<1>5. \A d \in S : d <= c
  BY <1>0, <1>4
<1> QED BY <1>5 DEF NewestIn

\* The chains of the journal, of Drive and of the queue are numbers.
LEMMA ChainNumbers ==
  ASSUME TypeInv
  PROVE  /\ Chains \subseteq Nat /\ entries \subseteq Chains /\ folders \subseteq Chains
         /\ CommittedChains \subseteq entries
         /\ committed \in [Chains -> 0..MaxCaptures]
         /\ \A ch \in Chains : committed[ch] \in Nat
<1>1. Chains \subseteq Nat /\ 0..MaxCaptures \subseteq Nat
  BY ConstantsAssumption DEF Chains
<1>2. entries \subseteq Chains /\ folders \subseteq Chains
      /\ committed \in [Chains -> 0..MaxCaptures]
  BY DEF TypeInv, TypeOK, JournalTypeOK
<1>3. CommittedChains \subseteq entries
  BY DEF CommittedChains
<1> QED BY <1>1, <1>2, <1>3

\* The newest committed chain is one, and none is above it.
LEMMA NewestIsMax ==
  ASSUME TypeInv, CommittedChains # {}
  PROVE  NewestChain \in CommittedChains /\ \A ch \in CommittedChains : ch <= NewestChain
<1>1. CommittedChains \subseteq Chains
  BY ChainNumbers
<1> QED BY <1>1, NewestOfChains DEF NewestChain

\* What prunes may do: queue chains, trash one, or nothing that matters here.
Queues(cut, seen) == /\ cut \in 0..(now + 1) /\ seen \subseteq Unknown(cut)
                     /\ PruneQueue(cut, seen)

\* Every prune step leaves the outbox and takes at most from journal and Drive.
LEMMA PruneLeaves ==
  ASSUME TypeInv, Prune
  PROVE  /\ UNCHANGED <<items, idx, cap, now, mem, damage, started, sent, refused, nextId,
                        touched>>
         /\ entries' \subseteq entries /\ folders' \subseteq folders
         /\ manifests' \subseteq manifests /\ deletes' \subseteq deletes
         /\ files' \subseteq files
         /\ crashes' = crashes \/ (crashes < MaxCrashes /\ crashes' = crashes + 1)
<1>1. Trimmed \subseteq files
  BY DEF Trimmed, ManifestFiles
<1>2. CASE \E cut \in 0..(now + 1) : \E seen \in SUBSET Unknown(cut) : PruneQueue(cut, seen)
  BY <1>1, <1>2 DEF PruneQueue, outboxVars, driveVars
<1>3. CASE PruneHeld
  BY <1>1, <1>3 DEF PruneHeld, outboxVars, driveVars
<1>4. CASE \E ch \in Chains : TrashChain(ch)
  BY <1>4 DEF TrashChain, Trash, outboxVars
<1>5. CASE \E ch \in Chains : TrashChainCrash(ch)
  BY <1>5 DEF TrashChainCrash, Trash, journalVars
<1>6. CASE \E id \in deletes : TrashFile(id)
  BY <1>6 DEF TrashFile, outboxVars, driveVars, pruneVars
<1> QED BY <1>2, <1>3, <1>4, <1>5, <1>6 DEF Prune

\* What a prune step does to the queue and to the chains of journal and Drive.
LEMMA PruneSteps ==
  ASSUME TypeInv, PruneTypeOK, Prune
  PROVE  \/ /\ \E cut, seen : Queues(cut, seen)
            /\ UNCHANGED <<entries, committed, folders, manifests, crashes>>
         \/ /\ UNCHANGED <<queued, cutoff, entries, committed, folders, manifests, crashes>>
         \/ \E ch \in queued :
              /\ queued' = queued \ {ch} /\ entries' = entries \ {ch}
              /\ committed' = [committed EXCEPT ![ch] = 0]
              /\ folders' = folders \ {ch} /\ manifests' = {m \in manifests : m.chain # ch}
              /\ UNCHANGED <<cutoff, crashes>>
              /\ files' = {f \in files : f.chain # ch}
         \/ \E ch \in queued :
              /\ folders' = folders \ {ch} /\ manifests' = {m \in manifests : m.chain # ch}
              /\ crashes' = crashes + 1 /\ UNCHANGED <<queued, cutoff, entries, committed>>
<1>1. CASE \E cut \in 0..(now + 1) : \E seen \in SUBSET Unknown(cut) : PruneQueue(cut, seen)
  BY <1>1 DEF PruneQueue, Queues, outboxVars, driveVars
<1>2. CASE PruneHeld
  BY <1>2 DEF PruneHeld, outboxVars, driveVars
<1>3. CASE \E ch \in Chains : TrashChain(ch)
  BY <1>3 DEF TrashChain, Trash, outboxVars
<1>4. CASE \E ch \in Chains : TrashChainCrash(ch)
  BY <1>4 DEF TrashChainCrash, Trash, journalVars
<1>5. CASE \E id \in deletes : TrashFile(id)
  BY <1>5 DEF TrashFile, outboxVars, driveVars, pruneVars
<1> QED BY <1>1, <1>2, <1>3, <1>4, <1>5 DEF Prune

\* What is queued, is of chains below the newest committed one.
LEMMA QueuedBelow ==
  ASSUME QueueInv, NEW cut, NEW seen, Queues(cut, seen),
         NEW q \in (Eligible(cut) \cup seen)
  PROVE  q \in Chains /\ CommittedChains # {} /\ q < NewestChain
<1>1. TypeInv /\ CommittedChains # {}
  BY DEF QueueInv, Queues, Eligible, Unknown
<1>2. NewestChain \in CommittedChains /\ \A ch \in CommittedChains : ch <= NewestChain
  BY <1>1, NewestIsMax
<1>3. entries \subseteq Chains /\ folders \subseteq Chains /\ CommittedChains \subseteq entries
      /\ Chains \subseteq Nat
  BY <1>1, ChainNumbers
<1>4. CASE q \in Eligible(cut)
  <2>1. \/ q \in CommittedChains /\ q # NewestChain
        \/ q \in entries /\ q < NewestChain
    BY <1>1, <1>4 DEF Eligible
  <2>2. NewestChain \in Nat
    BY <1>2, <1>3
  <2>3. q \in CommittedChains => q \in entries /\ q <= NewestChain
    BY <1>2, <1>3
  <2>4. q \in entries
    BY <2>1, <2>3
  <2>5. q \in Nat /\ q \in Chains
    BY <1>3, <2>4
  <2>6. q < NewestChain
    BY <2>1, <2>2, <2>3, <2>5
  <2> QED BY <1>1, <2>5, <2>6
<1>5. CASE q \in seen
  <2>1. q \in folders /\ touched[q] < NewestChain
    BY <1>1, <1>5 DEF Queues, Unknown
  <2>2. q <= touched[q] /\ touched[q] \in 0..MaxCaptures
    BY <1>3, <2>1 DEF QueueInv, FoldersTouched, PruneTypeOK
  <2> QED BY <1>1, <1>2, <1>3, <2>1, <2>2, ConstantsAssumption
<1> QED BY <1>4, <1>5

\* What is queued stays in the invariant's sight.
LEMMA NewestUnqueued ==
  ASSUME QueueInv, CommittedChains # {}
  PROVE  /\ NewestChain \in CommittedChains \ queued
         /\ \A ch \in CommittedChains \cup queued : ch <= NewestChain
         /\ \A q \in queued : q < NewestChain
<1>1. NewestChain \in CommittedChains /\ \A ch \in CommittedChains : ch <= NewestChain
  BY NewestIsMax DEF QueueInv
<1>2. CommittedChains \subseteq Nat /\ queued \subseteq Nat
  <2>1. TypeInv /\ queued \subseteq Chains
    BY DEF QueueInv, PruneTypeOK
  <2> QED BY <2>1, ChainNumbers
<1>3. \A q \in queued : q < NewestChain
  BY <1>1, <1>2 DEF QueueInv, QueueBelow
<1> QED BY <1>1, <1>2, <1>3

-----------------------------------------------------------------------------
(* QueueInv is inductive.                                                    *)

\* Prune keeps the types of journal and Drive.
LEMMA PruneKeepsTypes ==
  ASSUME TypeInv, PruneTypeOK, Prune
  PROVE  TypeInv' /\ PruneTypeOK'
<1>1. /\ UNCHANGED <<items, idx, cap, now, mem, damage, started, sent, refused, nextId, touched>>
      /\ entries' \subseteq entries /\ folders' \subseteq folders
      /\ manifests' \subseteq manifests /\ deletes' \subseteq deletes /\ files' \subseteq files
      /\ crashes' = crashes \/ (crashes < MaxCrashes /\ crashes' = crashes + 1)
  BY PruneLeaves
<1>2. crashes' \in 0..MaxCrashes
  BY <1>1, ConstantsAssumption DEF TypeInv, TypeOK, OutboxTypeOK
<1>3. OutboxTypeOK' /\ SeqBound'
  BY <1>1, <1>2 DEF TypeInv, TypeOK, OutboxTypeOK, SeqBound
<1>4. CASE \E cut, seen : Queues(cut, seen)
  <2>1. PICK cut, seen : Queues(cut, seen)
    BY <1>4
  <2>2. /\ cut \in 0..(now + 1) /\ seen \subseteq Unknown(cut)
        /\ queued' = queued \cup Eligible(cut) \cup seen /\ pruning' = TRUE
        /\ cutoff' = IF cut = 0 THEN cutoff ELSE cut
        /\ committed' = committed
    BY <2>1 DEF Queues, PruneQueue
  <2>3. Eligible(cut) \subseteq entries /\ seen \subseteq folders
    BY <2>2 DEF Eligible, CommittedChains, Unknown
  <2>4. now \in 0..MaxCaptures /\ MaxCaptures \in Nat
    BY ConstantsAssumption DEF TypeInv, TypeOK, OutboxTypeOK
  <2>5. cutoff' \in 0..MaxCaptures + 1
    BY <2>2, <2>4 DEF PruneTypeOK
  <2>6. queued' \subseteq Chains
    BY <2>2, <2>3, ChainNumbers DEF PruneTypeOK
  <2>7. JournalTypeOK'
    BY <1>1, <2>2 DEF TypeInv, TypeOK, JournalTypeOK
  <2> QED BY <1>1, <1>3, <2>2, <2>5, <2>6, <2>7 DEF TypeInv, TypeOK, PruneTypeOK
<1>5. CASE ~\E cut, seen : Queues(cut, seen)
  <2>1. queued' \subseteq queued /\ cutoff' = cutoff /\ pruning' \in BOOLEAN
    <3>1. CASE \E cut \in 0..(now + 1) : \E seen \in SUBSET Unknown(cut) : PruneQueue(cut, seen)
      BY <1>5, <3>1 DEF Queues
    <3>2. CASE PruneHeld
      BY <3>2 DEF PruneHeld
    <3>3. CASE \E ch \in Chains : TrashChain(ch) \/ TrashChainCrash(ch)
      BY <3>3 DEF TrashChain, TrashChainCrash, PruneTypeOK
    <3>4. CASE \E id \in deletes : TrashFile(id)
      BY <3>4 DEF TrashFile, pruneVars, PruneTypeOK
    <3> QED BY <3>1, <3>2, <3>3, <3>4 DEF Prune
  <2>2. committed' \in [Chains -> 0..MaxCaptures]
    <3>1. committed \in [Chains -> 0..MaxCaptures] /\ 0 \in 0..MaxCaptures
      BY ConstantsAssumption DEF TypeInv, TypeOK, JournalTypeOK
    <3>2. committed' = committed \/ \E ch : committed' = [committed EXCEPT ![ch] = 0]
      BY <1>5, PruneSteps
    <3> QED BY <3>1, <3>2
  <2>3. JournalTypeOK'
    BY <1>1, <2>2 DEF TypeInv, TypeOK, JournalTypeOK
  <2> QED BY <1>1, <1>3, <2>1, <2>3 DEF TypeInv, TypeOK, PruneTypeOK
<1> QED BY <1>4, <1>5

\* So does the pipeline, with the times it leaves on Drive.
LEMMA PipelineKeepsTypes ==
  ASSUME TypeInv, PruneTypeOK, Pipeline
  PROVE  TypeInv' /\ PruneTypeOK'
<1>1. TypeInv'
  BY TypeInvStep DEF Pipeline
<1>2. now \in 0..MaxCaptures
  BY DEF TypeInv, TypeOK, OutboxTypeOK
<1>3. touched' \in [Chains -> 0..MaxCaptures]
  <2>1. touched' = [ch \in Chains |-> IF Touches(ch) THEN now ELSE touched[ch]]
    BY DEF Pipeline
  <2>2. touched \in [Chains -> 0..MaxCaptures]
    BY DEF PruneTypeOK
  <2> HIDE DEF Touches
  <2> QED BY <1>2, <2>1, <2>2
<1>4. queued' \subseteq Chains /\ cutoff' = cutoff /\ pruning' = FALSE
  BY DEF Pipeline, PruneTypeOK
<1> QED BY <1>1, <1>3, <1>4 DEF PruneTypeOK, TypeInv

\* Nothing is from the future.
LEMMA DatedStep ==
  ASSUME TypeInv, Numbers, Numbers', ChainInv, Dated, [Next]_vars
  PROVE  Dated'
<1>1. CASE NothingNewer
  <2>1. \A x \in items' \cup manifests' : \E y \in Copies : Alike(x, y)
    <3>1. \A m \in manifests : Alike(m, m)
      BY DEF Alike
    <3> QED BY <1>1, <3>1 DEF NothingNewer, Copies
  <2> QED BY <1>1, <2>1 DEF Dated, Copies, NothingNewer, Alike
<1>2. CASE \E it \in Item : Captures(it)
  <2>1. PICK it \in Item : Captures(it)
    BY <1>2
  <2>2. items' \cup manifests' \subseteq Copies \cup {it} /\ now' = now + 1
    BY <2>1 DEF Captures, Copies, Pending, driveVars
  <2>3. it.chain \in Nat /\ it.at = now + 1 /\ now \in Nat /\ it.chain <= now + 1
        /\ (it.seq = 1 => it.at = it.chain)
    <3>1. it \in items'
      BY <2>1 DEF Captures
    <3>2. it.chain \in Nat /\ now \in Nat
      BY <3>1 DEF Numbers
    <3>3. CASE cap # None /\ it.chain = cap.chain /\ 1 < it.seq
      BY <2>1, <3>2, <3>3 DEF Captures, ChainInv, ChainsKnown
    <3>4. CASE it.chain = now + 1 /\ it.seq = 1
      BY <2>1, <3>2, <3>4 DEF Captures
    <3> QED BY <2>1, <3>3, <3>4 DEF Captures
  <2>4. \A x \in Copies : x.at \in Nat /\ x.chain \in Nat
    BY DEF Copies, Numbers
  <2>5. \A x \in Copies : x.at <= now + 1
    BY <2>3, <2>4 DEF Dated
  <2> QED BY <2>2, <2>3, <2>5 DEF Dated, Copies
<1> QED BY <1>1, <1>2, NewerSteps

\* What comes to a folder renews its time.
LEMMA FoldersTouchedStep ==
  ASSUME TypeInv, TypeInv', Numbers, Numbers', ChainInv, PruneTypeOK, Dated, FoldersTouched,
         Pipeline
  PROVE  FoldersTouched'
<1>1. touched' = [ch \in Chains |-> IF Touches(ch) THEN now ELSE touched[ch]]
  BY DEF Pipeline
<1>2. now \in Nat /\ Chains \subseteq Nat /\ \A ch \in Chains : touched[ch] \in Nat
  BY ConstantsAssumption DEF Numbers, PruneTypeOK, Chains
<1>0. now' \in Nat /\ now <= now'
  BY <1>2, NewerSteps DEF Pipeline, NothingNewer, Captures
<1>3. ASSUME NEW ch \in folders'
      PROVE  ch <= touched'[ch] /\ ch <= now'
  <2>1. ch \in Chains
    BY DEF TypeInv, TypeOK, JournalTypeOK
  <2>2. CASE Touches(ch)
    <3>1. ch \in folders \/ ch <= now
      <4>1. CASE \E it \in items : StartItem(it)
        BY <4>1 DEF StartItem, ChainInv, Shape
      <4>2. CASE ~\E it \in items : StartItem(it)
        BY <4>2, JournalSteps DEF Pipeline, RecordCommit, LoseJournal, driveVars
      <4> QED BY <4>1, <4>2
    <3>2. ch \in folders => ch <= now
      BY DEF FoldersTouched
    <3> QED BY <1>0, <1>1, <1>2, <2>1, <2>2, <3>1, <3>2
  <2>3. CASE ~Touches(ch)
    BY <1>0, <1>1, <1>2, <2>1, <2>3 DEF Touches, FoldersTouched
  <2> QED BY <2>2, <2>3
<1>4. ASSUME NEW m \in manifests'
      PROVE  m.at <= touched'[m.chain]
  <2>1. m.chain \in Chains /\ m.at \in Nat
    BY DEF Numbers
  <2>2. CASE Touches(m.chain)
    <3>1. m.at <= now
      <4>1. CASE m \in manifests
        BY <4>1 DEF Dated, Copies
      <4>2. CASE m \notin manifests
        <5>1. CASE NothingNewer
          BY <4>2, <5>1 DEF NothingNewer, Alike, Dated, Copies
        <5>2. CASE \E it \in Item : Captures(it)
          BY <4>2, <5>2 DEF Captures, driveVars
        <5> QED BY <5>1, <5>2, NewerSteps DEF Pipeline
      <4> QED BY <4>1, <4>2
    <3> QED BY <1>1, <2>1, <2>2, <3>1
  <2>3. CASE ~Touches(m.chain)
    <3>1. m \in manifests
      BY <2>3 DEF Touches
    <3> QED BY <1>1, <2>1, <2>3, <3>1 DEF FoldersTouched
  <2> QED BY <2>2, <2>3
<1> QED BY <1>3, <1>4 DEF FoldersTouched

\* An upload takes a chain's base before the rest of the chain.
LEMMA BasesFirstStep ==
  ASSUME TypeInv, Numbers, Numbers', ChainInv, FoldersTouched, Dated, BasesFirst, [Next]_vars
  PROVE  BasesFirst'
<1> SUFFICES ASSUME NEW m \in manifests', NEW it \in items', m.chain = it.chain, IsBase(it)
             PROVE  m.seq = 1
  BY DEF BasesFirst
<1>0. \A x \in items : IsBase(x) => x.seq = 1 /\ x \in Pending
  <2> SUFFICES ASSUME NEW x \in items, IsBase(x) PROVE x.seq = 1 /\ x \in Pending
    OBVIOUS
  <2>1. x.seq = 1
    BY DEF ChainInv, Shape, IsBase
  <2>2. \A o \in items : o.chain = x.chain => x.seq <= o.prev \/ o.seq <= x.seq
    <3> SUFFICES ASSUME NEW o \in items, o.prev = 0 PROVE o.seq <= x.seq
      BY <2>1 DEF Numbers
    <3> QED BY <2>1 DEF ChainInv, Shape
  <2> QED BY <2>1, <2>2, PendingIs DEF ChainInv
<1>1. CASE NothingNewer
  <2>1. PICK y \in items : Alike(it, y) /\ IsBase(y)
    BY <1>1 DEF NothingNewer
  <2>2. CASE m \in manifests
    BY <2>1, <2>2 DEF BasesFirst, Alike
  <2>3. CASE m \notin manifests
    <3>1. PICK x \in items : PutManifest(x) /\ Alike(m, x)
      BY <1>1, <2>3 DEF NothingNewer
    <3>2. Oldest(x) /\ x.chain = y.chain /\ y \in Pending /\ y.seq = 1 /\ x.seq \in Nat /\ 1 <= x.seq
      BY <1>0, <2>1, <3>1 DEF PutManifest, Uploading, Alike, Numbers
    <3>3. x = y \/ x.seq < y.seq
      BY <3>2 DEF Oldest, Before
    <3> QED BY <3>1, <3>2, <3>3 DEF Alike
  <2> QED BY <2>2, <2>3
<1>2. CASE \E x \in Item : Captures(x)
  <2>1. PICK x \in Item : Captures(x)
    BY <1>2
  <2>2. m \in manifests /\ (it \in items \/ it = x)
    BY <2>1 DEF Captures, driveVars, Pending
  <2>3. CASE it = x
    <3>1. m.chain = now + 1
      BY <2>1, <2>3 DEF Captures
    <3>2. m.chain <= m.at /\ m.at <= now /\ m.chain \in Nat /\ m.at \in Nat /\ now \in Nat
      BY <2>2 DEF Dated, Copies, Numbers
    <3> QED BY <3>1, <3>2
  <2> QED BY <2>2, <2>3 DEF BasesFirst
<1> QED BY <1>1, <1>2, NewerSteps

\* What the pipeline does to the chains of the journal and to the queue: it loses
\* both, or it starts a chain, or commits an item, or leaves them.
LEMMA QueueSteps ==
  ASSUME TypeInv, EntriesKnown, QueueBelow, Pipeline
  PROVE  \/ entries' = {} /\ queued' = {} /\ manifests' = manifests
         \/ /\ queued' = queued
            /\ \/ \E it \in items : StartItem(it) /\ CommittedChains' = CommittedChains
               \/ \E it \in items :
                    /\ RecordCommit(it) /\ it.chain \in entries /\ entries' = entries
                    /\ CommittedChains' = CommittedChains \cup {it.chain}
               \/ UNCHANGED <<entries, committed, folders>>
<1>0. queued' = IF entries # {} /\ entries' = {} THEN {} ELSE queued
  BY DEF Pipeline
<1>1. CASE \E it \in items : StartItem(it)
  <2>1. PICK it \in items : StartItem(it)
    BY <1>1
  <2>2. entries' = entries \cup {it.chain} /\ committed' = committed
    BY <2>1 DEF StartItem
  <2>3. it.chain \in Chains /\ committed[it.chain] \in Nat
    BY ChainNumbers DEF TypeInv, TypeOK, OutboxTypeOK, Item
  <2>4. CommittedChains' = CommittedChains
    BY <2>2, <2>3 DEF CommittedChains, EntriesKnown
  <2> QED BY <1>0, <2>1, <2>2, <2>4
<1>2. CASE \E it \in items : RecordCommit(it)
  <2>1. PICK it \in items : RecordCommit(it)
    BY <1>2
  <2>2. /\ entries' = entries /\ committed' = [committed EXCEPT ![it.chain] = it.seq]
        /\ it.chain \in entries
    BY <2>1 DEF RecordCommit, Begun
  <2>3. it.seq \in Nat /\ 1 <= it.seq
    BY NumbersType DEF Numbers
  <2>4. entries \subseteq DOMAIN committed
    BY ChainNumbers
  <2>5. CommittedChains' = CommittedChains \cup {it.chain}
    BY <2>2, <2>3, <2>4 DEF CommittedChains
  <2> QED BY <1>0, <2>1, <2>2, <2>5
<1>3. CASE LoseJournal
  <2>1. entries' = {} /\ manifests' = manifests
    BY <1>3 DEF LoseJournal, driveVars
  <2>2. entries = {} => queued = {}
    BY DEF QueueBelow, CommittedChains
  <2> QED BY <1>0, <2>1, <2>2
<1>4. CASE UNCHANGED <<entries, committed, folders>>
  BY <1>0, <1>4
<1> QED BY <1>1, <1>2, <1>3, <1>4, JournalSteps DEF Pipeline

\* A manifest, once on Drive, is taken away by prunes only.
LEMMA ManifestsStay ==
  ASSUME [Next]_vars
  PROVE  manifests \subseteq manifests'
<1>1. CASE Outbox
  BY <1>1 DEF Outbox, driveVars
<1>2. CASE Upload
  <2>1. PICK it \in items :
          \/ StartItem(it)
          \/ \E k \in Kinds, kept \in BOOLEAN : SendFile(it, k, kept)
          \/ PutManifest(it)
          \/ RecordCommit(it)
          \/ FinishDropState(it)
          \/ FinishDelete(it)
    BY <1>2 DEF Upload
  <2>2. CASE \E k \in Kinds, kept \in BOOLEAN : SendFile(it, k, kept)
    BY <2>2 DEF SendFile
  <2>3. CASE StartItem(it) \/ PutManifest(it) \/ RecordCommit(it)
    BY <2>3 DEF StartItem, PutManifest, RecordCommit, driveVars
  <2>4. CASE FinishDropState(it) \/ FinishDelete(it)
    BY <2>4 DEF FinishDropState, FinishDelete, driveVars
  <2> QED BY <2>1, <2>2, <2>3, <2>4
<1>3. CASE DiscardBegin
  <2>1. PICK it \in items : Discard(it)
    BY <1>3 DEF DiscardBegin, DiscardGap, DiscardMissing, DiscardCorrupt,
                DiscardRefused, DiscardUnmergeable
  <2> QED BY <2>1 DEF Discard, driveVars
<1>4. CASE DiscardDropState \/ DiscardVictim
  BY <1>4 DEF DiscardDropState, DiscardVictim, driveVars
<1>5. CASE Faults
  <2>1. CASE (Crash \/ OutboxDamage) /\ UNCHANGED <<journalVars, driveVars>>
    BY <2>1 DEF driveVars
  <2>2. CASE LoseJournal \/ \E it \in items, k \in Kinds : Mismatch(it, k)
    BY <2>2 DEF LoseJournal, Mismatch, driveVars
  <2> QED BY <1>5, <2>1, <2>2 DEF Faults
<1>6. CASE UNCHANGED vars
  BY <1>6 DEF vars, driveVars
<1> QED BY <1>1, <1>2, <1>3, <1>4, <1>5, <1>6 DEF Next

\* The queue keeps below what is committed, whatever the pipeline does.
LEMMA PipelineKeepsQueue ==
  ASSUME QueueInv, Pipeline
  PROVE  (QueueBelow /\ EntriesStand /\ CommittedStand)'
<1>0. TypeInv /\ EntriesKnown /\ QueueBelow /\ EntriesStand /\ CommittedStand
  BY DEF QueueInv
<1>m. manifests \subseteq manifests'
  BY ManifestsStay DEF Pipeline
<1>1. CASE entries' = {} /\ queued' = {}
  BY <1>1 DEF QueueBelow, EntriesStand, CommittedStand, CommittedChains
<1>2. ASSUME NEW it \in items, StartItem(it), queued' = queued,
             CommittedChains' = CommittedChains
      PROVE  (QueueBelow /\ EntriesStand /\ CommittedStand)'
  <2>1. /\ entries' = entries \cup {it.chain} /\ committed' = committed
        /\ folders' = IF it.chain \in entries THEN folders ELSE folders \cup {it.chain}
    BY <1>2 DEF StartItem
  <2>2. QueueBelow'
    BY <1>0, <1>2 DEF QueueBelow
  <2>3. EntriesStand'
    BY <1>0, <1>2, <2>1 DEF EntriesStand
  <2>4. CommittedStand'
    BY <1>0, <1>m, <1>2, <2>1 DEF CommittedStand
  <2> QED BY <2>2, <2>3, <2>4
<1>3. ASSUME NEW it \in items, RecordCommit(it), it.chain \in entries, entries' = entries,
             queued' = queued, CommittedChains' = CommittedChains \cup {it.chain}
      PROVE  (QueueBelow /\ EntriesStand /\ CommittedStand)'
  <2>1. /\ committed' = [committed EXCEPT ![it.chain] = it.seq]
        /\ it.chain \in folders => ManifestOf(it) \in manifests
        /\ UNCHANGED <<folders, manifests>>
    BY <1>3 DEF RecordCommit, driveVars
  <2>2. QueueBelow'
    BY <1>0, <1>3 DEF QueueBelow
  <2>3. EntriesStand'
    BY <1>0, <1>3, <2>1 DEF EntriesStand
  <2>4. CommittedStand'
    <3> SUFFICES ASSUME NEW ch \in CommittedChains', ch \notin queued
                 PROVE  \E m \in manifests : m.chain = ch /\ m.seq = committed'[ch]
      BY <1>3, <2>1 DEF CommittedStand
    <3>1. ch \in DOMAIN committed /\ it.chain \in DOMAIN committed
      BY <1>0, <1>3, ChainNumbers
    <3>2. CASE ch = it.chain
      <4>1. ManifestOf(it) \in manifests
        BY <1>0, <1>3, <2>1, <3>2 DEF EntriesStand
      <4> QED BY <2>1, <3>1, <3>2, <4>1 DEF ManifestOf
    <3>3. CASE ch # it.chain
      BY <1>0, <1>3, <2>1, <3>1, <3>3 DEF CommittedStand
    <3> QED BY <3>2, <3>3
  <2> QED BY <2>2, <2>3, <2>4
<1>4. CASE queued' = queued /\ UNCHANGED <<entries, committed, folders>>
  BY <1>0, <1>m, <1>4 DEF QueueBelow, EntriesStand, CommittedStand, CommittedChains
<1> QED BY <1>0, <1>1, <1>2, <1>3, <1>4, QueueSteps

\* And whatever a prune queues or trashes.
LEMMA PruneKeepsQueue ==
  ASSUME QueueInv, Prune
  PROVE  (QueueBelow /\ EntriesStand /\ CommittedStand)'
<1>0. TypeInv /\ PruneTypeOK /\ QueueBelow /\ EntriesStand /\ CommittedStand
  BY DEF QueueInv
<1>1. ASSUME NEW cut, NEW seen, Queues(cut, seen),
             UNCHANGED <<entries, committed, folders, manifests>>
      PROVE  (QueueBelow /\ EntriesStand /\ CommittedStand)'
  <2>1. queued' = queued \cup Eligible(cut) \cup seen /\ CommittedChains' = CommittedChains
    BY <1>1 DEF Queues, PruneQueue, CommittedChains
  <2>2. \A q \in Eligible(cut) \cup seen : CommittedChains # {} /\ q < NewestChain
    BY <1>1, QueuedBelow
  <2>3. QueueBelow'
    BY <1>0, <2>1, <2>2, NewestIsMax DEF QueueBelow
  <2>4. (EntriesStand /\ CommittedStand)'
    BY <1>0, <1>1, <2>1 DEF EntriesStand, CommittedStand
  <2> QED BY <2>3, <2>4
<1>2. CASE UNCHANGED <<queued, entries, committed, folders, manifests>>
  BY <1>0, <1>2 DEF QueueBelow, EntriesStand, CommittedStand, CommittedChains
<1>3. ASSUME NEW ch \in queued,
             folders' = folders \ {ch}, manifests' = {m \in manifests : m.chain # ch}
      PROVE  /\ ch \in Chains /\ CommittedChains # {} /\ NewestChain \in CommittedChains
             /\ ch < NewestChain /\ \A q \in queued : q < NewestChain
             /\ \A c \in CommittedChains \ queued :
                   c # ch /\ \E m \in manifests' : m.chain = c /\ m.seq = committed[c]
  <2>1. ch \in Chains /\ CommittedChains # {}
    BY <1>0 DEF QueueBelow, PruneTypeOK
  <2>2. \A c \in CommittedChains \ queued :
          c # ch /\ \E m \in manifests' : m.chain = c /\ m.seq = committed[c]
    BY <1>0, <1>3 DEF CommittedStand
  <2> QED BY <2>1, <2>2, NewestUnqueued
<1>4. ASSUME NEW ch \in queued,
             queued' = queued \ {ch}, entries' = entries \ {ch},
             committed' = [committed EXCEPT ![ch] = 0],
             folders' = folders \ {ch}, manifests' = {m \in manifests : m.chain # ch}
      PROVE  (QueueBelow /\ EntriesStand /\ CommittedStand)'
  <2>1. /\ ch \in Chains /\ NewestChain \in CommittedChains /\ ch < NewestChain
        /\ \A q \in queued : q < NewestChain
        /\ \A c \in CommittedChains \ queued :
              \E m \in manifests' : m.chain = c /\ m.seq = committed[c]
    BY <1>3, <1>4
  <2>2. NewestChain # ch
    BY <1>0, <2>1, ChainNumbers
  <2>3. CommittedChains' = CommittedChains \ {ch} /\ \A c \in CommittedChains' : committed'[c] = committed[c]
    BY <1>0, <1>4, <2>1, ChainNumbers DEF CommittedChains
  <2>4. QueueBelow'
    BY <1>4, <2>1, <2>2, <2>3 DEF QueueBelow
  <2>5. EntriesStand'
    BY <1>0, <1>4 DEF EntriesStand
  <2>6. CommittedStand'
    BY <1>4, <2>1, <2>3 DEF CommittedStand
  <2> QED BY <2>4, <2>5, <2>6
<1>5. ASSUME NEW ch \in queued, UNCHANGED <<queued, entries, committed>>,
             folders' = folders \ {ch}, manifests' = {m \in manifests : m.chain # ch}
      PROVE  (QueueBelow /\ EntriesStand /\ CommittedStand)'
  <2>1. CommittedChains' = CommittedChains
    BY <1>5 DEF CommittedChains
  <2>2. \A c \in CommittedChains \ queued :
              \E m \in manifests' : m.chain = c /\ m.seq = committed[c]
    BY <1>3, <1>5
  <2> QED BY <1>0, <1>5, <2>1, <2>2 DEF QueueBelow, EntriesStand, CommittedStand
<1> QED BY <1>0, <1>1, <1>2, <1>4, <1>5, PruneSteps

\* QueueInv is inductive.
LEMMA QueueInvStep == QueueInv /\ [PruneNext]_allVars => QueueInv'
<1> SUFFICES ASSUME QueueInv, [PruneNext]_allVars PROVE QueueInv'
  OBVIOUS
<1>0. /\ TypeInv /\ PruneTypeOK /\ ChainInv /\ EntriesKnown
      /\ Dated /\ FoldersTouched /\ BasesFirst
  BY DEF QueueInv
<1>1. CASE Pipeline
  <2>1. TypeInv' /\ PruneTypeOK' /\ [Next]_vars
    BY <1>0, <1>1, PipelineKeepsTypes DEF Pipeline
  <2>2. Numbers
    BY <1>0, NumbersType
  <2>3. Numbers'
    BY <2>1, NumbersType, PTL
  <2>4. ChainInv'
    BY <1>0, <2>1, ChainInvStep
  <2>5. EntriesKnown'
    <3>1. CASE \E it \in items : StartItem(it) \/ RecordCommit(it)
      <4>1. PICK it \in items : StartItem(it) \/ RecordCommit(it)
        BY <3>1
      <4>2. CASE StartItem(it)
        BY <1>0, <4>2 DEF StartItem, EntriesKnown
      <4>3. CASE RecordCommit(it)
        BY <1>0, <4>3, ChainNumbers DEF RecordCommit, Begun, EntriesKnown
      <4> QED BY <4>1, <4>2, <4>3
    <3>2. CASE LoseJournal
      BY <3>2 DEF LoseJournal, EntriesKnown
    <3>3. CASE UNCHANGED <<entries, committed, folders>>
      BY <1>0, <3>3 DEF EntriesKnown
    <3> QED BY <2>1, <3>1, <3>2, <3>3, JournalSteps
  <2>6. Dated' /\ BasesFirst'
    BY <1>0, <2>1, <2>2, <2>3, DatedStep, BasesFirstStep
  <2>7. FoldersTouched'
    BY <1>0, <1>1, <2>1, <2>2, <2>3, FoldersTouchedStep
  <2>8. (QueueBelow /\ EntriesStand /\ CommittedStand)'
    BY <1>1, PipelineKeepsQueue
  <2> QED BY <2>1, <2>4, <2>5, <2>6, <2>7, <2>8 DEF QueueInv
<1>2. CASE Prune
  <2>1. TypeInv' /\ PruneTypeOK'
    BY <1>0, <1>2, PruneKeepsTypes
  <2>2. /\ UNCHANGED <<items, cap, now, mem, touched>>
        /\ folders' \subseteq folders /\ manifests' \subseteq manifests
        /\ entries' \subseteq entries
    BY <1>0, <1>2, PruneLeaves
  <2>3. ChainInv'
    BY <1>0, <2>2 DEF ChainInv, Shape, NamesUnique, Nested, ChainsKnown
  <2>4. EntriesKnown'
    <3>1. \/ entries' = entries /\ committed' = committed
          \/ \E ch \in queued : /\ entries' = entries \ {ch}
                                /\ committed' = [committed EXCEPT ![ch] = 0]
      BY <1>0, <1>2, PruneSteps DEF Queues, PruneQueue
    <3> QED BY <1>0, <3>1, ChainNumbers DEF EntriesKnown, PruneTypeOK
  <2>5. Dated' /\ FoldersTouched' /\ BasesFirst'
    BY <1>0, <2>2 DEF Dated, Copies, FoldersTouched, BasesFirst
  <2>6. (QueueBelow /\ EntriesStand /\ CommittedStand)'
    BY <1>2, PruneKeepsQueue
  <2> QED BY <2>1, <2>3, <2>4, <2>5, <2>6 DEF QueueInv
<1>3. CASE UNCHANGED allVars
  <2>1. UNCHANGED <<items, idx, cap, now, mem, crashes, damage, entries, committed, files,
                    started, sent, deletes, refused, folders, nextId, manifests, queued,
                    touched, cutoff, pruning>>
    BY <1>3 DEF allVars, vars, outboxVars, journalVars, driveVars, pruneVars
  <2>2. TypeInv' /\ PruneTypeOK'
    BY <1>0, <2>1 DEF TypeInv, TypeOK, SeqBound, OutboxTypeOK, JournalTypeOK, PruneTypeOK
  <2>3. (ChainInv /\ EntriesKnown)'
    BY <1>0, <2>1 DEF ChainInv, Shape, NamesUnique, Nested, ChainsKnown, EntriesKnown
  <2>4. (Dated /\ FoldersTouched /\ BasesFirst)'
    BY <1>0, <2>1 DEF Dated, Copies, FoldersTouched, BasesFirst
  <2>5. (QueueBelow /\ EntriesStand /\ CommittedStand)'
    BY <2>1 DEF QueueInv, QueueBelow, EntriesStand, CommittedStand, CommittedChains
  <2> QED BY <2>2, <2>3, <2>4, <2>5 DEF QueueInv
<1> QED BY <1>1, <1>2, <1>3 DEF PruneNext

\* Nothing is queued at first.
LEMMA QueueInvInit == PruneInit => QueueInv
<1> SUFFICES ASSUME PruneInit PROVE QueueInv
  OBVIOUS
<1>1. TypeInv /\ EntriesKnown
  BY JournalInvInit DEF PruneInit, JournalInv
<1>2. PruneTypeOK
  <2>1. 0 \in 0..MaxCaptures /\ 0 \in 0..MaxCaptures + 1
    BY ConstantsAssumption
  <2>2. touched \in [Chains -> 0..MaxCaptures] /\ cutoff \in 0..MaxCaptures + 1
    BY <2>1 DEF PruneInit
  <2>3. pruning \in BOOLEAN /\ queued \subseteq Chains
    BY DEF PruneInit
  <2> QED BY <1>1, <2>2, <2>3 DEF TypeInv, PruneTypeOK
<1>3. ChainInv
  BY ChainsInit DEF PruneInit
<1>4. Dated /\ FoldersTouched /\ BasesFirst /\ QueueBelow /\ EntriesStand /\ CommittedStand
  BY DEF PruneInit, Init, OutboxInit, Dated, Copies, FoldersTouched, BasesFirst,
         QueueBelow, EntriesStand, CommittedStand, CommittedChains
<1> QED BY <1>1, <1>2, <1>3, <1>4 DEF QueueInv

\* QueueInv holds in every reachable state.
LEMMA QueueAlways == PruneSpec => []QueueInv
<1> QED BY QueueInvInit, QueueInvStep, PTL DEF PruneSpec

\* What a step takes from Drive was queued.
LEMMA TrashedQueued ==
  ASSUME QueueInv, [PruneNext]_allVars, NEW m \in manifests, m \notin manifests'
  PROVE  m.chain \in queued /\ manifests' = {n \in manifests : n.chain # m.chain}
<1>1. Prune
  <2>1. ~Pipeline
    BY ManifestsStay DEF Pipeline
  <2>2. manifests' # manifests
    OBVIOUS
  <2> QED BY <2>1, <2>2 DEF PruneNext, allVars, vars, driveVars
<1>2. PICK ch \in queued : manifests' = {n \in manifests : n.chain # ch}
  BY <1>1, PruneSteps DEF QueueInv
<1> QED BY <1>2

\* Whatever crashes, is damaged or lost, and whenever and with whatever retention
\* prunes run and are cut short: restore points of a chain are trashed only while a
\* chain begun after it has one that stays.
THEOREM NewerStays == PruneSpec => SuccessorRestorable
<1>1. QueueInv /\ [PruneNext]_allVars =>
        [\A m \in manifests : m \notin manifests' =>
           \E n \in manifests : n.chain > m.chain /\ n \in manifests']_allVars
  <2> SUFFICES ASSUME QueueInv, [PruneNext]_allVars, NEW m \in manifests, m \notin manifests'
               PROVE  \E n \in manifests : n.chain > m.chain /\ n \in manifests'
    OBVIOUS
  <2>1. m.chain \in queued /\ manifests' = {n \in manifests : n.chain # m.chain}
    BY TrashedQueued
  <2>2. CommittedChains # {}
    BY <2>1 DEF QueueInv, QueueBelow
  <2>3. NewestChain \in CommittedChains \ queued /\ m.chain < NewestChain
    BY <2>1, <2>2, NewestUnqueued
  <2>4. PICK n \in manifests : n.chain = NewestChain
    BY <2>3 DEF QueueInv, CommittedStand
  <2>5. n.chain \in Nat /\ m.chain \in Nat
    BY NumbersType DEF QueueInv, Numbers
  <2> QED BY <2>1, <2>3, <2>4, <2>5
<1> QED BY <1>1, QueueAlways, PTL DEF PruneSpec, SuccessorRestorable

-----------------------------------------------------------------------------
(* While no process dies: chains are captured, uploaded and committed one    *)
(* after the other.                                                          *)

\* Crashes are not undone.
LEMMA CrashesGrow ==
  ASSUME TypeInv, [PruneNext]_allVars, crashes' = 0
  PROVE  crashes = 0
<1>0. crashes \in Nat
  BY ConstantsAssumption DEF TypeInv, TypeOK, OutboxTypeOK
<1> SUFFICES crashes' = crashes \/ crashes' = crashes + 1
  BY <1>0
<1>1. CASE Next
  <2>1. CASE Outbox
    <3>1. CASE Capture
      BY <3>1 DEF Capture, CaptureDelta, CaptureBase, CaptureItem
    <3>2. CASE SaveIndex \/ SaveState \/ Sweep
      BY <3>2 DEF SaveIndex, SaveState, Sweep
    <3>3. CASE \E a, b \in Pending, left \in Seqs : Coalesce(NotMergeable, a, b, left)
      BY <3>3 DEF Coalesce
    <3> QED BY <2>1, <3>1, <3>2, <3>3 DEF Outbox
  <2>2. CASE Upload
    <3>1. PICK it \in items :
            \/ StartItem(it)
            \/ \E k \in Kinds, kept \in BOOLEAN : SendFile(it, k, kept)
            \/ PutManifest(it)
            \/ RecordCommit(it)
            \/ FinishDropState(it)
            \/ FinishDelete(it)
      BY <2>2 DEF Upload
    <3>2. CASE \E k \in Kinds, kept \in BOOLEAN : SendFile(it, k, kept)
      BY <3>2 DEF SendFile
    <3>3. CASE StartItem(it) \/ PutManifest(it) \/ RecordCommit(it)
      BY <3>3 DEF StartItem, PutManifest, RecordCommit, outboxVars
    <3>4. CASE FinishDropState(it) \/ FinishDelete(it)
      BY <3>4 DEF FinishDropState, FinishDelete
    <3> QED BY <3>1, <3>2, <3>3, <3>4
  <2>3. CASE DiscardBegin
    <3>1. PICK it \in items : Discard(it)
      BY <2>3 DEF DiscardBegin, DiscardGap, DiscardMissing, DiscardCorrupt,
                  DiscardRefused, DiscardUnmergeable
    <3> QED BY <3>1 DEF Discard
  <2>4. CASE DiscardDropState \/ DiscardVictim
    BY <2>4 DEF DiscardDropState, DiscardVictim
  <2>5. CASE Faults
    <3>1. CASE Crash
      BY <3>1 DEF Crash
    <3>2. CASE OutboxDamage
      BY <3>2 DEF OutboxDamage, LoseFile, CorruptFile, LoseIndex, LoseState
    <3>3. CASE LoseJournal \/ \E it \in items, k \in Kinds : Mismatch(it, k)
      BY <3>3 DEF LoseJournal, Mismatch
    <3> QED BY <2>5, <3>1, <3>2, <3>3 DEF Faults
  <2> QED BY <1>1, <2>1, <2>2, <2>3, <2>4, <2>5 DEF Next
<1>2. CASE Prune
  BY <1>2, PruneLeaves
<1>3. CASE UNCHANGED allVars
  BY <1>3 DEF allVars, vars, outboxVars
<1> QED BY <1>1, <1>2, <1>3 DEF PruneNext, Pipeline

\* Steps of the pipeline other than captures, by what they do to what the process
\* has in memory.
LEMMA MemSteps ==
  ASSUME TypeInv, [Next]_vars, crashes = 0, crashes' = 0
  PROVE  \/ Capture /\ UNCHANGED <<journalVars, driveVars>>
         \/ Capturing /\ ~Capturing' /\ cap' = mem.cap
         \/ Capturing /\ Capturing' /\ mem'.cap = mem.cap
         \/ ~Capturing /\ ~Capturing' /\ cap' \in {cap, None}
<1>0. mem' = mem /\ cap' \in {cap, None} =>
        \/ Capturing /\ Capturing' /\ mem'.cap = mem.cap
        \/ ~Capturing /\ ~Capturing' /\ cap' \in {cap, None}
  BY DEF Capturing
<1>1. CASE Outbox
  <2>1. CASE Capture
    BY <1>1, <2>1 DEF Outbox
  <2>2. CASE SaveIndex
    <3>1. mem \in [job : {"capture"}, saved : BOOLEAN, cap : CaptureState]
      BY <2>2 DEF SaveIndex, TypeInv, TypeOK, OutboxTypeOK
    <3>2. mem' \in [job : {"capture"}, saved : BOOLEAN, cap : CaptureState] /\ mem'.cap = mem.cap
      BY <2>2, <3>1 DEF SaveIndex
    <3> QED BY <2>2, <3>1, <3>2, NoneAssumption DEF SaveIndex, Capturing
  <2>3. CASE SaveState
    BY <2>3 DEF SaveState, Capturing
  <2>4. CASE Sweep
    BY <1>0, <2>4 DEF Sweep
  <2>5. CASE \E a, b \in Pending, left \in Seqs : Coalesce(NotMergeable, a, b, left)
    BY <1>0, <2>5 DEF Coalesce
  <2> QED BY <1>1, <2>1, <2>2, <2>3, <2>4, <2>5 DEF Outbox
<1>2. CASE Upload
  <2>1. PICK it \in items :
          \/ StartItem(it)
          \/ \E k \in Kinds, kept \in BOOLEAN : SendFile(it, k, kept)
          \/ PutManifest(it)
          \/ RecordCommit(it)
          \/ FinishDropState(it)
          \/ FinishDelete(it)
    BY <1>2 DEF Upload
  <2>2. CASE \E k \in Kinds, kept \in BOOLEAN : SendFile(it, k, kept)
    BY <1>0, <2>2 DEF SendFile
  <2>3. CASE StartItem(it) \/ PutManifest(it) \/ RecordCommit(it)
    BY <1>0, <2>3 DEF StartItem, PutManifest, RecordCommit, outboxVars
  <2>4. CASE FinishDropState(it) \/ FinishDelete(it)
    BY <1>0, <2>4 DEF FinishDropState, FinishDelete
  <2> QED BY <2>1, <2>2, <2>3, <2>4
<1>3. CASE DiscardBegin
  <2>1. PICK it \in items : Discard(it) /\ mem = None
    BY <1>3 DEF DiscardBegin, DiscardGap, DiscardMissing, DiscardCorrupt,
                DiscardRefused, DiscardUnmergeable, Uploading
  <2>2. mem'.job = "discard"
    BY <2>1 DEF Discard
  <2> QED BY <2>1, <2>2 DEF Discard, Capturing
<1>4. CASE DiscardDropState \/ DiscardVictim
  <2>1. mem # None /\ mem.job = "discard" /\ cap' \in {cap, None}
    BY <1>4 DEF DiscardDropState, DiscardVictim
  <2>2. mem \in [job : {"discard"}, chain : Chains, dropped : BOOLEAN,
                 victims : SUBSET (Chains \X Seqs)]
    BY <2>1 DEF TypeInv, TypeOK, OutboxTypeOK
  <2>3. mem' = None \/ mem'.job = "discard"
    BY <1>4, <2>2 DEF DiscardDropState, DiscardVictim
  <2> QED BY <2>1, <2>3 DEF Capturing
<1>5. CASE Faults
  <2>1. ~Crash
    BY DEF Crash
  <2>2. CASE OutboxDamage
    BY <1>0, <2>2 DEF OutboxDamage, LoseFile, CorruptFile, LoseIndex, LoseState
  <2>3. CASE LoseJournal \/ \E it \in items, k \in Kinds : Mismatch(it, k)
    BY <1>0, <2>3 DEF LoseJournal, Mismatch
  <2> QED BY <1>5, <2>1, <2>2, <2>3 DEF Faults
<1>6. CASE UNCHANGED vars
  BY <1>0, <1>6 DEF vars, outboxVars
<1> QED BY <1>1, <1>2, <1>3, <1>4, <1>5, <1>6 DEF Next

\* Items and manifests carry numbers.
LEMMA CopyNumbers ==
  ASSUME Numbers
  PROVE  \A x \in Copies : x.chain \in Nat /\ x.chain \in Chains
                           /\ x.seq \in Nat /\ 1 <= x.seq /\ x.at \in Nat
BY DEF Numbers, Copies

\* What a step leaves of items and manifests is of captures there were before, or
\* the new item comes after all of them.
LEMMA CopySteps ==
  ASSUME TypeInv, Numbers, Numbers', ChainInv, [Next]_vars
  PROVE  \/ /\ NothingNewer
            /\ \A x \in Copies' : \E y \in Copies : Alike(x, y)
         \/ \E it \in Item : Captures(it) /\ Copies' \subseteq Copies \cup {it}
<1>1. CASE NothingNewer
  <2>1. \A x \in items' \cup manifests' : \E y \in Copies : Alike(x, y)
    <3>1. \A m \in manifests : Alike(m, m)
      BY DEF Alike
    <3> QED BY <1>1, <3>1 DEF NothingNewer, Copies
  <2> QED BY <1>1, <2>1 DEF Copies
<1>2. CASE \E it \in Item : Captures(it)
  <2>1. PICK it \in Item : Captures(it)
    BY <1>2
  <2>2. Copies' \subseteq Copies \cup {it}
    BY <2>1 DEF Captures, Copies, Pending, driveVars
  <2> QED BY <2>1, <2>2
<1> QED BY <1>1, <1>2, NewerSteps

\* The item a capture adds is of the newest chain, and the last of it.
LEMMA CapturesLast ==
  ASSUME Numbers, Numbers', Dated, StateLast, NEW it, Captures(it)
  PROVE  \A x \in Copies : \/ x.chain < it.chain /\ x.at < it.chain
                           \/ x.chain = it.chain /\ x.seq < it.seq
<1> SUFFICES ASSUME NEW x \in Copies
             PROVE  \/ x.chain < it.chain /\ x.at < it.chain
                    \/ x.chain = it.chain /\ x.seq < it.seq
  OBVIOUS
<1>1. x.chain \in Nat /\ x.seq \in Nat /\ x.at \in Nat /\ now \in Nat
  BY CopyNumbers DEF Numbers
<1>2. it.chain \in Nat /\ it.seq \in Nat
  BY DEF Captures, Numbers
<1>5. ~Capturing
  BY DEF Captures, Capturing
<1>3. CASE cap # None /\ it.chain = cap.chain /\ cap.seq < it.seq
  <2>1. cap.seq \in Nat /\ cap.chain \in Nat
    BY <1>3 DEF Numbers
  <2>2. IsLast(cap)
    BY <1>3, <1>5 DEF StateLast
  <2> QED BY <1>1, <1>2, <1>3, <2>1, <2>2 DEF IsLast
<1>4. CASE it.chain = now + 1
  BY <1>1, <1>4 DEF Dated
<1> QED BY <1>3, <1>4 DEF Captures

\* Captures follow one another.
LEMMA OrderStep ==
  ASSUME TypeInv, Numbers, Numbers', ChainInv, Dated, InOrder, StateLast,
         [Next]_vars, crashes = 0, crashes' = 0
  PROVE  (InOrder /\ StateLast)'
<1>1. CASE NothingNewer /\ \A x \in Copies' : \E y \in Copies : Alike(x, y)
  <2>1. InOrder'
    BY <1>1 DEF InOrder, Alike
  <2>2. ASSUME NEW c, IsLast(c)
        PROVE  \A x \in Copies' : \/ x.chain < c.chain /\ x.at < c.chain
                                  \/ x.chain = c.chain /\ x.seq <= c.seq
    BY <1>1, <2>2 DEF IsLast, Alike
  <2>3. ~Capture
    <3>1. SUFFICES ASSUME Capture PROVE FALSE
      OBVIOUS
    <3>2. now' = now + 1
      BY <3>1, CaptureAdds DEF Added
    <3> QED BY <1>1, <3>2 DEF NothingNewer, Numbers
  <2>4. CASE Capturing
    <3>1. IsLast(mem.cap)
      BY <2>4 DEF StateLast
    <3>2. \A x \in Copies' : \/ x.chain < mem.cap.chain /\ x.at < mem.cap.chain
                             \/ x.chain = mem.cap.chain /\ x.seq <= mem.cap.seq
      BY <2>2, <3>1
    <3>3. \/ Capturing' /\ mem'.cap = mem.cap
          \/ ~Capturing' /\ cap' = mem.cap
      BY <2>3, <2>4, MemSteps
    <3>4. CASE Capturing' /\ mem'.cap = mem.cap
      BY <2>1, <3>2, <3>4 DEF StateLast, IsLast
    <3>5. CASE ~Capturing' /\ cap' = mem.cap
      BY <2>1, <3>2, <3>5 DEF StateLast, IsLast
    <3> QED BY <3>3, <3>4, <3>5
  <2>5. CASE ~Capturing
    <3>1. ~Capturing' /\ cap' \in {cap, None}
      BY <2>3, <2>5, MemSteps
    <3>2. cap' # None => \A x \in Copies' : \/ x.chain < cap'.chain /\ x.at < cap'.chain
                                            \/ x.chain = cap'.chain /\ x.seq <= cap'.seq
      <4> SUFFICES ASSUME cap' # None
                   PROVE  \A x \in Copies' : \/ x.chain < cap.chain /\ x.at < cap.chain
                                             \/ x.chain = cap.chain /\ x.seq <= cap.seq
        BY <3>1
      <4>1. IsLast(cap)
        BY <2>5, <3>1 DEF StateLast
      <4> QED BY <2>2, <4>1
    <3> QED BY <2>1, <3>1, <3>2 DEF StateLast, IsLast
  <2> QED BY <2>1, <2>4, <2>5
<1>2. ASSUME NEW it \in Item, Captures(it), Copies' \subseteq Copies \cup {it}
      PROVE  (InOrder /\ StateLast)'
  <2>1. \A x \in Copies : \/ x.chain < it.chain /\ x.at < it.chain
                          \/ x.chain = it.chain /\ x.seq < it.seq
    BY <1>2, CapturesLast
  <2>2. it.chain \in Nat /\ it.seq \in Nat /\ it.at = now + 1 /\ now \in Nat
    BY <1>2 DEF Captures, Numbers
  <2>3. \A x \in Copies : x.chain \in Nat /\ x.seq \in Nat /\ x.at \in Nat /\ x.at <= it.at
    BY <2>2, CopyNumbers DEF Dated
  <2>4. InOrder'
    BY <1>2, <2>1, <2>2, <2>3 DEF InOrder
  <2>5. Capturing' /\ mem'.cap.chain = it.chain /\ mem'.cap.seq = it.seq
    BY <1>2 DEF Captures, Capturing
  <2>6. \A x \in Copies' : \/ x.chain < it.chain /\ x.at < it.chain
                           \/ x.chain = it.chain /\ x.seq <= it.seq
    BY <1>2, <2>1, <2>2, <2>3
  <2>7. StateLast'
    BY <2>5, <2>6 DEF StateLast, IsLast
  <2> QED BY <2>4, <2>7
<1> QED BY <1>1, <1>2, CopySteps

\* A chain's first time is that of one of its pending items.
LEMMA FirstAtIs ==
  ASSUME Numbers, NEW p \in Pending
  PROVE  /\ FirstAt(p.chain) <= p.at
         /\ \E o \in Pending : o.chain = p.chain /\ FirstAt(p.chain) = o.at
<1> DEFINE ats == {it.at : it \in {o \in Pending : o.chain = p.chain}}
<1>1. ats \subseteq Nat /\ p.at \in ats
  BY DEF Pending, Numbers
<1>2. \E t \in ats : \A u \in ats : t <= u
  BY <1>1, MinNat
<1>3. FirstAt(p.chain) \in ats /\ \A u \in ats : FirstAt(p.chain) <= u
  BY <1>2 DEF FirstAt
<1> QED BY <1>1, <1>3

\* The oldest item is of the oldest chain.
LEMMA OldestChain ==
  ASSUME TypeInv, Numbers, ChainInv, Dated, InOrder, NEW it, Oldest(it), NEW x \in items
  PROVE  it.chain <= x.chain
<1>1. it \in Pending /\ it \in items
  BY DEF Oldest, Pending
<1>2. PICK o \in Pending : o.chain = x.chain
  BY PendingCover
<1>3. it.chain \in Nat /\ x.chain \in Nat /\ o.at \in Nat /\ it.at \in Nat
  BY <1>1, <1>2 DEF Numbers, Pending
<1> SUFFICES ASSUME x.chain < it.chain PROVE FALSE
  BY <1>3
<1>4. FirstAt(it.chain) < FirstAt(o.chain)
  BY <1>1, <1>2, <1>3 DEF Oldest, Before
<1>5. FirstAt(o.chain) <= o.at
  BY <1>2, FirstAtIs
<1>6. PICK p \in Pending : p.chain = it.chain /\ FirstAt(it.chain) = p.at
  BY <1>1, FirstAtIs
<1>7. PICK q \in Pending : q.chain = o.chain /\ FirstAt(o.chain) = q.at
  BY <1>2, FirstAtIs
<1>8. o \in Copies /\ it \in Copies /\ p \in Copies
  BY <1>1 DEF Copies, Pending
<1>9. o.at < it.chain
  BY <1>2, <1>8 DEF InOrder
<1>10. it.chain <= p.at
  BY <1>6, <1>8 DEF Dated
<1>11. p.at \in Nat /\ q.at \in Nat
  BY DEF Numbers, Pending
<1> QED BY <1>3, <1>4, <1>5, <1>6, <1>7, <1>9, <1>10, <1>11

\* The chain committed to is never left behind by a capture.
LEMMA CapturesNewest ==
  ASSUME QueueInv, Numbers, Numbers', StateLast, NEW it, Captures(it), NEW ch \in CommittedChains
  PROVE  ch <= it.chain
<1>1. NewestChain \in CommittedChains \ queued /\ ch <= NewestChain
  BY NewestUnqueued
<1>2. PICK m \in manifests : m.chain = NewestChain
  BY <1>1 DEF QueueInv, CommittedStand
<1>3. NewestChain <= it.chain
  <2>1. m \in Copies
    BY DEF Copies
  <2>2. m.chain \in Nat /\ it.chain \in Nat
    BY DEF Numbers, Captures
  <2> QED BY <1>2, <2>1, <2>2, CapturesLast DEF QueueInv
<1>4. ch \in Nat /\ NewestChain \in Nat /\ it.chain \in Nat
  <2>1. CommittedChains \subseteq Nat
    BY ChainNumbers DEF QueueInv
  <2> QED BY <1>1, <2>1 DEF Numbers, Captures
<1> QED BY <1>1, <1>3, <1>4

\* A chain is taken up only when the outbox is done with the ones before it.
LEMMA OlderDoneStep ==
  ASSUME QueueInv, EntriesKnown', Numbers, Numbers', InOrder, StateLast, OlderDone, Pipeline
  PROVE  OlderDone'
<1>0. TypeInv /\ ChainInv /\ EntriesKnown /\ QueueBelow /\ Dated /\ [Next]_vars
  BY DEF QueueInv, Pipeline
<1>1. CASE entries' = {}
  BY <1>1 DEF OlderDone, CommittedChains
<1>2. CASE CommittedChains' = CommittedChains
  <2>1. CASE NothingNewer
    BY <1>2, <2>1 DEF NothingNewer, Alike, OlderDone
  <2>2. ASSUME NEW it \in Item, Captures(it)
        PROVE  OlderDone'
    <3>1. items' \subseteq items \cup {it}
      BY <2>2 DEF Captures, Pending
    <3>2. \A ch \in CommittedChains : ch <= it.chain
      BY <2>2, CapturesNewest
    <3> QED BY <1>2, <3>1, <3>2 DEF OlderDone
  <2> QED BY <1>0, <2>1, <2>2, NewerSteps
<1>3. ASSUME NEW it \in items, RecordCommit(it),
             CommittedChains' = CommittedChains \cup {it.chain}
      PROVE  OlderDone'
  <2>1. Oldest(it) /\ items' = items
    BY <1>3 DEF RecordCommit, Uploading, outboxVars
  <2>2. \A x \in items : it.chain <= x.chain
    BY <1>0, <2>1, OldestChain
  <2> QED BY <1>3, <2>1, <2>2 DEF OlderDone
<1>4. UNCHANGED <<entries, committed>> => CommittedChains' = CommittedChains
  BY DEF CommittedChains
<1> QED BY <1>0, <1>1, <1>2, <1>3, <1>4, QueueSteps

\* The outbox is done with what is queued.
LEMMA QueuedDone ==
  ASSUME QueueInv, OlderDone, NEW q \in queued, NEW it \in items
  PROVE  q < it.chain
<1>1. PICK ch \in CommittedChains : q < ch
  BY DEF QueueInv, QueueBelow
<1>2. ch <= it.chain
  BY DEF OlderDone
<1>3. q \in Nat /\ ch \in Nat /\ it.chain \in Nat
  <2>1. Chains \subseteq Nat /\ CommittedChains \subseteq Chains
    BY ChainNumbers DEF QueueInv
  <2> QED BY <2>1, NumbersType DEF QueueInv, PruneTypeOK, Numbers
<1> QED BY <1>1, <1>2, <1>3

\* Prunes trash nothing that the outbox still works on.
LEMMA PruneKeepsOrder ==
  ASSUME QueueInv, Prune, crashes = 0, crashes' = 0,
         InOrder, StateLast, OlderDone, InflightInv, Recorded
  PROVE  (InOrder /\ StateLast /\ OlderDone /\ InflightInv /\ Recorded)'
<1>0. TypeInv /\ PruneTypeOK
  BY DEF QueueInv
<1>1. /\ UNCHANGED <<items, cap, mem, started, sent>>
      /\ entries' \subseteq entries /\ manifests' \subseteq manifests /\ files' \subseteq files
  BY <1>0, PruneLeaves
<1>2. InOrder'
  BY <1>1 DEF InOrder, Copies
<1>3. StateLast'
  BY <1>1 DEF StateLast, Capturing, IsLast, Copies
<1>4. \/ committed' = committed
      \/ \E ch \in queued : /\ committed' = [committed EXCEPT ![ch] = 0]
                            /\ manifests' = {m \in manifests : m.chain # ch}
                            /\ files' = {f \in files : f.chain # ch}
  <2>1. \A cut, seen : Queues(cut, seen) => committed' = committed
    BY DEF Queues, PruneQueue
  <2>2. crashes' # crashes + 1
    OBVIOUS
  <2> QED BY <1>0, <2>1, <2>2, PruneSteps
<1>5. CASE committed' = committed
  <2>1. OlderDone'
    BY <1>1, <1>5 DEF OlderDone, CommittedChains
  <2>2. StartedFirst'
    BY <1>1, <1>5 DEF InflightInv, StartedFirst, Underway, First, IsCommitted, Continuous
  <2>3. (SentStarted /\ InflightMatches /\ VictimsForgotten /\ FilesCommitted)'
    BY <1>1, <1>5 DEF InflightInv, SentStarted, InflightMatches, SentOf, VictimsForgotten,
                      FilesCommitted
  <2>4. Recorded'
    BY <1>1, <1>5 DEF Recorded, SentUp, AllSent, SentOf
  <2> QED BY <1>2, <1>3, <2>1, <2>2, <2>3, <2>4 DEF InflightInv
<1>6. ASSUME NEW ch \in queued, committed' = [committed EXCEPT ![ch] = 0],
             manifests' = {m \in manifests : m.chain # ch},
             files' = {f \in files : f.chain # ch}
      PROVE  (InOrder /\ StateLast /\ OlderDone /\ InflightInv /\ Recorded)'
  <2>1. \A it \in items : it.chain # ch
    <3> SUFFICES ASSUME NEW it \in items PROVE it.chain # ch
      OBVIOUS
    <3>1. ch < it.chain
      BY QueuedDone
    <3>2. it.chain \in Nat
      BY <1>0, NumbersType DEF Numbers
    <3> QED BY <3>1, <3>2
  <2>2. ch \in Chains /\ \A c \in Chains : c # ch => committed'[c] = committed[c]
    BY <1>0, <1>6, ChainNumbers DEF PruneTypeOK
  <2>3. OlderDone'
    <3>1. CommittedChains' \subseteq CommittedChains
      BY <1>0, <1>1, <1>6, <2>2, ChainNumbers DEF CommittedChains
    <3> QED BY <1>1, <3>1 DEF OlderDone
  <2>4. StartedFirst'
    <3>1. \A it \in items : committed'[it.chain] = committed[it.chain]
      BY <1>0, <2>1, <2>2, NumbersType DEF Numbers
    <3>2. \A it \in items : Underway(it) => Underway(it)'
      BY <1>1, <3>1 DEF Underway, First, IsCommitted, Continuous
    <3> QED BY <1>1, <3>2 DEF InflightInv, StartedFirst
  <2>5. FilesCommitted'
    <3>1. \A f \in files' : committed'[f.chain] = committed[f.chain]
      BY <1>0, <1>6, <2>2, NumbersType DEF Numbers
    <3> QED BY <1>1, <3>1 DEF InflightInv, FilesCommitted
  <2>6. (SentStarted /\ InflightMatches /\ VictimsForgotten)'
    BY <1>1 DEF InflightInv, SentStarted, InflightMatches, SentOf, VictimsForgotten
  <2>7. Recorded'
    <3>1. \A m \in manifests' : m \in manifests /\ committed'[m.chain] = committed[m.chain]
      BY <1>0, <1>6, <2>2, NumbersType DEF Numbers
    <3> QED BY <1>1, <3>1 DEF Recorded, SentUp, AllSent, SentOf
  <2> QED BY <1>2, <1>3, <2>3, <2>4, <2>5, <2>6, <2>7 DEF InflightInv
<1> QED BY <1>4, <1>5, <1>6

\* What keeps the item that is all sent keeps the manifests accounted for.
LEMMA RecordedKeeps ==
  ASSUME Recorded, manifests' = manifests, entries' \subseteq entries, committed' = committed,
         \A x \in items : SentUp(x) /\ ~IsCommitted(x) =>
           \E y \in items' : Name(y) = Name(x) /\ SentUp(y)'
  PROVE  Recorded'
<1> SUFFICES ASSUME NEW m \in manifests, m.chain \in entries', m.seq # 1,
                    ~(m.seq <= committed[m.chain])
             PROVE  \E y \in items' : Name(y) = <<m.chain, m.seq>> /\ SentUp(y)'
  BY DEF Recorded, Name
<1>1. PICK it \in items : Name(it) = <<m.chain, m.seq>> /\ SentUp(it)
  BY DEF Recorded
<1>2. ~IsCommitted(it)
  BY <1>1 DEF IsCommitted, Name
<1> QED BY <1>1, <1>2

\* A new manifest is of the item that is all sent.
LEMMA PutManifestRecorded ==
  ASSUME Recorded, NEW it \in items, PutManifest(it)
  PROVE  Recorded'
<1>1. SentUp(it)
  BY DEF PutManifest, Begun, SentUp, AllSent, SentKinds
<1>2. manifests' = manifests \cup {ManifestOf(it)} /\ UNCHANGED <<outboxVars, journalVars>>
  BY DEF PutManifest
<1>3. Name(it) = <<ManifestOf(it).chain, ManifestOf(it).seq>>
  BY DEF Name, ManifestOf
<1>4. \A x : SentUp(x)' <=> SentUp(x)
  BY <1>2 DEF SentUp, AllSent, SentOf, journalVars
<1>5. items' = items /\ entries' = entries /\ committed' = committed
  BY <1>2 DEF outboxVars, journalVars
<1> HIDE DEF SentUp
<1> QED BY <1>1, <1>2, <1>3, <1>4, <1>5 DEF Recorded

\* A chain that begins has at most its base's manifest on Drive.
LEMMA StartItemRecorded ==
  ASSUME QueueInv, Numbers, Recorded, NEW it \in items, StartItem(it)
  PROVE  Recorded'
<1>1. /\ entries' = entries \cup {it.chain} /\ started \subseteq started'
      /\ UNCHANGED <<committed, sent, manifests, items>>
  BY DEF StartItem, outboxVars
<1>2. \A x : SentUp(x) => SentUp(x)'
  BY <1>1 DEF SentUp, AllSent, SentOf
<1>3. it.chain \notin entries => \A m \in manifests : m.chain = it.chain => m.seq = 1
  <2> SUFFICES ASSUME it.chain \notin entries
               PROVE  \A m \in manifests : m.chain = it.chain => m.seq = 1
    OBVIOUS
  <2>1. ~(committed[it.chain] > 0)
    BY DEF QueueInv, EntriesKnown, Numbers
  <2>2. IsBase(it)
    BY <2>1 DEF StartItem, Uploading, Continuous
  <2> QED BY <2>2 DEF QueueInv, BasesFirst
<1> HIDE DEF SentUp
<1> QED BY <1>1, <1>2, <1>3 DEF Recorded

\* The item the journal records is the one its chain has all sent.
LEMMA RecordCommitRecorded ==
  ASSUME TypeInv, Numbers, ChainInv, InflightInv, Recorded, NEW it \in items, RecordCommit(it)
  PROVE  Recorded'
<1>1. /\ committed' = [committed EXCEPT ![it.chain] = it.seq]
      /\ started' = started \ {Name(it)} /\ sent' = sent \ SentOf(it)
      /\ UNCHANGED <<entries, manifests, items>>
  BY DEF RecordCommit, outboxVars, driveVars
<1>2. Underway(it)
  BY UploadingFirst DEF RecordCommit
<1>3. it.chain \in Chains /\ it.seq \in Nat /\ committed[it.chain] < it.seq
      /\ \A ch \in Chains : committed[ch] \in Nat
  BY <1>2 DEF Underway, IsCommitted, Numbers
<1>4. \A ch \in Chains : committed'[ch] = IF ch = it.chain THEN it.seq ELSE committed[ch]
  BY <1>1, ChainNumbers
<1> SUFFICES ASSUME NEW m \in manifests, m.chain \in entries, m.seq # 1,
                    ~(m.seq <= committed'[m.chain])
             PROVE  \E y \in items : Name(y) = <<m.chain, m.seq>> /\ SentUp(y)'
  BY <1>1 DEF Recorded
<1>5. m.chain \in Chains /\ m.seq \in Nat
  BY DEF Numbers
<1>6. PICK x \in items : Name(x) = <<m.chain, m.seq>> /\ SentUp(x)
  BY <1>3, <1>4, <1>5 DEF Recorded
<1>7. Underway(x)
  BY <1>6, SentUpFirst
<1>8. x.chain # it.chain
  <2>1. x.chain = it.chain => x = it
    BY <1>2, <1>7, FirstOnly DEF Underway, ChainInv
  <2>2. x # it
    BY <1>3, <1>4, <1>5, <1>6 DEF Name
  <2> QED BY <2>1, <2>2
<1>9. Name(x) # Name(it) /\ SentOf(x)' = SentOf(x)
  BY <1>1, <1>8 DEF Name, SentOf
<1>10. SentUp(x)'
  BY <1>1, <1>6, <1>9 DEF SentUp, AllSent
<1> QED BY <1>6, <1>10

\* A file sent, lost or damaged leaves sent what was.
LEMMA TouchedRecorded ==
  ASSUME Recorded, NEW it \in items, NEW too, Touched(it, too),
         UNCHANGED <<entries, committed, started, manifests>>, sent \subseteq sent'
  PROVE  Recorded'
<1>1. \A x : SentUp(x) => SentUp(x)'
  BY DEF SentUp, AllSent, SentOf
<1>2. SentUp(it) => SentUp(too)' /\ Name(too) = Name(it)
  BY DEF Touched, Same, SentUp, AllSent, SentOf, Name, Files
<1>3. items' = (items \ {it}) \cup {too}
  BY DEF Touched
<1> HIDE DEF SentUp
<1> QED BY <1>1, <1>2, <1>3, RecordedKeeps

\* A discard spares what was all sent.
LEMMA DiscardRecorded ==
  ASSUME TypeInv, Numbers, ChainInv, InflightInv, Recorded, NEW it \in items, DiscardReason(it)
  PROVE  Recorded'
<1>1. Discard(it)
  BY DEF DiscardReason, DiscardGap, DiscardMissing, DiscardCorrupt, DiscardRefused,
         DiscardUnmergeable
<1>2. /\ started' = started \ {Name(o) : o \in Victims(it)}
      /\ sent' = sent \ UNION {SentOf(o) : o \in Victims(it)}
      /\ UNCHANGED <<items, entries, committed, manifests>>
  BY <1>1 DEF Discard, driveVars
<1>3. ASSUME NEW x \in items, SentUp(x)
      PROVE  SentUp(x)'
  <2>1. \A o \in Victims(it) : Name(o) # Name(x)
    <3> SUFFICES ASSUME NEW o \in Victims(it), Name(o) = Name(x) PROVE FALSE
      OBVIOUS
    <3>1. o = x
      BY DEF Victims, Pending, Name, ChainInv, NamesUnique
    <3> QED BY <1>3, <3>1, SentUpSpared
  <2>2. \A o \in Victims(it) : SentOf(o) \cap SentOf(x) = {}
    BY <2>1 DEF SentOf, Name
  <2>3. SentOf(x)' = SentOf(x)
    BY <1>2, <2>2 DEF SentOf
  <2>4. Name(x) \in started'
    BY <1>2, <1>3, <2>1 DEF SentUp
  <2> QED BY <1>3, <2>3, <2>4 DEF SentUp, AllSent
<1> QED BY <1>2, <1>3, RecordedKeeps

\* A manifest is of a base, recorded, or of the item under way, after every step.
LEMMA RecordedStep ==
  ASSUME QueueInv, InflightInv, Recorded, [Next]_vars
  PROVE  Recorded'
<1>0. TypeInv /\ ChainInv /\ Numbers
  BY NumbersType DEF QueueInv
<1>a. ASSUME items \subseteq items', UNCHANGED <<entries, committed, started, sent, manifests>>
      PROVE  Recorded'
  <2>1. \A x : SentUp(x) => SentUp(x)'
    BY <1>a DEF SentUp, AllSent, SentOf
  <2> HIDE DEF SentUp
  <2> QED BY <1>a, <2>1, RecordedKeeps
<1>b. ASSUME UNCHANGED <<entries, committed, started, sent, manifests>>,
             \A x \in Pending : Name(x) \in started /\ ~IsCommitted(x) => x \in items'
      PROVE  Recorded'
  <2>1. \A x : SentUp(x) => SentUp(x)' /\ Name(x) \in started
    BY <1>b DEF SentUp, AllSent, SentOf
  <2> HIDE DEF SentUp
  <2>2. \A x \in items : SentUp(x) => x \in Pending
    BY <1>0, SentUpFirst
  <2> QED BY <1>b, <2>1, <2>2, RecordedKeeps
<1>1. CASE Outbox
  <2>0. UNCHANGED <<entries, committed, started, sent, manifests>>
        /\ UNCHANGED <<journalVars, driveVars>>
    BY <1>1 DEF Outbox, journalVars, driveVars
  <2>1. CASE Capture
    <3>1. PICK it \in Item, c \in Contents, r \in Recs, id \in StoreIds : Added(it, c, r, id)
      BY <1>0, <2>1, CaptureAdds
    <3>2. Pending \subseteq items'
      BY <1>0, <3>1, AddedAfter
    <3> QED BY <1>b, <2>0, <3>2
  <2>2. CASE SaveIndex \/ SaveState
    BY <1>a, <2>0, <2>2 DEF SaveIndex, SaveState
  <2>3. CASE Sweep
    BY <1>b, <2>0, <2>3 DEF Sweep
  <2>4. CASE \E a, b \in Pending, left \in Seqs : Coalesce(NotMergeable, a, b, left)
    <3>0. PICK a, b \in Pending : \E R, rest : MergesRun(R, a, b, rest)
      BY <1>0, <2>0, <2>4, CoalesceMerges
    <3>1. PICK R, rest : MergesRun(R, a, b, rest)
      BY <3>0
    <3>2. \A x \in R : Name(x) \notin started
      BY <3>1 DEF MergesRun, Run, NotMergeable
    <3>3. Pending \ R \subseteq items'
      BY <3>1 DEF MergesRun
    <3> QED BY <1>b, <2>0, <3>2, <3>3
  <2> QED BY <1>1, <2>1, <2>2, <2>3, <2>4 DEF Outbox
<1>2. CASE Upload
  <2>1. PICK it \in items :
          \/ StartItem(it)
          \/ \E k \in Kinds, kept \in BOOLEAN : SendFile(it, k, kept)
          \/ PutManifest(it)
          \/ RecordCommit(it)
          \/ FinishDropState(it)
          \/ FinishDelete(it)
    BY <1>2 DEF Upload
  <2>2. CASE StartItem(it)
    BY <1>0, <2>2, StartItemRecorded
  <2>3. CASE \E k \in Kinds, kept \in BOOLEAN : SendFile(it, k, kept)
    <3>1. PICK k \in Kinds, kept \in BOOLEAN : SendFile(it, k, kept)
      BY <2>3
    <3>2. PICK too \in Item : Touched(it, too)
      BY <1>0, <3>1, TouchSteps
    <3>3. UNCHANGED <<entries, committed, started, manifests>> /\ sent \subseteq sent'
      BY <3>1 DEF SendFile
    <3> QED BY <3>2, <3>3, TouchedRecorded
  <2>4. CASE PutManifest(it)
    BY <2>4, PutManifestRecorded
  <2>5. CASE RecordCommit(it)
    BY <1>0, <2>5, RecordCommitRecorded
  <2>6. CASE FinishDropState(it)
    BY <1>a, <2>6 DEF FinishDropState, journalVars, driveVars
  <2>7. CASE FinishDelete(it)
    <3>1. /\ items' = items \ {it} /\ IsCommitted(it)
          /\ UNCHANGED <<entries, committed, started, sent, manifests>>
      BY <2>7 DEF FinishDelete, journalVars, driveVars
    <3> QED BY <1>b, <3>1 DEF Pending
  <2> QED BY <2>1, <2>2, <2>3, <2>4, <2>5, <2>6, <2>7
<1>3. CASE DiscardBegin
  <2>1. PICK it \in items : DiscardReason(it)
    BY <1>3 DEF DiscardBegin, DiscardReason
  <2> QED BY <1>0, <2>1, DiscardRecorded
<1>4. CASE DiscardDropState
  BY <1>a, <1>4 DEF DiscardDropState, journalVars, driveVars
<1>5. CASE DiscardVictim
  <2>1. PICK v \in mem.victims : items' = {o \in items : Name(o) # v}
    BY <1>5 DEF DiscardVictim
  <2>2. v \notin started
    BY <1>5, <2>1 DEF DiscardVictim, InflightInv, VictimsForgotten
  <2>3. UNCHANGED <<entries, committed, started, sent, manifests>>
    BY <1>5 DEF DiscardVictim, journalVars, driveVars
  <2> QED BY <1>b, <2>1, <2>2, <2>3 DEF Pending
<1>6. CASE Faults
  <2>1. CASE (Crash \/ LoseIndex \/ LoseState) /\ UNCHANGED <<journalVars, driveVars>>
    BY <1>a, <2>1 DEF Crash, LoseIndex, LoseState, journalVars, driveVars
  <2>2. CASE (\E it \in items, k \in Kinds : LoseFile(it, k) \/ CorruptFile(it, k))
             /\ UNCHANGED <<journalVars, driveVars>>
    <3>0. PICK it \in items : \E too : Touched(it, too)
      BY <1>0, <2>2, TouchSteps
    <3>1. PICK too : Touched(it, too)
      BY <3>0
    <3>2. UNCHANGED <<entries, committed, started, sent, manifests>>
      BY <2>2 DEF journalVars, driveVars
    <3> QED BY <3>1, <3>2, TouchedRecorded
  <2>3. CASE \E it \in items, k \in Kinds : Mismatch(it, k)
    BY <1>a, <2>3 DEF Mismatch, driveVars
  <2>4. CASE LoseJournal
    BY <2>4 DEF LoseJournal, driveVars, Recorded
  <2> QED BY <1>6, <2>1, <2>2, <2>3, <2>4 DEF Faults, OutboxDamage
<1>7. CASE UNCHANGED vars
  BY <1>a, <1>7 DEF vars, outboxVars, journalVars, driveVars
<1> QED BY <1>1, <1>2, <1>3, <1>4, <1>5, <1>6, <1>7 DEF Next

\* What the pipeline adds is of no queued chain.
LEMMA PipelineQueuedOld ==
  ASSUME QueueInv, Numbers, Numbers', OlderDone, QueuedOld, Pipeline
  PROVE  QueuedOld'
<1>1. queued' \subseteq queued /\ cutoff' = cutoff
  BY DEF Pipeline
<1>2. ASSUME NEW m \in manifests', m \notin manifests
      PROVE  m.chain \notin queued
  <2>1. PICK it \in items : Alike(m, it)
    <3>1. CASE NothingNewer
      BY <1>2, <3>1 DEF NothingNewer
    <3>2. CASE \E it \in Item : Captures(it)
      BY <1>2, <3>2 DEF Captures, driveVars
    <3> QED BY <3>1, <3>2, NewerSteps DEF QueueInv, Pipeline
  <2>2. it.chain \in Nat /\ m.chain = it.chain
    BY <2>1 DEF Alike, Numbers
  <2>3. it.chain \in queued => it.chain < it.chain
    BY QueuedDone
  <2> QED BY <2>2, <2>3
<1> QED BY <1>1, <1>2 DEF QueuedOld

\* Every manifest of a chain that a prune queues was captured before the cutoff.
LEMMA QueuesOld ==
  ASSUME QueueInv, InOrder, OlderDone, Recorded, QueuedOld, NEW cut, NEW seen, Queues(cut, seen),
         NEW m \in manifests, m.chain \in Eligible(cut) \cup seen, m.chain \notin queued
  PROVE  m.at < cut
<1> DEFINE q == m.chain
<1>1. q \in Chains /\ CommittedChains # {} /\ q < NewestChain
  BY QueuedBelow
<1>2. NewestChain \in CommittedChains
  BY <1>1, NewestUnqueued
<1>3. /\ q \in Nat /\ NewestChain \in Nat /\ committed[q] \in Nat
      /\ m.seq \in Nat /\ 1 <= m.seq /\ m.at \in Nat /\ cut \in Nat
  <2>1. Numbers /\ NewestChain \in Chains /\ Chains \subseteq Nat
    BY <1>2, NumbersType, ChainNumbers DEF QueueInv
  <2>2. cut \in 0..(now + 1)
    BY DEF Queues
  <2> QED BY <1>1, <2>1, <2>2 DEF Numbers
<1>4. \A it \in items : it.chain # q
  <2> SUFFICES ASSUME NEW it \in items, it.chain = q PROVE FALSE
    OBVIOUS
  <2>1. NewestChain <= it.chain
    BY <1>2 DEF OlderDone
  <2> QED BY <1>1, <1>3, <2>1
<1>5. q \in entries => m.seq = 1 \/ m.seq <= committed[q]
  BY <1>4 DEF Recorded, Name
<1>6. CASE q \in CommittedChains /\ LastCapturedAt(q) < cut
  <2> DEFINE ms == {n \in manifests : n.chain = q /\ n.seq = committed[q]}
  <2>1. ms # {}
    BY <1>6 DEF QueueInv, CommittedStand
  <2>2. PICK c \in ms : LastCapturedAt(q) = c.at
    BY <2>1 DEF LastCapturedAt
  <2>3. m.seq <= c.seq
    BY <1>3, <1>5, <1>6, <2>2 DEF CommittedChains
  <2>4. m.at <= c.at
    BY <2>2, <2>3 DEF InOrder, Copies
  <2>5. c.at \in Nat
    BY <2>2, NumbersType DEF QueueInv, Numbers
  <2> QED BY <1>3, <1>6, <2>2, <2>4, <2>5
<1>7. CASE q \in entries \ CommittedChains /\ q < cut
  <2>1. committed[q] = 0
    BY <1>3, <1>7 DEF CommittedChains
  <2>2. m.seq = 1
    BY <1>3, <1>5, <1>7, <2>1
  <2>3. m.at = q
    BY <2>2 DEF QueueInv, Dated, Copies
  <2> QED BY <1>7, <2>3
<1>8. CASE q \in seen
  <2>1. touched[q] < cut
    BY <1>1, <1>8 DEF Queues, Unknown
  <2>2. m.at <= touched[q] /\ touched[q] \in 0..MaxCaptures
    BY <1>1 DEF QueueInv, FoldersTouched, PruneTypeOK
  <2> QED BY <1>3, <2>1, <2>2, ConstantsAssumption
<1> QED BY <1>1, <1>6, <1>7, <1>8 DEF Eligible

\* So what is queued lies behind the cutoff, also after a prune.
LEMMA PruneQueuedOld ==
  ASSUME QueueInv, InOrder, OlderDone, Recorded, QueuedOld, Prune
  PROVE  QueuedOld'
<1>0. TypeInv /\ PruneTypeOK
  BY DEF QueueInv
<1>1. manifests' \subseteq manifests
  BY <1>0, PruneLeaves
<1>2. CASE queued' \subseteq queued /\ cutoff' = cutoff
  BY <1>1, <1>2 DEF QueuedOld
<1>3. ASSUME NEW cut, NEW seen, Queues(cut, seen)
      PROVE  QueuedOld'
  <2>1. /\ cut \in 0..(now + 1)
        /\ cut = 0 \/ cutoff <= cut
        /\ queued' = queued \cup Eligible(cut) \cup seen
        /\ cutoff' = IF cut = 0 THEN cutoff ELSE cut
    BY <1>3 DEF Queues, PruneQueue
  <2>2. cut \in Nat /\ cutoff \in Nat /\ \A m \in manifests : m.at \in Nat
    <3>1. Numbers
      BY <1>0, NumbersType
    <3>2. cutoff \in 0..MaxCaptures + 1
      BY <1>0 DEF PruneTypeOK
    <3> QED BY <2>1, <3>1, <3>2, ConstantsAssumption DEF Numbers
  <2> SUFFICES ASSUME NEW m \in manifests, m.chain \in queued' PROVE m.at < cutoff'
    BY <1>1 DEF QueuedOld
  <2>3. CASE m.chain \in queued
    BY <2>1, <2>2, <2>3 DEF QueuedOld
  <2>4. CASE m.chain \notin queued
    <3>1. m.at < cut
      BY <1>3, <2>1, <2>4, QueuesOld
    <3> QED BY <2>1, <2>2, <3>1
  <2> QED BY <2>3, <2>4
<1> QED BY <1>0, <1>2, <1>3, PruneSteps

\* PruneInv is inductive.
LEMMA PruneInvStep == PruneInv /\ [PruneNext]_allVars => PruneInv'
<1> SUFFICES ASSUME PruneInv, [PruneNext]_allVars PROVE PruneInv'
  OBVIOUS
<1>1. QueueInv /\ QueueInv'
  BY QueueInvStep DEF PruneInv
<1>2. TypeInv /\ ChainInv /\ EntriesKnown /\ Dated /\ TypeInv' /\ EntriesKnown'
  BY <1>1 DEF QueueInv
<1>3. Numbers
  BY <1>2, NumbersType
<1>4. Numbers'
  BY <1>2, NumbersType, PTL
<1> SUFFICES ASSUME crashes' = 0
             PROVE  (InOrder /\ StateLast /\ OlderDone /\ InflightInv /\ Recorded /\ QueuedOld)'
  BY <1>1 DEF PruneInv, UncrashedInv
<1>5. crashes = 0
  BY <1>2, CrashesGrow
<1>6. InOrder /\ StateLast /\ OlderDone /\ InflightInv /\ Recorded /\ QueuedOld
  BY <1>5 DEF PruneInv, UncrashedInv
<1>7. CASE Pipeline
  <2>1. [Next]_vars
    BY <1>7 DEF Pipeline
  <2>2. (InOrder /\ StateLast)'
    BY <1>2, <1>3, <1>4, <1>5, <1>6, <2>1, OrderStep
  <2>3. OlderDone'
    BY <1>1, <1>2, <1>3, <1>4, <1>6, <1>7, OlderDoneStep
  <2>4. InflightInv'
    BY <1>2, <1>6, <2>1, InflightInvStep
  <2>5. Recorded'
    BY <1>1, <1>6, <2>1, RecordedStep
  <2>6. QueuedOld'
    BY <1>1, <1>3, <1>4, <1>6, <1>7, PipelineQueuedOld
  <2> QED BY <2>2, <2>3, <2>4, <2>5, <2>6
<1>8. CASE Prune
  <2>1. (InOrder /\ StateLast /\ OlderDone /\ InflightInv /\ Recorded)'
    BY <1>1, <1>5, <1>6, <1>8, PruneKeepsOrder
  <2>2. QueuedOld'
    BY <1>1, <1>6, <1>8, PruneQueuedOld
  <2> QED BY <2>1, <2>2
<1>9. CASE UNCHANGED allVars
  <2>1. UNCHANGED <<items, idx, cap, now, mem, crashes, damage, entries, committed, files,
                    started, sent, deletes, refused, folders, nextId, manifests, queued,
                    touched, cutoff, pruning>>
    BY <1>9 DEF allVars, vars, outboxVars, journalVars, driveVars, pruneVars
  <2>2. (InOrder /\ StateLast /\ OlderDone)'
    BY <1>6, <2>1 DEF InOrder, StateLast, Capturing, IsLast, Copies, OlderDone, CommittedChains
  <2>3. InflightInv'
    BY <1>6, <2>1, QuietInflight
  <2>4. (Recorded /\ QueuedOld)'
    BY <1>6, <2>1 DEF Recorded, SentUp, AllSent, SentOf, QueuedOld
  <2> QED BY <2>2, <2>3, <2>4
<1> QED BY <1>7, <1>8, <1>9 DEF PruneNext

\* Nothing was captured at first.
LEMMA PruneInvInit == PruneInit => PruneInv
<1> SUFFICES ASSUME PruneInit PROVE PruneInv
  OBVIOUS
<1>1. QueueInv
  BY QueueInvInit
<1>2. items = {} /\ manifests = {} /\ cap = None /\ mem = None
  BY DEF PruneInit, Init, OutboxInit
<1>3. InOrder /\ StateLast /\ OlderDone /\ Recorded /\ QueuedOld
  BY <1>2 DEF InOrder, StateLast, Capturing, Copies, OlderDone, Recorded, QueuedOld
<1>4. InflightInv
  BY ChainsInit DEF PruneInit
<1> QED BY <1>1, <1>3, <1>4 DEF PruneInv, UncrashedInv

\* PruneInv holds in every reachable state.
LEMMA PruneAlways == PruneSpec => []PruneInv
<1> QED BY PruneInvInit, PruneInvStep, PTL DEF PruneSpec

\* The newest restore point outlives every prune, whatever the retention, as long as
\* no process died: it is of a chain that no prune queues.
THEOREM NewestStays == PruneSpec => NewestPointKept
<1>1. PruneInv /\ [PruneNext]_allVars =>
        [crashes' = 0 =>
           \A m \in manifests :
             (\A n \in manifests : n.at <= m.at) => m \in manifests']_allVars
  <2> SUFFICES ASSUME PruneInv, [PruneNext]_allVars, crashes' = 0,
                      NEW m \in manifests, \A n \in manifests : n.at <= m.at,
                      m \notin manifests'
               PROVE  FALSE
    OBVIOUS
  <2>1. QueueInv /\ InOrder
    <3>1. QueueInv
      BY DEF PruneInv
    <3>2. crashes = 0
      BY <3>1, CrashesGrow DEF QueueInv
    <3> QED BY <3>1, <3>2 DEF PruneInv, UncrashedInv
  <2>2. m.chain \in queued
    BY <2>1, TrashedQueued
  <2>3. NewestChain \in CommittedChains \ queued /\ m.chain < NewestChain
    BY <2>1, <2>2, NewestUnqueued DEF QueueInv, QueueBelow
  <2>4. PICK n \in manifests : n.chain = NewestChain
    BY <2>1, <2>3 DEF QueueInv, CommittedStand
  <2>5. m.at < n.chain /\ n.chain <= n.at
    BY <2>1, <2>3, <2>4 DEF InOrder, QueueInv, Dated, Copies
  <2>6. n.chain \in Nat /\ n.at \in Nat /\ m.at \in Nat
    BY <2>1, NumbersType DEF QueueInv, Numbers
  <2>7. n.at <= m.at
    OBVIOUS
  <2> QED BY <2>5, <2>6, <2>7
<1> QED BY <1>1, PruneAlways, PTL DEF PruneSpec, NewestPointKept

\* No prune trashes a restore point that the retention still covers, as long as no
\* process died: what is queued lies behind the latest cutoff.
THEOREM RetentionStays == PruneSpec => RetentionKeptUncrashed
<1>1. PruneInv /\ [PruneNext]_allVars =>
        [crashes' = 0 => \A m \in manifests : m \notin manifests' => m.at < cutoff]_allVars
  <2> SUFFICES ASSUME PruneInv, [PruneNext]_allVars, crashes' = 0,
                      NEW m \in manifests, m \notin manifests'
               PROVE  m.at < cutoff
    OBVIOUS
  <2>1. QueueInv /\ QueuedOld
    <3>1. QueueInv
      BY DEF PruneInv
    <3>2. crashes = 0
      BY <3>1, CrashesGrow DEF QueueInv
    <3> QED BY <3>1, <3>2 DEF PruneInv, UncrashedInv
  <2>2. m.chain \in queued
    BY <2>1, TrashedQueued
  <2> QED BY <2>1, <2>2 DEF QueuedOld
<1> QED BY <1>1, PruneAlways, PTL DEF PruneSpec, RetentionKeptUncrashed

\* Journal, queue and Drive keep their shape through every queueing and trashing.
THEOREM PruneTypes == PruneSpec => []PruneTypeOK
<1>1. QueueInv => PruneTypeOK
  BY DEF QueueInv
<1> QED BY <1>1, QueueAlways, PTL
==============================================================================
