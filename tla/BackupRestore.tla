---------------------------- MODULE BackupRestore ----------------------------
(***************************************************************************)
(* Restoring the newest restore point: src/mcpbrain/backup_restore.py      *)
(* (restore_latest), with the caller's rule that a store with content is   *)
(* never restored over.  Drive does not change while a restore runs; what  *)
(* it holds, and what of it is damaged, is any choice of the initial       *)
(* state.  Downloads fail, budgets run out and the process dies at any     *)
(* point; the next attempt starts over with the files already verified.    *)
(*                                                                         *)
(* A restore point is <<chain, seq>>; the files of manifest <<c, s>> are   *)
(* those of <<c, 1>> .. <<c, s>>.  A legacy single-file backup is a chain  *)
(* of one point whose capture time needs no manifest.                      *)
(***************************************************************************)
EXTENDS Naturals, FiniteSets

CONSTANTS Manifested,  \* chains of the incremental layout
          Legacy,      \* single-file backups
          Depth,       \* manifests per chain: [Manifested -> Nat]
          Live,        \* the store and records as they were (empty)
          None,
          MaxFailures  \* BOUND: aborted attempts and crashes

ASSUME RestoreAssumption ==
  /\ Manifested \cap Legacy = {} /\ Depth \in [Manifested -> Nat]
  /\ MaxFailures \in Nat

Chains == Manifested \cup Legacy
Deep(ch) == IF ch \in Legacy THEN 1 ELSE Depth[ch]
Points == UNION {{ch} \X (1..Deep(ch)) : ch \in Chains}
Times  == 1..Cardinality(Points)

ASSUME NoneAssumption == None \notin Points

VARIABLES at,        \* captured_at of each point (created time, if legacy)
          manifest,  \* what reading a point's manifest would show
          fileOk,    \* the point's own file can be fetched and verifies
          phase,     \* idle, running, swapped, restored, partial or none
          pos,       \* per chain, the seq of the next manifest to read
          heap,      \* the heads read and not yet tried
          cand,      \* the candidate being built, or None
          skipped,   \* fallbacks: the candidates given up in this attempt
          cached,    \* files verified under <backup>/restore
          dest,      \* the live store: Live, or the point swapped in
          recs,      \* the records and config: Live, or the point's
          failures

drive == <<at, manifest, fileOk>>
vars  == <<drive, phase, pos, heap, cand, skipped, cached, dest, recs, failures>>

\* Capture times are distinct and grow with the seq within a chain.
IsTiming(t) == /\ \A p, q \in Points : p # q => t[p] # t[q]
               /\ \A p, q \in Points : p[1] = q[1] /\ p[2] < q[2] => t[p] < t[q]

Readable(pt) == pt[1] \in Legacy \/ manifest[pt] # "unreadable"

\* A legacy file is fetched anew each time: there is no sha256 to trust a copy.
FilesOf(pt) == {q \in Points : q[1] = pt[1] /\ q[2] <= pt[2]}
Sound(pt) == /\ manifest[pt] = "good" \/ (pt[1] \in Legacy /\ manifest[pt] # "mismatch")
             /\ \A q \in FilesOf(pt) : fileOk[q]

-----------------------------------------------------------------------------
Init ==
  /\ at \in {t \in [Points -> Times] : IsTiming(t)}
  /\ manifest \in [Points -> {"good", "unreadable", "mismatch"}]
  /\ fileOk \in [Points -> BOOLEAN]
  /\ phase = "idle" /\ pos = [ch \in Chains |-> 0] /\ heap = {} /\ cand = None
  /\ skipped = {} /\ cached = {} /\ dest = Live /\ recs = Live /\ failures = 0

\* An attempt lists every folder; an incomplete listing is a failed attempt.
Begin ==
  /\ phase = "idle" /\ dest = Live
  /\ phase' = "running"
  /\ pos' = [ch \in Chains |-> Deep(ch)]
  /\ heap' = {} /\ cand' = None /\ skipped' = {}
  /\ UNCHANGED <<drive, cached, dest, recs, failures>>

\* A chain's head has still to be read: none of its points is waiting.
NeedsHead(ch) == pos[ch] > 0 /\ ~\E pt \in heap : pt[1] = ch

\* _head: decrypt the chain's next manifest; one that is unreadable is skipped.
ReadHead(ch) ==
  /\ phase = "running" /\ cand = None /\ NeedsHead(ch)
  /\ pos' = [pos EXCEPT ![ch] = @ - 1]
  /\ IF Readable(<<ch, pos[ch]>>)
       THEN heap' = heap \cup {<<ch, pos[ch]>>} /\ UNCHANGED skipped
       ELSE skipped' = skipped \cup {<<ch, pos[ch]>>} /\ UNCHANGED heap
  /\ UNCHANGED <<drive, phase, cand, cached, dest, recs, failures>>

\* Mutant: a head is tried while other chains have none yet.
PopFirst(pt) ==
  /\ phase = "running" /\ cand = None
  /\ pt \in heap /\ \A o \in heap : at[o] <= at[pt]
  /\ heap' = heap \ {pt}
  /\ cand' = pt
  /\ UNCHANGED <<drive, phase, pos, skipped, cached, dest, recs, failures>>

\* The newest head, once every chain has one or is exhausted.
Pop(pt) ==
  /\ phase = "running" /\ cand = None
  /\ \A ch \in Chains : ~NeedsHead(ch)
  /\ pt \in heap /\ \A o \in heap : at[o] <= at[pt]
  /\ heap' = heap \ {pt}
  /\ cand' = pt
  /\ UNCHANGED <<drive, phase, pos, skipped, cached, dest, recs, failures>>

\* Files are fetched in manifest order; one that verifies is kept on disk.
Fetch(f) ==
  /\ phase = "running" /\ cand # None
  /\ f \in FilesOf(cand) \ cached
  /\ \A q \in FilesOf(cand) \ cached : f[2] <= q[2]
  /\ fileOk[f]
  /\ cached' = cached \cup {f}
  /\ UNCHANGED <<drive, phase, pos, heap, cand, skipped, dest, recs, failures>>

\* Mutant: the broken candidate goes back among the heads.
FallbackRequeue ==
  /\ phase = "running" /\ cand # None
  /\ \/ \E f \in FilesOf(cand) \ cached :
          /\ ~fileOk[f] /\ \A q \in FilesOf(cand) \ cached : f[2] <= q[2]
     \/ FilesOf(cand) \subseteq cached /\ ~Sound(cand)
  /\ heap' = heap \cup {cand}
  /\ cand' = None
  /\ UNCHANGED <<drive, phase, pos, skipped, cached, dest, recs, failures>>

\* A missing or mismatching file, or a rebuilt store that is not what the
\* manifest says, is proof against the candidate: the next older one is tried.
Fallback ==
  /\ phase = "running" /\ cand # None
  /\ \/ \E f \in FilesOf(cand) \ cached :
          /\ ~fileOk[f] /\ \A q \in FilesOf(cand) \ cached : f[2] <= q[2]
     \/ FilesOf(cand) \subseteq cached /\ ~Sound(cand)
  /\ skipped' = skipped \cup {cand}
  /\ cand' = None
  /\ UNCHANGED <<drive, phase, pos, heap, cached, dest, recs, failures>>

\* The staged copy verified: it replaces the live store.
Swap ==
  /\ phase = "running" /\ cand # None
  /\ FilesOf(cand) \subseteq cached /\ Sound(cand)
  /\ dest' = cand
  /\ phase' = "swapped"
  /\ UNCHANGED <<drive, pos, heap, cand, skipped, cached, recs, failures>>

\* Then the records and the config; the downloads go.
PlaceRecords ==
  /\ phase = "swapped"
  /\ recs' = cand
  /\ phase' = "restored" /\ cached' = {}
  /\ UNCHANGED <<drive, pos, heap, cand, skipped, dest, failures>>

\* Placing them fails: reported as a partial restore, never retried.
PlaceFails ==
  /\ phase = "swapped" /\ failures < MaxFailures
  /\ phase' = "partial"
  /\ failures' = failures + 1
  /\ UNCHANGED <<drive, pos, heap, cand, skipped, cached, dest, recs>>

\* Mutant: the walk ends with the first head that fails.
NothingLeftEarly ==
  /\ phase = "running" /\ cand = None /\ heap = {}
  /\ phase' = "none" /\ cached' = {}
  /\ UNCHANGED <<drive, pos, heap, cand, skipped, dest, recs, failures>>

NothingLeft ==
  /\ phase = "running" /\ cand = None /\ heap = {}
  /\ \A ch \in Chains : pos[ch] = 0
  /\ phase' = "none" /\ cached' = {}
  /\ UNCHANGED <<drive, pos, heap, cand, skipped, dest, recs, failures>>

\* Mutant: a failure on the way counts as proof against the candidate.
AbortSkips ==
  /\ phase = "running" /\ cand # None /\ failures < MaxFailures
  /\ skipped' = skipped \cup {cand} /\ cand' = None
  /\ failures' = failures + 1
  /\ UNCHANGED <<drive, phase, pos, heap, cached, dest, recs>>

\* A transient download failure, the budget, a full disk, a busy live store:
\* no evidence against the candidate, so the attempt ends and is run again.
Abort ==
  /\ phase = "running" /\ failures < MaxFailures
  /\ phase' = "idle"
  /\ failures' = failures + 1
  /\ UNCHANGED <<drive, pos, heap, cand, skipped, cached, dest, recs>>

Crash ==
  /\ phase = "swapped" /\ failures < MaxFailures
  /\ phase' = "idle"
  /\ failures' = failures + 1
  /\ UNCHANGED <<drive, pos, heap, cand, skipped, cached, dest, recs>>

Step == \/ Begin
        \/ \E ch \in Chains : ReadHead(ch)
        \/ \E pt \in Points : Pop(pt) \/ Fetch(pt)
        \/ Fallback \/ Swap \/ PlaceRecords \/ NothingLeft

Next == Step \/ PlaceFails \/ Abort \/ Crash

Spec == Init /\ [][Next]_vars /\ WF_vars(Step)

-----------------------------------------------------------------------------
\* Heads, candidates and downloads are always restore points that exist, and the
\* walk never leaves a chain's manifests.
TypeOK ==
  /\ at \in [Points -> Times]
  /\ manifest \in [Points -> {"good", "unreadable", "mismatch"}]
  /\ fileOk \in [Points -> BOOLEAN]
  /\ phase \in {"idle", "running", "swapped", "restored", "partial", "none"}
  /\ DOMAIN pos = Chains /\ \A ch \in Chains : pos[ch] \in 0..Deep(ch)
  /\ heap \subseteq Points /\ skipped \subseteq Points /\ cached \subseteq Points
  /\ cand \in Points \cup {None}
  /\ dest \in Points \cup {Live} /\ recs \in Points \cup {Live}
  /\ failures \in 0..MaxFailures

Usable == {pt \in Points : Sound(pt)}

\* The store that is swapped in is the newest of ALL usable restore points, over
\* every chain and legacy file, however many broken ones come before it.
RestoresNewest == dest # Live =>
  dest \in Usable /\ \A pt \in Usable : at[pt] <= at[dest]

\* "No restore point" is said only when Drive holds none that can be used.
NoneMeansNone == phase = "none" => Usable = {}

\* Only a candidate proved broken is ever passed over: a dropped link never
\* demotes the restore to an older point.
SkipsOnlyBroken == \A pt \in skipped : ~Sound(pt)

\* Whatever aborts, a restore ends: with a store, or knowing there is none.
Terminates == <>(phase \in {"restored", "partial", "none"} \/ dest # Live)
=============================================================================
