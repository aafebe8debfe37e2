----------------------------- MODULE BackupPrune -----------------------------
(***************************************************************************)
(* Pruning of whole chains: src/mcpbrain/backup_prune.py, composed with    *)
(* the capture and upload of BackupUploader.  A prune step queues what may *)
(* go on the journal's pending_deletes (one save), then trashes the queue  *)
(* id by id, saving after each; it may stop, fail or crash anywhere.       *)
(*                                                                         *)
(* Time: the k-th capture happens at time k and any time may pass before   *)
(* the next, so a prune may run with any cutoff (now - retain_days) up to  *)
(* the next capture's time.  A chain is named for its base's capture time, *)
(* which is its first_captured_at, and each capture has a day of its own.  *)
(***************************************************************************)
EXTENDS BackupUploader

VARIABLES queued,   \* chain folders in pending_deletes
          touched,  \* per chain folder: captures so far at its newest activity
          cutoff,   \* the latest retention cutoff a prune has used
          pruning   \* a prune step has queued and is in its trash loop

pruneVars == <<queued, touched, cutoff, pruning>>
allVars == <<vars, pruneVars>>

CommittedChains == {ch \in entries : committed[ch] > 0}
NewestIn(S) == CHOOSE ch \in S : \A o \in S : o <= ch

\* Mutant: a chain that has no restore point yet counts as the newest.
NewestStarted == NewestIn(entries)

NewestChain == NewestIn(CommittedChains)

\* last_captured_at: the capture time of the newest item committed.
LastCapturedAt(ch) ==
  LET ms == {m \in manifests : m.chain = ch /\ m.seq = committed[ch]}
  IN IF ms = {} THEN 0 ELSE (CHOOSE m \in ms : TRUE).at

\* base_bytes, in pages.
BaseBytes(ch) ==
  LET base == {f \in files : f.chain = ch /\ f.seq = 1 /\ f.kind = "pages"}
  IN Cardinality(UNION {DOMAIN f.data : f \in base})

\* The newest chain's base is under half of the one's before it.
Held == /\ Cardinality(CommittedChains) >= 2
        /\ LET previous == NewestIn(CommittedChains \ {NewestChain})
           IN 2 * BaseBytes(NewestChain) < BaseBytes(previous)

\* Mutants: the newest chain is not kept apart; a chain's age is its base's.
EligibleNewest(cut) ==
  {ch \in CommittedChains : LastCapturedAt(ch) < cut}
EligibleByBase(cut) ==
  IF CommittedChains = {} THEN {}
  ELSE {ch \in CommittedChains \ {NewestChain} : ch < cut}

\* _eligible_chains: committed ones behind the newest, by age; and ones that
\* never committed and were overtaken.
Eligible(cut) ==
  IF CommittedChains = {} THEN {}
  ELSE {ch \in CommittedChains \ {NewestChain} : LastCapturedAt(ch) < cut}
       \cup {ch \in entries \ CommittedChains : ch < cut /\ ch < NewestChain}

\* What a listing of an unknown folder shows of its base.
ListedBase(ch) ==
  LET base == {f \in UNION {m.files : m \in manifests} :
                 f.chain = ch /\ f.seq = 1 /\ f.kind = "pages"}
  IN Cardinality(UNION {DOMAIN f.data : f \in base})

\* _unknown_chains: folders the journal does not know, inactive since before
\* the cutoff and the newest chain, unless their base dwarfs the newest one.
Unknown(cut) ==
  IF CommittedChains = {} THEN {}
  ELSE {ch \in folders \ entries : /\ touched[ch] < cut /\ touched[ch] < NewestChain
                                   /\ 2 * BaseBytes(NewestChain) >= ListedBase(ch)}

\* _trim_records: each chain's journal files keep the newest records only.
Trimmed == UNION {ManifestFiles({f \in files : f.chain = ch}) : ch \in Chains}

-----------------------------------------------------------------------------
(* Actions.                                                                 *)

\* A prune step begins: queue the journal's own chains, then the unknown ones it
\* got to see (listings fail, the budget ends).  Cutoff 0 is retain_days 0.
PruneQueue(cut, seen) ==
  /\ mem = None /\ ~Held
  /\ cut = 0 \/ cutoff <= cut
  /\ queued' = queued \cup Eligible(cut) \cup seen
  /\ files' = Trimmed
  /\ cutoff' = IF cut = 0 THEN cutoff ELSE cut
  /\ pruning' = TRUE
  /\ UNCHANGED <<outboxVars, entries, committed, started, sent, deletes, refused,
                 driveVars, touched>>

\* Or it finds the newest base too small, and deletes nothing.
PruneHeld ==
  /\ mem = None /\ Held
  /\ files' = Trimmed
  /\ pruning' = FALSE
  /\ UNCHANGED <<outboxVars, entries, committed, started, sent, deletes, refused,
                 driveVars, queued, touched, cutoff>>

\* The remote half of one deletion: the folder and all in it go to the trash.
Trash(ch) == /\ folders' = folders \ {ch}
             /\ manifests' = {m \in manifests : m.chain # ch}
             /\ UNCHANGED nextId

\* Trash one queued chain and forget it.
TrashChain(ch) ==
  /\ pruning /\ ch \in queued
  /\ Trash(ch)
  /\ queued' = queued \ {ch}
  /\ entries' = entries \ {ch}
  /\ committed' = [committed EXCEPT ![ch] = 0]
  /\ files' = {f \in files : f.chain # ch}
  /\ UNCHANGED <<outboxVars, started, sent, deletes, refused, touched, cutoff, pruning>>

\* The process dies before the journal hears of it.
TrashChainCrash(ch) ==
  /\ pruning /\ ch \in queued /\ crashes < MaxCrashes
  /\ Trash(ch)
  /\ crashes' = crashes + 1
  /\ pruning' = FALSE
  /\ UNCHANGED <<items, idx, cap, now, mem, damage, journalVars, queued, touched, cutoff>>

\* Trash one file the uploader queued.
TrashFile(id) ==
  /\ pruning /\ id \in deletes
  /\ deletes' = deletes \ {id}
  /\ UNCHANGED <<outboxVars, entries, committed, files, started, sent, refused,
                 driveVars, pruneVars>>

-----------------------------------------------------------------------------
PruneInit == /\ Init
             /\ queued = {} /\ touched = [ch \in Chains |-> 0]
             /\ cutoff = 0 /\ pruning = FALSE

\* A capture or upload step, with the folder activity Drive sees (captures, upload
\* steps and prune steps run one after the other on the loop thread).
Touches(ch) == \/ ch \in folders' \ folders
               \/ \E f \in sent' \ sent : f.chain = ch
               \/ \E m \in manifests' \ manifests : m.chain = ch

Pipeline ==
  /\ Next
  /\ touched' = [ch \in Chains |-> IF Touches(ch) THEN now ELSE touched[ch]]
  /\ queued' = IF entries # {} /\ entries' = {} THEN {} ELSE queued
  /\ pruning' = FALSE
  /\ UNCHANGED cutoff

Prune == \/ \E cut \in 0..(now + 1) : \E seen \in SUBSET Unknown(cut) : PruneQueue(cut, seen)
         \/ PruneHeld
         \/ \E ch \in Chains : TrashChain(ch) \/ TrashChainCrash(ch)
         \/ \E id \in deletes : TrashFile(id)

PruneNext == Pipeline \/ Prune

PruneSpec == PruneInit /\ [][PruneNext]_allVars

-----------------------------------------------------------------------------
(* Properties.                                                              *)

\* The journal keeps its shape through every queueing and trashing of a chain.
PruneTypeOK == /\ TypeOK
               /\ queued \subseteq Chains
               /\ touched \in [Chains -> 0..MaxCaptures]
               /\ cutoff \in 0..MaxCaptures + 1 /\ pruning \in BOOLEAN

\* "The newest is always kept": while no process died, no step takes the newest
\* restore point away, however late the retention has run and whatever was queued.
NewestPointKept ==
  [][crashes' = 0 =>
       \A m \in manifests :
         (\A n \in manifests : n.at <= m.at) => m \in manifests']_allVars

\* A restore point inside the retention window is never trashed.  (It is, after a
\* crash between a base's commit point and its capture state.)
RetentionKept ==
  [][\A m \in manifests : m \notin manifests' => m.at < cutoff]_allVars

\* The same, while no process died.
RetentionKeptUncrashed ==
  [][crashes' = 0 => \A m \in manifests : m \notin manifests' => m.at < cutoff]_allVars

\* A chain with restore points goes only when a chain begun after it has one
\* that stays, also when the process dies or the journal was lost.
SuccessorRestorable ==
  [][\A m \in manifests : m \notin manifests' =>
       \E n \in manifests : n.chain > m.chain /\ n \in manifests']_allVars
=============================================================================
