---------------------------- MODULE EnrichQueue ----------------------------
(***************************************************************************)
(* Enrichment: prepare.prepare_units writes the un-enriched chunks as work *)
(* units, model sessions lease, read and answer them (tools.py,            *)
(* brain_enrich_claim and brain_enrich_push), drain.drain applies the      *)
(* answers and marks the chunks they were made from.                       *)
(*                                                                         *)
(* The daemon's cycle syncs, prepares and drains, in this order and on one *)
(* thread; the workers are other processes and act between any two of its  *)
(* steps.  A unit's file name is a hash of the set of its threads: another *)
(* prepare of the same threads writes the same file, also while a worker   *)
(* holds a copy of the old one, and so does another part of a thread that  *)
(* was split.                                                              *)
(*                                                                         *)
(* A chunk is a number, in the order of its message and index; a text is a *)
(* version.  A My Drive or note chunk whose text an enriched chunk has is  *)
(* marked as its copy when it is stored, and released when that one's text *)
(* moves.  The graph, block units, merge answers, reflow, deletion, noise  *)
(* and trivial threads and the attempt counters' other users are not       *)
(* modelled.  A worker that answers echoes part numbers and message ids as *)
(* it read them; what it may do is leave an extraction out, or return one  *)
(* that is invalid or matches nothing.                                     *)
(***************************************************************************)
EXTENDS Naturals, FiniteSets, Sequences, SequencesExt

CONSTANTS Chunks,        \* numbers
          Content(_, _), \* what a chunk says at a version: content_hash
          Carried,       \* _carry_eligible: My Drive and note chunks, not short
          ThreadOf(_),   \* the thread a chunk is grouped under
          KeyOf(_),      \* its message: the file, for every chunk of a file
          Late,          \* chunks that arrive after the first prepare
          Gated,         \* chunks a gate may set aside
          Workers, None,
          CharBudget,    \* char_budget, in chunks: one chunk is of size 1
          UnitBudget,    \* what a unit holds, in chunks
          ThreadCap,     \* thread_cap
          Cap,           \* _EMPTY_ATTEMPT_CAP
          Window,        \* units at which prepare writes no more
          MaxEdits,      \* BOUND: chunks whose text changes
          MaxFaults      \* BOUND: crashes, failures, budgets spent, bad
                         \*   answers, dead or slow workers

ASSUME EnrichAssumption ==
  /\ Chunks \subseteq Nat /\ Late \cup Gated \cup Carried \subseteq Chunks
  /\ None \notin Chunks
  /\ Cap \in Nat \ {0} /\ Window \in Nat \ {0}
  /\ CharBudget \in Nat \ {0} /\ UnitBudget \in Nat \ {0}
  /\ ThreadCap \in Nat \ {0} /\ MaxEdits \in Nat /\ MaxFaults \in Nat

VARIABLES stored,     \* chunks of the store
          enriched,   \* chunks.enriched = 1
          cold,       \* chunks.enrich_state = 'cold'
          attempts,   \* chunks.enrich_attempts, saturating at Cap
          text,       \* the version of each chunk's text
          copyOf,     \* dup_of: the chunk that each is a copy of, or None
          units,      \* enrich_queue/units: a function from ids to their parts
          live,       \* ids with a lease younger than _LEASE_TTL_S
          held,       \* per worker: the unit it has read, or None
          inbox,      \* enrich_inbox: at most one answer per id
          pc,         \* what the cycle does
          files,      \* the inbox files this drain still has to read
          job,        \* the file being drained, or None
          faults,
          read,       \* history: chunks whose text was in an applied extraction
          givenUp,    \* history: chunks consumed at the cap
          excused     \* history: chunks marked for one of the reasons below

storeVars == <<stored, enriched, cold, attempts, text, copyOf>>
queueVars == <<units, live, held, inbox>>
cycleVars == <<pc, files, job>>
ghostVars == <<read, givenUp, excused>>
vars == <<storeVars, queueVars, cycleVars, ghostVars, faults>>

Threads == {ThreadOf(c) : c \in Chunks}
Ids     == (SUBSET Threads) \ {{}}

(* A part: what prepare gives a worker of one thread; part 0 is a thread   *)
(* that was not split, and has no part_doc_ids.                            *)
PartOf(t, n, cs) == [thread |-> t, part |-> n,
                     chunks |-> {<<c, text[c]>> : c \in cs}]
IdsOf(part)  == {cv[1] : cv \in part.chunks}
Of(parts, t) == {p \in parts : p.thread = t}

Fault == faults < MaxFaults /\ faults' = faults + 1

---------------------------------------------------------------------------
(* The store.                                                              *)

Unenriched == {c \in stored : c \notin enriched /\ c \notin cold}
Backlog    == {ThreadOf(c) : c \in Unenriched}

\* Mutant: an extraction marks the cold chunks of its file too.
KeepCold(cs) == cs

DropCold(cs) == cs \ cold

(* doc_ids_for_messages: every chunk of the messages these chunks are of.  *)
ByMessage(cs) == {c \in stored : KeyOf(c) \in {KeyOf(k) : k \in cs}}

Same(tx, c, d) == Content(c, tx[c]) = Content(d, tx[d])

(* _release_stale_dups: the copies of c that do not say what it says.      *)
StaleCopies(c, tx) == {d \in stored : copyOf[d] = c /\ ~Same(tx, d, c)}

(* _carry_duplicate: the enriched chunks with the text of c, of which the  *)
(* code takes the oldest.  It does not ask how they came to be enriched.   *)
Canonicals(c, tx) ==
  IF c \notin Carried THEN {}
  ELSE {k \in (stored \cap enriched) \ {c} :
          k \notin cold /\ copyOf[k] = None /\ Same(tx, k, c)}

(* upsert_chunk, for the text of c in tx.                                  *)
Upsert(c, tx) ==
  \E k \in IF Canonicals(c, tx) = {} THEN {None} ELSE Canonicals(c, tx) :
    LET stale == StaleCopies(c, tx)
    IN /\ copyOf' = [d \in Chunks |-> IF d = c THEN k
                                      ELSE IF d \in stale THEN None ELSE copyOf[d]]
       /\ enriched' = (enriched \ (stale \cup {c})) \cup {d \in {c} : k # None}
       /\ cold' = IF k = None THEN cold ELSE cold \ {c}

(* sync: a chunk arrives, or its text changes; attempts stay, and cold but *)
(* for a copy.                                                             *)
Arrive(c) ==
  /\ pc = "sync" /\ c \notin stored
  /\ stored' = stored \cup {c}
  /\ Upsert(c, text)
  /\ UNCHANGED <<attempts, text, queueVars, cycleVars, ghostVars, faults>>

Edit(c) ==
  /\ pc = "sync" /\ c \in stored
  /\ Cardinality({d \in Chunks : text[d] > 0}) < MaxEdits /\ text[c] = 0
  /\ text' = [text EXCEPT ![c] = 1]
  /\ Content(c, 1) # Content(c, 0)
  /\ Upsert(c, text')
  /\ read' = read \ {c} /\ givenUp' = givenUp \ {c} /\ excused' = excused \ {c}
  /\ UNCHANGED <<stored, attempts, queueVars, cycleVars, faults>>

---------------------------------------------------------------------------
(* prepare_units.                                                          *)

(* Greedy packing, at least one item in a bin: of a long thread's messages *)
(* into parts, and of parts into units; size is a function of the items.   *)
Pack(items, budget, size) ==
  LET Put(bins, x) ==
        LET n == Len(bins)
            used == IF n = 0 THEN 0 ELSE FoldLeft(LAMBDA u, y : u + size[y], 0, bins[n])
        IN IF n = 0 \/ used + size[x] > budget THEN Append(bins, <<x>>)
           ELSE [bins EXCEPT ![n] = Append(@, x)]
  IN FoldLeft(Put, <<>>, items)

InOrder(cs) == SetToSortSeq(cs, <)

(* _split_long_thread: a message over the budget is cut at its chunks, and *)
(* the pieces are packed into parts.                                       *)
Pieces(cs) ==
  LET keys == SetToSortSeq({KeyOf(c) : c \in cs}, <)
      piece(k) == LET m == InOrder({c \in cs : KeyOf(c) = k})
                  IN IF Len(m) <= CharBudget THEN <<m>>
                     ELSE Pack(m, CharBudget, [c \in cs |-> 1])
  IN FlattenSeq([i \in DOMAIN keys |-> piece(keys[i])])

Parts(t, cs) ==
  LET pieces == Pieces(cs)
      bins   == Pack(pieces, CharBudget, [m \in ToSet(pieces) |-> Len(m)])
  IN IF Cardinality(cs) <= CharBudget \/ Len(bins) <= 1 THEN <<PartOf(t, 0, cs)>>
     ELSE [n \in DOMAIN bins |-> PartOf(t, n, ToSet(FlattenSeq(bins[n])))]

(* write_units: a unit's id is the set of its threads; of two units with   *)
(* one id the later stays.                                                 *)
IdOf(bin) == {part.thread : part \in ToSet(bin)}
UnitsOf(parts) ==
  LET bins == Pack(parts, UnitBudget,
                   [part \in ToSet(parts) |-> Cardinality(part.chunks)])
  IN FoldLeft(LAMBDA u, bin : [id \in DOMAIN u \cup {IdOf(bin)} |->
                                 IF id = IdOf(bin) THEN ToSet(bin) ELSE u[id]],
              <<>>, bins)

(* Threads in the order of their newest chunk.                             *)
Newest(t)  == CHOOSE c \in Unenriched : ThreadOf(c) = t /\ \A d \in Unenriched :
                                          ThreadOf(d) = t => d <= c
Batches    == SetToSortSeq(Backlog, LAMBDA t, u : Newest(t) > Newest(u))

Written(new) ==
  [id \in DOMAIN units \cup DOMAIN new |->
     IF id \in DOMAIN new THEN new[id] ELSE units[id]]

Admitted == IF Len(Batches) < ThreadCap THEN Len(Batches) ELSE ThreadCap

(* The first n threads: up to the cap, or fewer when the budget is spent.  *)
(* The chunks a gate marks cold (derived sources, salience) are left out;  *)
(* the rest is written as units, unless the queue is full.                 *)
Prepare(n) ==
  /\ pc = "sync" /\ pc' = "drain"
  /\ IF n = Admitted THEN UNCHANGED faults ELSE Fault
  /\ \E gated \in SUBSET {c \in Unenriched \cap Gated : ThreadOf(c) \in ToSet(SubSeq(Batches, 1, n))} :
       LET batch == SubSeq(Batches, 1, n)
           chunksOf(t) == {c \in Unenriched \ gated : ThreadOf(c) = t}
           parts == FlattenSeq([i \in DOMAIN batch |->
                      IF chunksOf(batch[i]) = {} THEN <<>>
                      ELSE Parts(batch[i], chunksOf(batch[i]))])
       IN /\ cold' = cold \cup gated
          /\ units' = IF Cardinality(DOMAIN units) >= Window THEN units
                      ELSE Written(UnitsOf(parts))
  /\ files' = {a.id : a \in inbox}
  /\ UNCHANGED <<stored, enriched, attempts, text, copyOf, live, held, inbox, job,
                 ghostVars>>

---------------------------------------------------------------------------
(* The workers.                                                            *)

(* brain_enrich_claim: the first unit without a live lease.                *)
Claim(w, id) ==
  /\ held[w] = None /\ id \in DOMAIN units /\ id \notin live
  /\ live' = live \cup {id}
  /\ held' = [held EXCEPT ![w] = [id |-> id, parts |-> units[id]]]
  /\ UNCHANGED <<storeVars, units, inbox, cycleVars, ghostVars, faults>>

\* Mutant: a lease has no time limit.
NeverLapsed(id) == live

(* Fifteen minutes pass; a worker that is still at it is slow.             *)
Lapsed(id) == live \ {id}

HeldBySome(id) == \E w \in Workers : held[w] # None /\ held[w].id = id

Expire(id) ==
  /\ id \in live /\ ~HeldBySome(id)
  /\ live' = Lapsed(id)
  /\ UNCHANGED <<storeVars, units, held, inbox, cycleVars, ghostVars, faults>>

ExpireHeld(id) ==
  /\ id \in live /\ HeldBySome(id) /\ Fault
  /\ live' = Lapsed(id)
  /\ UNCHANGED <<storeVars, units, held, inbox, cycleVars, ghostVars>>

(* An answer holds an extraction per part.  A flawed one has one flaw: a   *)
(* part is left out, or the extractions of a thread are invalid, or match  *)
(* no chunk.  What the worker was given is history.                        *)
Good(unit) == [id |-> unit.id, given |-> unit.parts, exts |-> unit.parts,
               bad |-> {}, lost |-> {}]
Flawed(unit) ==
  {[Good(unit) EXCEPT !.exts = @ \ {p}] : p \in {p \in unit.parts : unit.parts # {p}}}
    \cup {[Good(unit) EXCEPT !.bad  = {t}] : t \in unit.id}
    \cup {[Good(unit) EXCEPT !.lost = {t}] : t \in unit.id}

(* brain_enrich_push replaces the answer of that id.                       *)
InboxWith(a)   == {o \in inbox : o.id # a.id} \cup {a}

Deliver(w, a) ==
  /\ inbox' = InboxWith(a)
  /\ held' = [held EXCEPT ![w] = None]
  /\ UNCHANGED <<storeVars, units, live, cycleVars, ghostVars>>

Push(w) == held[w] # None /\ Deliver(w, Good(held[w])) /\ UNCHANGED faults

PushFlawed(w) ==
  /\ held[w] # None /\ Fault
  /\ \E a \in Flawed(held[w]) : Deliver(w, a)

Die(w) ==
  /\ held[w] # None /\ Fault
  /\ held' = [held EXCEPT ![w] = None]
  /\ UNCHANGED <<storeVars, units, live, inbox, cycleVars, ghostVars>>

---------------------------------------------------------------------------
(* drain.                                                                  *)

(* _stamp_part_doc_ids and _regroup_parts, for one thread: when the parts  *)
(* echoed are the unit's, each extraction gets its own part's chunks; else *)
(* the first extraction gets the first part's, and so on.  The extractions *)
(* of a thread are merged, so its chunks are those of the first parts      *)
(* either way: of a part unless the parts before it take all extractions.  *)
(* A thread with no part in the unit is not stamped.                       *)
Before(unitParts, p) == {q \in unitParts : q.part < p.part}

\* Mutant: by thread, so that every part of the unit is stamped.
StampedByThread(exts, unitParts) == UNION {IdsOf(p) : p \in {p \in unitParts : p.part > 0}}

Stamped(exts, unitParts) ==
  UNION {IdsOf(p) : p \in {p \in unitParts :
           p.part > 0 /\ ~ExistsInjection(exts, Before(unitParts, p))}}

(* One entry per thread of the answer: its extractions, the parts they     *)
(* were asked for, and what the unit file says of the thread now.          *)
Extractions(a) ==
  LET parts == IF a.id \in DOMAIN units THEN units[a.id] ELSE {}
  IN {[thread |-> t, exts |-> Of(a.exts, t), given |-> Of(a.given, t),
       now |-> Of(parts, t), bad |-> t \in a.bad, lost |-> t \in a.lost] :
        t \in {p.thread : p \in a.exts}}

PartIds(e) == Stamped(e.exts, e.now)

(* What the extractions of a thread were made from.                        *)
MadeFrom(e) == UNION {p.chunks : p \in e.exts}
MadeIds(e)  == {cv[1] : cv \in MadeFrom(e)}

(* unit_messages_by_thread: of each thread, its last part's.               *)
UnitMessages(id) ==
  IF id \notin DOMAIN units THEN {}
  ELSE UNION {IdsOf(p) : p \in {p \in units[id] :
                \A q \in Of(units[id], p.thread) : q.part <= p.part}}

ReadFile(a) ==
  /\ pc = "drain" /\ job = None /\ a \in inbox /\ a.id \in files
  /\ files' = files \ {a.id}
  /\ job' = [id |-> a.id, todo |-> Extractions(a), marks |-> None, ok |-> TRUE,
             gone |-> FALSE, unit |-> UnitMessages(a.id)]
  /\ UNCHANGED <<storeVars, queueVars, pc, ghostVars, faults>>

(* _give_up_or_bump: one more attempt for each; at the cap of any, all are *)
(* consumed.                                                               *)
Bump(cs) ==
  LET more == [c \in Chunks |-> IF c \in cs /\ attempts[c] < Cap
                                  THEN attempts[c] + 1 ELSE attempts[c]]
      over == IF \E c \in cs : more[c] >= Cap THEN cs ELSE {}
  IN /\ attempts' = more
     /\ enriched' = enriched \cup over
     /\ givenUp' = givenUp \cup (over \ enriched)

(* _resolve_doc_ids.                                                       *)
Resolved(e) ==
  IF e.lost THEN {}
  ELSE DropCold(IF PartIds(e) # {} THEN PartIds(e) ELSE ByMessage(MadeIds(e)))

(* An extraction that is invalid or matches no chunk costs an attempt: of  *)
(* its own messages, or of every message of the unit.                      *)
Skip(e) ==
  /\ job # None /\ job.marks = None /\ e \in job.todo
  /\ e.bad \/ Resolved(e) = {}
  /\ Bump(IF e.bad THEN ByMessage(MadeIds(e)) ELSE ByMessage(job.unit))
  /\ job' = [job EXCEPT !.todo = @ \ {e}]
  /\ UNCHANGED <<stored, cold, text, copyOf, queueVars, pc, files, read, excused, faults>>

(* What an applied extraction marks without having read it is one of:      *)
(* a chunk whose text changed since it was given out;                      *)
Made(e)    == {c \in Chunks : <<c, text[c]>> \in MadeFrom(e)}
Changed(e) == MadeIds(e) \ Made(e)

(* a chunk of a part, when the unit file was rewritten since;              *)
Rewritten(e) == IF e.now = e.given THEN {}
                ELSE UNION {IdsOf(p) : p \in {p \in e.now : p.part > 0}}

(* a part that the answer leaves out and has a later one of, or one of a   *)
(* unit that is gone or is not split now: the whole message is marked;     *)
LeftOut(e) ==
  UNION {IdsOf(p) : p \in {p \in e.given \ e.exts :
           PartIds(e) = {} \/ ~\A q \in e.exts : q.part < p.part}}

(* another chunk of a message, that the worker was not given.              *)
Joined(e) == IF PartIds(e) # {} THEN {}
             ELSE ByMessage(MadeIds(e)) \ UNION {IdsOf(p) : p \in e.given}

Unread(e) == (Resolved(e) \ Made(e))
               \cap (Changed(e) \cup Rewritten(e) \cup LeftOut(e) \cup Joined(e))

Apply(e) ==
  /\ job # None /\ job.marks = None /\ e \in job.todo
  /\ ~e.bad /\ Resolved(e) # {}
  /\ \/ /\ job' = [job EXCEPT !.todo = @ \ {e}, !.marks = Resolved(e)]
        /\ read' = read \cup Made(e)
        /\ excused' = excused \cup Unread(e)
        /\ UNCHANGED faults
     \/ /\ Fault
        /\ job' = [job EXCEPT !.todo = @ \ {e}, !.ok = FALSE]
        /\ UNCHANGED <<read, excused>>
  /\ UNCHANGED <<storeVars, queueVars, pc, files, givenUp>>

Mark ==
  /\ job # None /\ job.marks # None
  /\ enriched' = enriched \cup job.marks
  /\ job' = [job EXCEPT !.marks = None]
  /\ UNCHANGED <<stored, cold, attempts, text, copyOf, queueVars, pc, files, ghostVars,
                 faults>>

(* Every extraction applied: the answer goes, then the unit and its lease. *)
Unlink ==
  /\ job # None /\ job.marks = None /\ job.todo = {} /\ job.ok /\ ~job.gone
  /\ inbox' = {a \in inbox : a.id # job.id}
  /\ job' = [job EXCEPT !.gone = TRUE]
  /\ UNCHANGED <<storeVars, units, live, held, pc, files, ghostVars, faults>>

Remaining(id) == [o \in DOMAIN units \ {id} |-> units[o]]

Consume ==
  /\ job # None /\ job.gone
  /\ units' = Remaining(job.id) /\ live' = live \ {job.id}
  /\ job' = None
  /\ UNCHANGED <<storeVars, held, inbox, pc, files, ghostVars, faults>>

(* An extraction that was not applied keeps the file for the next cycle.   *)
Keep ==
  /\ job # None /\ job.marks = None /\ job.todo = {} /\ ~job.ok
  /\ job' = None
  /\ UNCHANGED <<storeVars, queueVars, pc, files, ghostVars, faults>>

(* The files are done, or the budget is.                                   *)
EndDrain ==
  /\ pc = "drain" /\ job = None
  /\ pc' = "sync" /\ files' = {}
  /\ UNCHANGED <<storeVars, queueVars, job, ghostVars, faults>>

Crash ==
  /\ Fault
  /\ pc' = "sync" /\ files' = {} /\ job' = None
  /\ excused' = excused \cap enriched
  /\ UNCHANGED <<storeVars, queueVars, read, givenUp>>

---------------------------------------------------------------------------
Init ==
  /\ stored = Chunks \ Late /\ enriched = {} /\ cold = {}
  /\ attempts = [c \in Chunks |-> 0] /\ text = [c \in Chunks |-> 0]
  /\ copyOf = [c \in Chunks |-> None]
  /\ units = <<>> /\ live = {} /\ held = [w \in Workers |-> None] /\ inbox = {}
  /\ pc = "sync" /\ files = {} /\ job = None
  /\ faults = 0 /\ read = {} /\ givenUp = {} /\ excused = {}

DrainStep ==
  \/ Mark \/ Unlink \/ Consume \/ Keep
  \/ (job # None /\ \E e \in job.todo : Skip(e) \/ Apply(e))

Next ==
  \/ \E c \in Chunks : Arrive(c) \/ Edit(c)
  \/ EndDrain \/ DrainStep \/ Crash
  \/ \E n \in 0..Admitted : Prepare(n)
  \/ \E a \in inbox : ReadFile(a)
  \/ \E w \in Workers : Push(w) \/ PushFlawed(w) \/ Die(w)
  \/ \E w \in Workers, id \in Ids : Claim(w, id)
  \/ \E id \in Ids : Expire(id) \/ ExpireHeld(id)

Spec == Init /\ [][Next]_vars

(* The cycle runs again and again, and prepare's budget is not spent for   *)
(* ever.  A drain's budget lets a first file through, and a file drained   *)
(* is gone.  Sessions keep taking units and answer them.                   *)
Turn == \/ (pc = "sync" /\ pc' = "drain")
        \/ (pc = "drain" /\ job = None /\ pc' = "sync")

Fairness ==
  /\ WF_pc(Turn)
  /\ WF_vars(DrainStep)
  /\ SF_vars(\E a \in inbox : ReadFile(a))
  /\ SF_vars(\E w \in Workers, id \in Ids : Claim(w, id))
  /\ WF_vars(\E id \in Ids : Expire(id))
  /\ WF_vars(\E w \in Workers : Push(w))

FairSpec == Spec /\ Fairness

---------------------------------------------------------------------------
(* Properties.                                                             *)

(* A chunk is marked enriched only if its text, as it is now, was in an    *)
(* extraction that was applied, its own or that of the chunk it is a copy  *)
(* of, or the chunk or that one was given up at the cap: whatever arrives, *)
(* changes, is rewritten, answered in part, late or twice, fails or        *)
(* crashes meanwhile.  Except for what Changed, Rewritten, LeftOut and     *)
(* Joined name.                                                            *)
Accounted == read \cup givenUp \cup excused

MarkedWasRead ==
  \A c \in enriched \ Accounted :
    copyOf[c] \in Accounted /\ Same(text, c, copyOf[c])

(* drop_cold: a chunk a gate has set aside is not marked by an extraction  *)
(* of its file.  Only giving up does.                                      *)
ColdNotConsumed == cold \cap enriched \subseteq givenUp

(* Once no more arrives or changes, everything is enriched or set aside,   *)
(* whatever was lost, answered badly or left in the queue before.          *)
AllEnriched == <>[](stored \subseteq enriched \cup cold)

(* What the drain says of a part the answer leaves out: it stays un-       *)
(* enriched and is queued again.  The code does not have it (README).      *)
OnlyReadIsMarked ==
  \A c \in enriched \ (read \cup givenUp) : copyOf[c] \in read \cup givenUp
=============================================================================
