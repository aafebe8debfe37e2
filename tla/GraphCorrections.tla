-------------------------- MODULE GraphCorrections --------------------------
(***************************************************************************)
(* The user's corrections of the knowledge graph                           *)
(* (src/mcpbrain/graph_corrections.py) among its other writers.            *)
(*                                                                         *)
(* A correction is applied at once when the user states it or confirms it; *)
(* one the model infers is proposed and waits, or is declined.  Applying   *)
(* and undoing are one write transaction each, over the graph and the      *)
(* ledger; what undo needs is in the entry's snapshot.  Corrections are    *)
(* undone in any order, unless the undo guard finds a later one in the     *)
(* way.  Meanwhile extraction observes relations and writes fields, the    *)
(* graph UI edits and hides, and both merge entities: they look at the     *)
(* user's corrections in one transaction and merge in another.             *)
(*                                                                         *)
(* set_field stands for a correction of the org.  A payload's ids are the  *)
(* entities it names; which of two merged entities survives (the better    *)
(* connected one) is left open.                                            *)
(***************************************************************************)
EXTENDS KnowledgeGraph, Sequences, SequencesExt

CONSTANTS
  Initial,      \* the graph before the first correction
  Requests,     \* the corrections that may be asked for
  Sightings,    \* the relations extraction may observe: [t, from]
  Mergeable,    \* the pairs other writers may take for one entity
  Touched,      \* the entities other writers write or hide
  MaxEntries,   \* BOUND: entries of the ledger
  MaxOthers,    \* BOUND: steps of the other writers
  MaxTogether,  \* BOUND: both together, an entry weighing as two steps
  PendingCap    \* PENDING_CAP

(* A relation of two entities; two entities. *)
Relations == {t \in Ent \X (Singletons \cup Accumulating) \X Ent : t[1] # t[3]}
Pairs == {p \in SUBSET Ent : \E a, b \in p : a # b /\ p = {a, b}}

(* Corrections as they pass validation: a rejected triple may be any, the
   others are refused when they name one entity twice. *)
Request ==
  [op : {"reject"}, t : Ent \X (Singletons \cup Accumulating) \X Ent]
    \cup [op : {"assert"}, t : Ent \X (Singletons \cup Accumulating) \X Ent, from : Nat]
    \cup [op : {"merge", "not_same"}, pair : Pairs]
    \cup [op : {"set_field"}, e : Ent, org : Orgs]
    \cup [op : {"hide"}, e : Ent]

(* Verdicts and pairs are only ever written for a correction. *)
Uncorrected(g) == g.pairs = {} /\ \A i \in DOMAIN g.rows : g.rows[i].verdict = ""

ASSUME CorrectionsAssumption ==
  /\ MaxEntries \in Nat /\ MaxOthers \in Nat /\ MaxTogether \in Nat /\ PendingCap \in Nat
  /\ WellFormed(Initial) /\ Initial.locked = {} /\ \A e \in Ent : Initial.hidden[e] <= 0
  /\ Uncorrected(Initial)
  /\ Requests \subseteq Request
  /\ Sightings \subseteq [t : Relations, from : Nat]
  /\ Mergeable \subseteq Pairs /\ Touched \subseteq Ent

VARIABLES
  graph,
  ledger,     \* graph_corrections, in the order of its ids
  checked,    \* merges found allowed and not yet made
  others,     \* steps of the other writers so far
  mergedInto, \* history: where an entity went in a merge still in effect
  userEdited, \* history: what the user edited or hid in the UI, <<entity, column>>
  raced,      \* history: entities merged against a correction made since the check
  met,        \* history: the user's merges that another writer's has met since
  crossed     \* history: a merge was undone that a later one had met

vars == <<graph, ledger, checked, others, mergedInto, userEdited, raced, met, crossed>>

NoSnap == [op |-> "none"]

-----------------------------------------------------------------------------
(* What a request names and what identifies it *)

EntitiesOf(p) ==
  CASE p.op \in {"reject", "assert"} -> {p.t[1], p.t[3]}
    [] p.op \in {"merge", "not_same"} -> p.pair
    [] OTHER -> {p.e}

DedupKey(p) ==
  CASE p.op \in {"reject", "assert"} -> <<p.op, p.t>>
    [] p.op \in {"merge", "not_same"} -> <<p.op, p.pair>>
    [] p.op = "set_field" -> <<p.op, p.e, p.org>>
    [] OTHER -> <<p.op, p.e>>

-----------------------------------------------------------------------------
(* Applying a request: the graphs it may leave with the snapshot for undo,
   none when it is refused. *)

ApplyReject(g, p) ==
  LET id == IdOf(g, p.t)
  IN IF id = NoRow \/ g.rows[id].verdict = "rejected" THEN {}
     ELSE {[graph |-> [g EXCEPT !.rows[id].ended = TRUE, !.rows[id].verdict = "rejected"],
            snap |-> [id |-> id, was |-> g.rows[id]]]}

ApplyAssert(g, p) ==
  LET prior == IdOf(g, p.t)
      lifted == IF prior # NoRow /\ g.rows[prior].verdict = "rejected"
                THEN [g EXCEPT !.rows[prior].verdict = ""] ELSE g
      up == Upserted(lifted, p.t, p.from)
      id == IdOf(up, p.t)
      retired == {i \in Rivals(g, p.t) : up.rows[i].by = id}
  IN IF \/ ~(EntitiesOf(p) \subseteq g.ents) \/ p.t[1] = p.t[3]
        \/ prior # NoRow /\ g.rows[prior].verdict = "asserted" /\ ~g.rows[prior].ended
     THEN {}
     ELSE {[graph |-> [up EXCEPT !.rows[id].verdict = "asserted", !.rows[id].derived = FALSE],
            snap |-> [id |-> id,
                      prior |-> IF prior = NoRow THEN <<>> ELSE <<g.rows[prior]>>,
                      rivals |-> [i \in retired |-> g.rows[i]]]]}

ApplyNotSame(g, p) ==
  IF ~(p.pair \subseteq g.ents) \/ p.pair \in g.pairs THEN {}
  ELSE {[graph |-> [g EXCEPT !.pairs = @ \cup {p.pair}], snap |-> NoSnap]}

ApplySetField(g, p) ==
  IF p.e \notin g.ents THEN {}
  ELSE {[graph |-> [g EXCEPT !.org[p.e] = p.org, !.locked = @ \cup {p.e}],
         snap |-> [was |-> g.org[p.e], hadLock |-> p.e \in g.locked]]}

ApplyHide(g, p, order) ==
  IF p.e \notin g.ents THEN {}
  ELSE {[graph |-> [g EXCEPT !.hidden[p.e] = order],
         snap |-> [was |-> g.hidden[p.e], wrote |-> order]]}

ApplyMerge(g, p) ==
  IF ~(p.pair \subseteq g.ents) \/ p.pair \in g.pairs THEN {}
  ELSE {[graph |-> Merged(g, l, CHOOSE w \in p.pair : w # l),
         snap |-> Snapshot(g, l, CHOOSE w \in p.pair : w # l)] : l \in p.pair}

Applied(g, p, order) ==
  CASE p.op = "reject" -> ApplyReject(g, p)
    [] p.op = "assert" -> ApplyAssert(g, p)
    [] p.op = "not_same" -> ApplyNotSame(g, p)
    [] p.op = "set_field" -> ApplySetField(g, p)
    [] p.op = "hide" -> ApplyHide(g, p, order)
    [] p.op = "merge" -> ApplyMerge(g, p)

-----------------------------------------------------------------------------
(* Undoing an applied entry *)

UndoReject(g, s) ==
  IF s.id \notin DOMAIN g.rows THEN {}
  ELSE {[g EXCEPT !.rows[s.id].ended = s.was.ended, !.rows[s.id].verdict = s.was.verdict]}

(* The rivals this assertion retired, and nobody else since, come back; its
   own row is deleted, or put back as it was.  Looked at before the delete,
   which clears their pointers. *)
UndoAssert(g, s) ==
  LET mine == {i \in DOMAIN s.rivals \cap DOMAIN g.rows : g.rows[i].by = s.id}
      own == IF s.prior = <<>> THEN WithoutRows(g, {s.id})
             ELSE IF s.id \in DOMAIN g.rows
             THEN WithRow(g, s.id, [Head(s.prior) EXCEPT !.t = g.rows[s.id].t,
                                    !.derived = @ \/ g.rows[s.id].derived])
             ELSE g
  IN {[own EXCEPT !.rows = [i \in DOMAIN @ |->
         IF i \in mine THEN [@[i] EXCEPT !.ended = s.rivals[i].ended, !.by = s.rivals[i].by]
         ELSE @[i]]]}

UndoNotSame(g, p) == {[g EXCEPT !.pairs = @ \ {p.pair}]}

(* Compare and swap: only what this correction wrote is put back. *)
UndoSetField(g, p, s) ==
  IF p.e \notin g.ents \/ g.org[p.e] # p.org THEN {}
  ELSE {[g EXCEPT !.org[p.e] = s.was, !.locked = IF s.hadLock THEN @ ELSE @ \ {p.e}]}

UndoHide(g, p, s) ==
  IF g.hidden[p.e] # s.wrote THEN {} ELSE {[g EXCEPT !.hidden[p.e] = s.was]}

UndoMerge(g, s) == IF Unmergeable(g, s) THEN {Unmerged(g, s)} ELSE {}

(* A foreign key that fails, at once or at the commit, refuses the undo. *)
Undone(g, p, s) ==
  {h \in CASE p.op = "reject" -> UndoReject(g, s)
           [] p.op = "assert" -> UndoAssert(g, s)
           [] p.op = "not_same" -> UndoNotSame(g, p)
           [] p.op = "set_field" -> UndoSetField(g, p, s)
           [] p.op = "hide" -> UndoHide(g, p, s)
           [] p.op = "merge" -> UndoMerge(g, s) : Sound(h)}

(* What an entry that is no merge wrote: the guard's conflict keys. *)
TargetKeys(e) ==
  CASE e.what.op = "reject" -> {<<"rel", e.what.t>>}
    [] e.what.op = "assert" -> {<<"rel", e.what.t>>}
                               \cup {<<"rel", e.snap.rivals[i].t>> : i \in DOMAIN e.snap.rivals}
    [] e.what.op = "not_same" -> {<<"pair", e.what.pair>>}
    [] e.what.op = "set_field" -> {<<"field", e.what.e>>}
    [] e.what.op = "hide" -> {<<"hide", e.what.e>>}
    [] OTHER -> {}

\* Mutant: later means submitted later.
LaterById(m, n) == m > n

(* m became applied after n did, whichever was submitted first. *)
Later(m, n) == ledger[m].order > ledger[n].order

\* Mutant: the guard compares what was written and forgets later merges.
BlocksSameKey(m, n) ==
  IF ledger[n].what.op = "merge" THEN ledger[n].snap.winner \in EntitiesOf(ledger[m].what)
  ELSE TargetKeys(ledger[m]) \cap TargetKeys(ledger[n]) # {}

(* Undoing n would overwrite a later entry m: m wrote the same thing, or
   merged an entity n names, or n is a merge and m names its survivor. *)
Blocks(m, n) ==
  IF ledger[n].what.op = "merge" THEN ledger[n].snap.winner \in EntitiesOf(ledger[m].what)
  ELSE \/ TargetKeys(ledger[m]) \cap TargetKeys(ledger[n]) # {}
       \/ /\ ledger[m].what.op = "merge"
          /\ EntitiesOf(ledger[n].what) \cap {ledger[m].snap.winner, ledger[m].snap.loser} # {}

Blocked(n) ==
  \E m \in DOMAIN ledger : ledger[m].status = "applied" /\ Later(m, n) /\ Blocks(m, n)

-----------------------------------------------------------------------------
(* The ledger *)

(* The next applied_order: when an entry became applied, not when it was
   submitted. *)
NextOrder == 1 + Cardinality({n \in DOMAIN ledger : ledger[n].order > 0})

Entry(p, status, order, snap) == [what |-> p, status |-> status, order |-> order, snap |-> snap]

OthersStill == UNCHANGED <<checked, others, userEdited, raced, met>>

Loses(p, snap) ==
  mergedInto' = IF p.op = "merge" THEN [mergedInto EXCEPT ![snap.loser] = snap.winner]
                ELSE mergedInto

Room(entries, steps) ==
  /\ entries <= MaxEntries /\ steps <= MaxOthers
  /\ 2 * entries + steps <= MaxTogether

(* The user states a correction, or confirms one the model inferred and that
   is no Duplicate: fewer steps of the same kind. *)
State(p) ==
  /\ Room(Len(ledger) + 1, others)
  /\ \E done \in Applied(graph, p, NextOrder) :
       /\ graph' = done.graph
       /\ ledger' = Append(ledger, Entry(p, "applied", NextOrder, done.snap))
       /\ Loses(p, done.snap)
  /\ UNCHANGED crossed /\ OthersStill

Duplicate(p) ==
  \E n \in DOMAIN ledger :
    /\ DedupKey(ledger[n].what) = DedupKey(p)
    /\ ledger[n].status \in {"pending", "declined", "applied"}

(* The model infers one: it waits for approval, if there is room, or the user
   declines it at once. *)
Propose(p) ==
  /\ Room(Len(ledger) + 1, others)
  /\ ~Duplicate(p)
  /\ \E status \in {"pending", "declined"} :
       /\ status = "pending" =>
            Cardinality({n \in DOMAIN ledger : ledger[n].status = "pending"}) < PendingCap
       /\ ledger' = Append(ledger, Entry(p, status, 0, NoSnap))
  /\ UNCHANGED <<graph, mergedInto, crossed>> /\ OthersStill

Approve(n) ==
  /\ ledger[n].status = "pending"
  /\ LET p == ledger[n].what
         results == Applied(graph, p, NextOrder)
     IN \/ \E done \in results :
             /\ graph' = done.graph
             /\ ledger' = [ledger EXCEPT ![n] = Entry(p, "applied", NextOrder, done.snap)]
             /\ Loses(p, done.snap)
        \/ /\ results = {}
           /\ ledger' = [ledger EXCEPT ![n].status = "failed"]
           /\ UNCHANGED <<graph, mergedInto>>
  /\ UNCHANGED crossed /\ OthersStill

Decline(n) ==
  /\ ledger[n].status = "pending"
  /\ ledger' = [ledger EXCEPT ![n].status = "declined"]
  /\ UNCHANGED <<graph, mergedInto, crossed>> /\ OthersStill

(* Two merges meet where one moved, dropped or marked a row or a pair that the
   other did too.  Neither the guard nor _unmerge_tx looks for it: undoing the
   first of them puts back what the second has changed (README, Disagreements). *)
RowsIn(s) == DOMAIN s.rows \cup DOMAIN s.copies \cup DOMAIN s.pointers
PairsIn(s) == s.pairs \cup s.winnerPairs \cup {Repointed(s.loser, s.winner, p) : p \in s.pairs}
Meet(s, t) == RowsIn(s) \cap RowsIn(t) # {} \/ PairsIn(s) \cap PairsIn(t) # {}

MetBy(s) ==
  {n \in DOMAIN ledger :
     ledger[n].status = "applied" /\ ledger[n].what.op = "merge" /\ Meet(ledger[n].snap, s)}

Crossed(n) ==
  /\ ledger[n].what.op = "merge"
  /\ n \in met \/ \E m \in MetBy(ledger[n].snap) : Later(m, n)

Undo(n) ==
  /\ ledger[n].status = "applied"
  /\ ~Blocked(n)
  /\ graph' \in Undone(graph, ledger[n].what, ledger[n].snap)
  /\ ledger' = [ledger EXCEPT ![n].status = "reverted"]
  /\ mergedInto' = IF ledger[n].what.op # "merge" THEN mergedInto
                   ELSE [mergedInto EXCEPT ![ledger[n].snap.loser] = ledger[n].snap.loser]
  /\ crossed' = (crossed \/ Crossed(n))
  /\ OthersStill

-----------------------------------------------------------------------------
(* The other writers *)

Another ==
  /\ Room(Len(ledger), others + 1)
  /\ others' = others + 1
  /\ UNCHANGED <<ledger, crossed>>

Observe(seen) ==
  /\ Another
  /\ {seen.t[1], seen.t[3]} \subseteq graph.ents
  /\ \/ graph' = Upserted(graph, seen.t, seen.from)
     \/ graph' = Derived(graph, seen.t, seen.from)
  /\ UNCHANGED <<checked, mergedInto, userEdited, raced, met>>

(* Extraction writes a field (a user-locked one is left alone) ... *)
WriteField(e, v) ==
  /\ Another
  /\ e \in graph.ents \ graph.locked
  /\ graph' = [graph EXCEPT !.org[e] = v]
  /\ UNCHANGED <<checked, mergedInto, userEdited, raced, met>>

(* ... and the user edits it, or hides the entity, in the graph UI. *)
EditField(e, v) ==
  /\ Another
  /\ e \in graph.ents
  /\ graph' = [graph EXCEPT !.org[e] = v]
  /\ userEdited' = userEdited \cup {<<e, "org">>}
  /\ UNCHANGED <<checked, mergedInto, raced, met>>

HideOnGraph(e) ==
  /\ Another
  /\ e \in graph.ents
  /\ graph' = [graph EXCEPT !.hidden[e] = OnGraph]
  /\ userEdited' = userEdited \cup {<<e, "hidden">>}
  /\ UNCHANGED <<checked, mergedInto, raced, met>>

(* A field lock, or a hide by the user's correction. *)
HasUserCorrections(e) == e \in graph.locked \/ graph.hidden[e] > 0

\* Mutant: automated passes merge corrected entities too.
MayMergeCorrected(pair, automated) == pair \subseteq graph.ents /\ pair \notin graph.pairs

(* May these two be merged?  The user merges in the UI what is not marked as
   different; an automated pass also leaves corrected entities alone. *)
MayMerge(pair, automated) ==
  /\ pair \subseteq graph.ents /\ pair \notin graph.pairs
  /\ automated => \A e \in pair : ~HasUserCorrections(e)

CheckMerge(pair, automated) ==
  /\ Another
  /\ MayMerge(pair, automated)
  /\ checked' = checked \cup {[pair |-> pair, automated |-> automated]}
  /\ UNCHANGED <<graph, mergedInto, userEdited, raced, met>>

(* Store.merge_entities, another transaction: it looks at nothing again.  The
   user's own merge in the UI takes what its loser carried with it. *)
MergeChecked ==
  \E c \in checked :
    /\ checked' = checked \ {c}
    /\ UNCHANGED <<ledger, others, crossed>>
    /\ \/ \E l \in c.pair : LET w == CHOOSE x \in c.pair : x # l IN
            /\ c.pair \subseteq graph.ents
            /\ graph' = Merged(graph, l, w)
            /\ mergedInto' = [mergedInto EXCEPT ![l] = w]
            /\ met' = met \cup MetBy(Snapshot(graph, l, w))
            /\ raced' = IF MayMerge(c.pair, c.automated) THEN raced ELSE raced \cup {l}
            /\ userEdited' = IF c.automated THEN userEdited
                              ELSE userEdited \cup ({l} \X {"org", "hidden"})
       \/ ~(c.pair \subseteq graph.ents) /\ UNCHANGED <<graph, mergedInto, raced, userEdited, met>>

-----------------------------------------------------------------------------
Init ==
  /\ graph = Initial
  /\ ledger = <<>> /\ checked = {} /\ others = 0
  /\ mergedInto = [e \in Ent |-> e]
  /\ userEdited = {} /\ raced = {} /\ met = {} /\ crossed = FALSE

Correct ==
  \/ \E p \in Requests : State(p) \/ Propose(p)
  \/ \E n \in DOMAIN ledger : Approve(n) \/ Decline(n) \/ Undo(n)

Others ==
  \/ \E seen \in Sightings : Observe(seen)
  \/ \E e \in Touched, v \in Orgs : WriteField(e, v) \/ EditField(e, v)
  \/ \E e \in Touched : HideOnGraph(e)
  \/ \E pair \in Mergeable, automated \in BOOLEAN : CheckMerge(pair, automated)
  \/ MergeChecked

Next == Correct \/ Others

Spec == Init /\ [][Next]_vars

-----------------------------------------------------------------------------
(* Properties *)

Standing == {n \in DOMAIN ledger : ledger[n].status = "applied"}
What(op) == {n \in Standing : ledger[n].what.op = op}
LaterThan(n) == {m \in Standing : ledger[m].order > ledger[n].order}

(* Where an entity, and a triple, are now. *)
Home(e) ==
  LET after[n \in 0..Cardinality(Ent)] == IF n = 0 THEN e ELSE mergedInto[after[n - 1]]
  IN after[Cardinality(Ent)]
HomeOf(t) == <<Home(t[1]), t[2], Home(t[3])>>
HomePair(pair) == {Home(e) : e \in pair}

MergedByUser == {ledger[m].snap.loser : m \in What("merge")}
MergedByOthers == {e \in Ent : mergedInto[e] # e} \ MergedByUser
Elsewhere == {Home(e) : e \in MergedByOthers}  \* what other writers merged into

(* The user overrode a correction of an entity: in the UI, by merging the
   entity away, or by a later correction of the same kind.  A merge that raced
   it counts too (README, Disagreements). *)
Overridden(n, column) ==
  \/ <<ledger[n].what.e, column>> \in userEdited
  \/ ledger[n].what.e \in MergedByUser \cup raced
  \/ \E m \in LaterThan(n) : ledger[m].what.op = ledger[n].what.op /\ ledger[m].what.e = ledger[n].what.e

(* The standing corrections of what is now the triple t. *)
Said(op, t) == {n \in What(op) : HomeOf(ledger[n].what.t) = t}

(* Two corrections that other writers' merges made corrections of one thing, or
   corrections of one thing that such a merge moved: undoing the one may take the
   other with it (README, Disagreements). *)
Fused(p, q) ==
  CASE p.op = "not_same" -> q.op = "not_same" /\ p.pair # q.pair /\ HomePair(p.pair) = HomePair(q.pair)
    [] OTHER -> q.op \in {"reject", "assert"} /\ p.t # q.t /\ HomeOf(p.t) = HomeOf(q.t)
MovedByOthers(t) == \E e \in {t[1], t[3]} : Home(e) \in Elsewhere
Withdrawn(n) ==
  \E m \in DOMAIN ledger :
    /\ ledger[m].status = "reverted"
    /\ LET p == ledger[n].what q == ledger[m].what
       IN \/ Fused(p, q)
          \/ /\ {p.op, q.op} \subseteq {"reject", "assert"}
             /\ p.t = q.t /\ MovedByOthers(p.t)

RejectionHolds(n) ==
  LET t == HomeOf(ledger[n].what.t)
  IN \/ t[1] = t[3]
     \/ \E m \in Said("assert", t) : m \in LaterThan(n) \/ Fused(ledger[n].what, ledger[m].what)
     \/ Withdrawn(n)
     \/ /\ IdOf(graph, t) # NoRow
        /\ graph.rows[IdOf(graph, t)].verdict = "rejected"
        /\ t[2] \in Accumulating => graph.rows[IdOf(graph, t)].ended

AssertionHolds(n) ==
  LET t == HomeOf(ledger[n].what.t)
  IN \/ t[1] = t[3] \/ t[2] \in Singletons \/ Said("reject", t) # {} \/ Withdrawn(n)
     \/ IdOf(graph, t) # NoRow /\ ~graph.rows[IdOf(graph, t)].ended

DistinctionHolds(n) ==
  LET pair == HomePair(ledger[n].what.pair)
  IN \/ pair \in graph.pairs \/ Withdrawn(n)
     \/ \E x \in raced : Home(x) \in pair

(* The lock stays; a value that counts as none does not survive a merge into
   the entity (README, Disagreements). *)
FieldHolds(n) ==
  LET p == ledger[n].what
  IN \/ Overridden(n, "org")
     \/ p.e \in graph.locked /\ p.org \in {Blank, graph.org[p.e]}

HideHolds(n) ==
  Overridden(n, "hidden") \/ graph.hidden[ledger[n].what.e] = ledger[n].order

FieldsHold == \A n \in What("set_field") : FieldHolds(n)
HidesHold == \A n \in What("hide") : HideHolds(n)
MergesHold == MergedByUser \cap graph.ents = {}

(* The locks and the hides there are, each for a correction that stands. *)
LocksStated == \A e \in graph.locked : \E n \in What("set_field") : ledger[n].what.e = e
HidesStated ==
  \A e \in graph.ents : graph.hidden[e] > 0 =>
    \E n \in What("hide") : ledger[n].what.e = e /\ ledger[n].order = graph.hidden[e]

(* An entity is as the standing corrections of it say, whatever is written and
   merged since and undone in whatever order, until the user overrides it: the
   corrected field keeps its value and its lock, the hidden entity stays hidden,
   the merged one is gone, and there is no lock or hide but for a correction that
   stands.  The graph stays as well-formed as it was: no second row for a triple,
   no row of an entity that is gone, no pointer to a row that is.  undo, _UNDO,
   _find_blocking_correction, _merge_entities_tx, _unmerge_tx, the setters,
   has_user_corrections. *)
EntitiesAsCorrected ==
  /\ WellFormed(graph)
  /\ FieldsHold /\ HidesHold /\ MergesHold
  /\ LocksStated /\ HidesStated

(* What the graph tells of the entities is as the standing corrections say: a
   rejected fact is not current, an asserted one is, entities told apart stay
   apart; and a verdict or a pair is there because of a correction that stands.
   Where other writers merged entities in between, a verdict or a pair may stay
   (README, Disagreements).  upsert_relation_in, _merge_entities_tx, undo,
   _find_blocking_correction. *)
FactsHold ==
  /\ \A n \in What("reject") : RejectionHolds(n)
  /\ \A n \in What("assert") : AssertionHolds(n)
  /\ \A n \in What("not_same") : DistinctionHolds(n)
  /\ \A i \in DOMAIN graph.rows :
       LET r == graph.rows[i]
       IN \/ {r.t[1], r.t[3]} \cap Elsewhere # {}
          \/ /\ r.verdict = "rejected" => Said("reject", r.t) # {}
             /\ r.verdict = "asserted" => Said("assert", r.t) # {}
  /\ \A pair \in graph.pairs :
       \/ pair \cap Elsewhere # {}
       \/ \E n \in What("not_same") : HomePair(ledger[n].what.pair) = pair

(* The entities some merge has been about, one undone since too. *)
EverMerged ==
  (UNION {EntitiesOf(ledger[n].what) :
            n \in {m \in DOMAIN ledger : ledger[m].what.op = "merge" /\ ledger[m].order > 0}})
    \cup (UNION {{e, mergedInto[e]} : e \in {x \in Ent : mergedInto[x] # x}})
Apart(t) == {t[1], t[3]} \cap EverMerged = {}

(* The standing verdicts on a triple, and a row as such a verdict states it. *)
Verdicts(t) == {n \in What("reject") \cup What("assert") : ledger[n].what.t = t}
Stated(op, r) ==
  IF op = "reject" THEN r.verdict = "rejected" /\ r.ended
  ELSE r.verdict = "asserted" /\ (r.t[2] \in Accumulating => ~r.ended)

(* Of entities that no merge has been about the facts hold with no exception: a
   triple is as the last standing verdict on it states and has no verdict without
   one, and a pair is told apart just while a correction that stands says so. *)
UnmergedHold ==
  /\ \A n \in What("reject") \cup What("assert") :
       LET t == ledger[n].what.t
       IN Apart(t) /\ (\A m \in Verdicts(t) : ~Later(m, n)) =>
            IdOf(graph, t) # NoRow /\ Stated(ledger[n].what.op, graph.rows[IdOf(graph, t)])
  /\ \A i \in DOMAIN graph.rows :
       Apart(graph.rows[i].t) /\ Verdicts(graph.rows[i].t) = {} => graph.rows[i].verdict = ""
  /\ \A pair \in Pairs : pair \cap EverMerged = {} =>
       (pair \in graph.pairs <=> \E n \in What("not_same") : ledger[n].what.pair = pair)

(* The entities are as corrected, and so are the facts of those that no merge has been
   about.  Excused are what the user overrides himself and an entity that another
   writer merges after its check, in the face of a correction made since (raced). *)
AsCorrected == EntitiesAsCorrected /\ UnmergedHold

(* The facts hold, those of merged entities included, unless a merge was undone that a
   later one had met: FactsHold alone is refuted (README, Disagreements). *)
FactsAsCorrected == crossed \/ FactsHold

(* What a graph tells, but for the rows of singleton relations. *)
Told(g) ==
  [ents |-> g.ents, pairs |-> g.pairs, org |-> g.org, locked |-> g.locked, hidden |-> g.hidden,
   rows |-> {[r EXCEPT !.by = NoRow] :
              r \in {g.rows[i] : i \in {j \in DOMAIN g.rows : g.rows[j].t[2] \in Accumulating}}}]

(* Applying an entry again, to another graph. *)
Again(g, n) ==
  LET p == ledger[n].what
      results == {done \in Applied(g, p, ledger[n].order) :
                    p.op = "merge" => done.snap.loser = ledger[n].snap.loser}
  IN IF results = {} THEN g ELSE (CHOOSE done \in results : TRUE).graph

(* Undoing corrections, in whatever order the guard allows, leaves the graph
   as if they had never been made: as long as nobody else writes, and no merge
   was undone that a later one had met, the graph tells what applying those that
   still stand, in their order, to the first graph would, and once all are undone
   it is the first graph again, to the last row.  undo, _find_blocking_correction,
   _unmerge_tx. *)
AsIfNever ==
  others = 0 /\ ~crossed =>
    LET inOrder == SetToSortSeq(Standing, LAMBDA m, n : ledger[m].order < ledger[n].order)
    IN /\ Told(graph) = Told(FoldLeft(Again, Initial, inOrder))
       /\ Standing = {} => graph = [Initial EXCEPT !.next = graph.next]
=============================================================================
