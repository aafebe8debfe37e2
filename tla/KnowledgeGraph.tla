--------------------------- MODULE KnowledgeGraph ---------------------------
(***************************************************************************)
(* The knowledge graph as a value, and what its writers do to it: the      *)
(* relation upsert of graph_write.py and the merge and unmerge of store.py *)
(* (_merge_entities_tx, _unmerge_tx).  Each is one write transaction, so   *)
(* each is an operator from a graph to a graph.                            *)
(*                                                                         *)
(* A graph is a record                                                     *)
(*   ents    the entity ids;                                               *)
(*   rows    entity_relations, by AUTOINCREMENT id: the triple, its        *)
(*           valid_from, whether invalidated_at is set, the user's         *)
(*           verdict, the row that superseded it (a foreign key, ON DELETE *)
(*           SET NULL; 0 is NULL) and whether it is derived;               *)
(*   next    the next id;                                                  *)
(*   pairs   entity_distinct_pairs;                                        *)
(*   org     the org of each entity (Blank is "" or "unknown");            *)
(*   locked  the entities whose org is locked (entity_field_locks);        *)
(*   hidden  entity_suppressions: 0 not hidden, OnGraph hidden in the      *)
(*           graph UI, n > 0 hidden by the correction of that order.       *)
(* Names with their aliases, e-mail addresses, roles, notes, sources with  *)
(* the strength they give, e-mail links and communities are left out: they *)
(* are restored along the same lines as what is kept.  No row relates an   *)
(* entity to itself (the upsert refuses it, a merge sweeps it).            *)
(***************************************************************************)
EXTENDS Integers, FiniteSets

CONSTANTS Ent, Singletons, Accumulating, Orgs, Blank

ASSUME GraphAssumption == Singletons \cap Accumulating = {} /\ Blank \in Orgs

OnGraph == -1
NoRow == 0

-----------------------------------------------------------------------------
(* Rows *)

IdsOf(g, t) == {i \in DOMAIN g.rows : g.rows[i].t = t}
IdOf(g, t) == IF IdsOf(g, t) = {} THEN NoRow ELSE CHOOSE i \in IdsOf(g, t) : TRUE

(* The current rows from the same subject by the same relation. *)
Rivals(g, t) ==
  {i \in DOMAIN g.rows :
     LET r == g.rows[i] IN r.t[1] = t[1] /\ r.t[2] = t[2] /\ r.t # t /\ ~r.ended}

WithRow(g, i, r) ==
  [g EXCEPT !.rows = [j \in DOMAIN g.rows \cup {i} |-> IF j = i THEN r ELSE g.rows[j]],
            !.next = IF i = g.next THEN i + 1 ELSE g.next]

(* Deleting rows clears the pointers to them. *)
WithoutRows(g, gone) ==
  [g EXCEPT !.rows = [i \in DOMAIN g.rows \ gone |->
     [g.rows[i] EXCEPT !.by = IF @ \in gone THEN NoRow ELSE @]]]

(* Some rows put back as they were, inserted again if they are gone. *)
WithRows(g, old) ==
  [g EXCEPT !.rows = [i \in DOMAIN g.rows \cup DOMAIN old |->
     IF i \in DOMAIN old THEN old[i] ELSE g.rows[i]]]

(* What the foreign keys require when a transaction commits. *)
Sound(g) ==
  /\ \A i \in DOMAIN g.rows :
       {g.rows[i].t[1], g.rows[i].t[3]} \subseteq g.ents /\ g.rows[i].by \in {NoRow} \cup DOMAIN g.rows
  /\ UNION g.pairs \subseteq g.ents

(* The shape of every graph: a triple has one row and relates two entities,
   a pair is two entities, and the foreign keys hold. *)
Rows ==
  [t : Ent \X (Singletons \cup Accumulating) \X Ent, from : Nat, ended : BOOLEAN,
   verdict : {"", "asserted", "rejected"}, by : Nat, derived : BOOLEAN]

WellFormed(g) ==
  /\ g = [ents |-> g.ents, rows |-> g.rows, next |-> g.next, pairs |-> g.pairs,
          org |-> g.org, locked |-> g.locked, hidden |-> g.hidden]
  /\ g.ents \subseteq Ent /\ g.locked \subseteq g.ents
  /\ g.org \in [Ent -> Orgs] /\ g.hidden \in [Ent -> Int]
  /\ g.next \in Nat \ {NoRow} /\ DOMAIN g.rows \subseteq 1..(g.next - 1)
  /\ g.rows \in [DOMAIN g.rows -> Rows]
  /\ \A i \in DOMAIN g.rows : g.rows[i].t[1] # g.rows[i].t[3]
  /\ \A i, j \in DOMAIN g.rows : g.rows[i].t = g.rows[j].t => i = j
  /\ \A p \in g.pairs : \E a, b \in g.ents : a # b /\ p = {a, b}
  /\ Sound(g)

-----------------------------------------------------------------------------
(* upsert_relation_in *)

Older(g, i, j) ==
  \/ g.rows[i].from < g.rows[j].from
  \/ g.rows[i].from = g.rows[j].from /\ i <= j

(* The newest current rival that is no derived row. *)
Newest(g, t) ==
  LET real == {i \in Rivals(g, t) : ~g.rows[i].derived}
  IN IF real = {} THEN NoRow ELSE CHOOSE i \in real : \A j \in real : Older(g, j, i)

(* A person has one current value, the newest-dated: it retires the others,
   or is itself recorded as history. *)
Competed(g, t, id) ==
  LET top == Newest(g, t)
  IN IF t[2] \notin Singletons THEN g
     ELSE IF top # NoRow /\ g.rows[id].from < g.rows[top].from
     THEN [g EXCEPT !.rows[id].ended = TRUE, !.rows[id].by = top]
     ELSE [g EXCEPT !.rows = [i \in DOMAIN @ |->
             IF i \in Rivals(g, t) THEN [@[i] EXCEPT !.ended = TRUE, !.by = id] ELSE @[i]]]

(* A real sighting of a triple.  A current row is only confirmed; a row the
   user rejected is left alone; any other is revived, or inserted. *)
Upserted(g, t, from) ==
  LET id == IdOf(g, t)
      old == g.rows[id]
      fresh == [t |-> t, from |-> from, ended |-> FALSE, verdict |-> "",
                by |-> NoRow, derived |-> FALSE]
  IN IF id = NoRow THEN Competed(WithRow(g, g.next, fresh), t, g.next)
     ELSE IF ~old.ended THEN WithRow(g, id, [old EXCEPT !.derived = FALSE])
     ELSE IF old.verdict = "rejected" THEN g
     ELSE Competed(WithRow(g, id, [fresh EXCEPT !.verdict = old.verdict]), t, id)

(* Derived content supports nothing: it only adds a triple nobody has. *)
Derived(g, t, from) ==
  IF IdOf(g, t) # NoRow THEN g
  ELSE WithRow(g, g.next, [t |-> t, from |-> from, ended |-> FALSE, verdict |-> "",
                           by |-> NoRow, derived |-> TRUE])

-----------------------------------------------------------------------------
(* Merging: loser l is folded into winner w *)

Sub(l, w, e) == IF e = l THEN w ELSE e
Moved(l, w, t) == <<Sub(l, w, t[1]), t[2], Sub(l, w, t[3])>>
Repointed(l, w, pair) == {Sub(l, w, e) : e \in pair}
RowsOf(g, l) == {i \in DOMAIN g.rows : l \in {g.rows[i].t[1], g.rows[i].t[3]}}
PairsOf(g, e) == {p \in g.pairs : e \in p}

(* The winner's own rows for triples the loser also has. *)
Copies(g, l, w) == {i \in DOMAIN g.rows : \E j \in RowsOf(g, l) : g.rows[i].t = Moved(l, w, g.rows[j].t)}

(* The loser's rows that cannot move: the winner has the triple, or it would
   relate the winner to itself. *)
Dropped(g, l, w) ==
  {i \in RowsOf(g, l) : LET t == Moved(l, w, g.rows[i].t)
                        IN t[1] = t[3] \/ IdOf(g, t) # NoRow}

(* A row after the merge: a rejection of the loser's triple is carried onto
   the winner's copy, which also takes a real row's standing. *)
MergedRow(g, l, w, i) ==
  LET r == g.rows[i]
      sources == {g.rows[j] : j \in {k \in RowsOf(g, l) : Moved(l, w, g.rows[k].t) = Moved(l, w, r.t)}}
      rejected == \E s \in sources : s.verdict = "rejected"
  IN [r EXCEPT !.t = Moved(l, w, @),
               !.by = IF @ \in Dropped(g, l, w) THEN NoRow ELSE @,
               !.derived = @ /\ \A s \in sources : s.derived,
               !.verdict = IF rejected THEN "rejected" ELSE @,
               !.ended = @ \/ rejected]

MergedOrg(g, l, w) == IF g.org[w] # Blank THEN g.org[w] ELSE g.org[l]

(* The loser's lock and its hide go with it; "these two are different"
   follows it onto the winner. *)
Merged(g, l, w) ==
  [g EXCEPT !.ents = @ \ {l},
            !.rows = [i \in DOMAIN @ \ Dropped(g, l, w) |-> MergedRow(g, l, w, i)],
            !.pairs = {p \in {Repointed(l, w, q) : q \in @} : Cardinality(p) = 2},
            !.org[w] = MergedOrg(g, l, w),
            !.org[l] = Blank,
            !.locked = @ \ {l},
            !.hidden[l] = 0]

(* What _merge_entities_tx returns for _unmerge_tx. *)
Snapshot(g, l, w) ==
  LET mine == RowsOf(g, l)
      copies == Copies(g, l, w)
      into == {i \in DOMAIN g.rows \ (mine \cup copies) : g.rows[i].by \in mine}
  IN [loser |-> l, winner |-> w,
      rows |-> [i \in mine |-> g.rows[i]],
      copies |-> [i \in copies |-> g.rows[i]],
      pointers |-> [i \in into |-> g.rows[i].by],
      pairs |-> PairsOf(g, l), winnerPairs |-> PairsOf(g, w),
      locked |-> l \in g.locked,
      hidden |-> g.hidden[l],
      loserOrg |-> g.org[l], winnerOrg |-> g.org[w], orgAfter |-> MergedOrg(g, l, w)]

(* _unmerge_tx refuses when what the merge moved has changed. *)
Unmergeable(g, s) ==
  /\ s.winner \in g.ents /\ s.loser \notin g.ents
  /\ \A i \in DOMAIN s.rows \cap DOMAIN g.rows : g.rows[i].t = Moved(s.loser, s.winner, s.rows[i].t)
  /\ \A i \in DOMAIN s.copies : i \in DOMAIN g.rows /\ g.rows[i].t = s.copies[i].t

(* ... and puts back the rows as they were, the winner's org only where it
   still is what the merge left, the pairs, the loser's lock and hide. *)
Unmerged(g, s) ==
  LET l == s.loser
      w == s.winner
      added == {Repointed(l, w, p) : p \in {q \in s.pairs : w \notin q}} \ s.winnerPairs
      back == WithRows(WithRows(g, s.copies), s.rows)
  IN [back EXCEPT
        !.ents = @ \cup {l},
        !.rows = [i \in DOMAIN @ |-> IF i \in DOMAIN s.pointers
                                     THEN [@[i] EXCEPT !.by = s.pointers[i]] ELSE @[i]],
        !.pairs = (@ \ added) \cup s.pairs,
        !.org[w] = IF @ = s.orgAfter THEN s.winnerOrg ELSE @,
        !.org[l] = s.loserOrg,
        !.locked = IF s.locked THEN @ \cup {l} ELSE @,
        !.hidden[l] = s.hidden]
=============================================================================
