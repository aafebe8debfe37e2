------------------------ MODULE KnowledgeGraphProofs ------------------------
(***************************************************************************)
(* Theorems about the knowledge graph, for every number of entities, rows, *)
(* pairs and corrections.  A merge of two entities leaves a graph that     *)
(* keeps what the schema promises, and unmerging with its snapshot is its  *)
(* exact inverse.  And whatever is written, merged and undone in whatever  *)
(* order, the entities stay as the user's standing corrections say, and so *)
(* do the facts about entities that no merge has been about.               *)
(***************************************************************************)
EXTENDS GraphCorrections, FiniteSetTheorems, WellFoundedInduction, TLAPS

-----------------------------------------------------------------------------
(* Rows of a graph. *)

(* A triple of a graph's row is made of its three parts. *)
LEMMA TripleParts ==
  ASSUME NEW g, NEW i \in DOMAIN g.rows, WellFormed(g)
  PROVE  /\ g.rows[i] \in Rows
         /\ g.rows[i].t \in Ent \X (Singletons \cup Accumulating) \X Ent
         /\ g.rows[i].t = <<g.rows[i].t[1], g.rows[i].t[2], g.rows[i].t[3]>>
         /\ g.rows[i].t[1] \in g.ents /\ g.rows[i].t[3] \in g.ents
         /\ g.rows[i].t[1] # g.rows[i].t[3]
         /\ g.rows[i].by \in {NoRow} \cup DOMAIN g.rows
         /\ i \in Nat /\ i # NoRow
<1>1. g.rows[i] \in Rows
  BY DEF WellFormed
<1>2. g.rows[i].t \in Ent \X (Singletons \cup Accumulating) \X Ent
  BY <1>1 DEF Rows
<1>3. g.rows[i].t = <<g.rows[i].t[1], g.rows[i].t[2], g.rows[i].t[3]>>
  BY <1>2
<1>4. /\ {g.rows[i].t[1], g.rows[i].t[3]} \subseteq g.ents
      /\ g.rows[i].by \in {NoRow} \cup DOMAIN g.rows
  BY DEF WellFormed, Sound
<1>5. i \in Nat /\ i # NoRow /\ g.rows[i].t[1] # g.rows[i].t[3]
  BY DEF WellFormed, NoRow
<1> QED
  BY <1>1, <1>2, <1>3, <1>4, <1>5

(* A triple has a row exactly when its id is not NULL, and that row is the one. *)
LEMMA RowOfTriple ==
  ASSUME NEW g, WellFormed(g), NEW t
  PROVE  /\ IdOf(g, t) # NoRow <=> \E i \in DOMAIN g.rows : g.rows[i].t = t
         /\ \A i \in DOMAIN g.rows : g.rows[i].t = t => IdOf(g, t) = i
<1>1. ASSUME NEW i \in DOMAIN g.rows, g.rows[i].t = t
      PROVE  IdOf(g, t) = i /\ i # NoRow
  <2>1. IdsOf(g, t) = {i}
    BY <1>1 DEF WellFormed, IdsOf
  <2> QED
    BY <2>1, TripleParts DEF IdOf
<1>2. ASSUME ~\E i \in DOMAIN g.rows : g.rows[i].t = t
      PROVE  IdOf(g, t) = NoRow
  BY <1>2 DEF IdOf, IdsOf
<1> QED
  BY <1>1, <1>2

(* What moving a triple from l to w does. *)
LEMMA MovedTriple ==
  ASSUME NEW g, NEW l, NEW w, NEW i \in DOMAIN g.rows, WellFormed(g), l # w
  PROVE  /\ i \notin RowsOf(g, l) => Moved(l, w, g.rows[i].t) = g.rows[i].t
         /\ Moved(l, w, g.rows[i].t)[1] # l /\ Moved(l, w, g.rows[i].t)[3] # l
         /\ Moved(l, w, g.rows[i].t)[1] = Sub(l, w, g.rows[i].t[1])
         /\ Moved(l, w, g.rows[i].t)[3] = Sub(l, w, g.rows[i].t[3])
  BY TripleParts DEF Moved, Sub, RowsOf

(* A copy is a row of the winner, which the merge keeps. *)
LEMMA CopyStays ==
  ASSUME NEW g, NEW l, NEW w, NEW i \in Copies(g, l, w), WellFormed(g), l # w
  PROVE  i \in DOMAIN g.rows /\ i \notin RowsOf(g, l)
<1>1. PICK j \in RowsOf(g, l) : g.rows[i].t = Moved(l, w, g.rows[j].t)
  BY DEF Copies
<1>2. i \in DOMAIN g.rows /\ j \in DOMAIN g.rows
  BY DEF Copies, RowsOf
<1>3. g.rows[i].t[1] # l /\ g.rows[i].t[3] # l
  <2>1. /\ Moved(l, w, g.rows[j].t)[1] # l
        /\ Moved(l, w, g.rows[j].t)[3] # l
    BY <1>2, TripleParts DEF Moved, Sub
  <2> QED
    BY <1>1, <2>1
<1> QED
  BY <1>2, <1>3 DEF RowsOf

(* Only the loser's rows are dropped. *)
LEMMA DroppedOfLoser ==
  ASSUME NEW g, NEW l, NEW w
  PROVE  Dropped(g, l, w) \subseteq RowsOf(g, l) /\ RowsOf(g, l) \subseteq DOMAIN g.rows
  BY DEF Dropped, RowsOf

-----------------------------------------------------------------------------
(* Unmerging is the inverse of merging. *)

(* A record with the fields of a row is made of its fields ... *)
LEMMA SameRecord ==
  ASSUME NEW A, NEW B, NEW C, NEW D, NEW E, NEW F,
         NEW r \in [t : A, from : B, ended : C, verdict : D, by : E, derived : F]
  PROVE  r = [t |-> r.t, from |-> r.from, ended |-> r.ended,
              verdict |-> r.verdict, by |-> r.by, derived |-> r.derived]
  OBVIOUS

(* ... so two rows with the same fields are the same. *)
LEMMA SameRow ==
  ASSUME NEW r \in Rows, NEW s \in Rows,
         r.t = s.t, r.from = s.from, r.ended = s.ended, r.verdict = s.verdict,
         r.by = s.by, r.derived = s.derived
  PROVE  r = s
<1>1. \A x \in Rows : x = [t |-> x.t, from |-> x.from, ended |-> x.ended,
                          verdict |-> x.verdict, by |-> x.by, derived |-> x.derived]
  BY SameRecord, Zenon DEF Rows
<1> QED
  BY <1>1, Zenon

(* The loser's rows that become the triple row i becomes. *)
Sources(g, l, w, i) ==
  {g.rows[j] : j \in {k \in RowsOf(g, l) : Moved(l, w, g.rows[k].t) = Moved(l, w, g.rows[i].t)}}

(* The fields of a row after the merge. *)
LEMMA MergedRowFields ==
  ASSUME NEW g, NEW l, NEW w \in Ent, NEW i \in DOMAIN g.rows, WellFormed(g), l # w
  PROVE  LET r == g.rows[i]
             n == MergedRow(g, l, w, i)
             sources == Sources(g, l, w, i)
             rejected == \E s \in sources : s.verdict = "rejected"
         IN /\ n \in Rows
            /\ n.t = Moved(l, w, r.t)
            /\ n.from = r.from
            /\ n.by = IF r.by \in Dropped(g, l, w) THEN NoRow ELSE r.by
            /\ n.derived = (r.derived /\ \A s \in sources : s.derived)
            /\ n.verdict = IF rejected THEN "rejected" ELSE r.verdict
            /\ n.ended = (r.ended \/ rejected)
<1> DEFINE r == g.rows[i]
           n == MergedRow(g, l, w, i)
           sources == Sources(g, l, w, i)
           rejected == \E s \in sources : s.verdict = "rejected"
           by == IF r.by \in Dropped(g, l, w) THEN NoRow ELSE r.by
           derived == r.derived /\ \A s \in sources : s.derived
           verdict == IF rejected THEN "rejected" ELSE r.verdict
           ended == r.ended \/ rejected
           t == Moved(l, w, r.t)
<1>1. /\ r \in Rows
      /\ r.t \in Ent \X (Singletons \cup Accumulating) \X Ent
      /\ r.by \in Nat
  BY TripleParts DEF Rows
<1>2. t \in Ent \X (Singletons \cup Accumulating) \X Ent
  BY <1>1 DEF Moved, Sub
<1>3. by \in Nat
  BY <1>1 DEF NoRow
<1>4. verdict \in {"", "asserted", "rejected"}
  BY <1>1 DEF Rows
<1>5. derived \in BOOLEAN /\ ended \in BOOLEAN
  OBVIOUS
<1>6. n = [r EXCEPT !.t = t, !.by = by, !.derived = derived, !.verdict = verdict, !.ended = ended]
  BY DEF MergedRow, Sources
<1> HIDE DEF r, n, t, by, derived, verdict, ended
<1>7. n = [t |-> t, from |-> r.from, ended |-> ended, verdict |-> verdict, by |-> by, derived |-> derived]
  BY <1>1, <1>6 DEF Rows
<1>8. r.from \in Nat
  BY <1>1 DEF Rows
<1>9. /\ n \in Rows
      /\ n.t = t /\ n.from = r.from /\ n.by = by /\ n.derived = derived
      /\ n.verdict = verdict /\ n.ended = ended
  BY <1>2, <1>3, <1>4, <1>5, <1>7, <1>8 DEF Rows
<1> QED
  BY <1>9 DEF r, n, t, by, derived, verdict, ended

(* The triple among them. *)
LEMMA MergedTriple ==
  ASSUME NEW g, NEW l, NEW w \in Ent, NEW i \in DOMAIN g.rows, WellFormed(g), l # w
  PROVE  MergedRow(g, l, w, i).t = Moved(l, w, g.rows[i].t)
  BY MergedRowFields

(* The pairs a merge leaves, and those the unmerge takes out of them. *)
MergedPairs(g, l, w) == {p \in {Repointed(l, w, q) : q \in g.pairs} : Cardinality(p) = 2}
AddedPairs(l, w, ofLoser, ofWinner) ==
  {Repointed(l, w, p) : p \in {q \in ofLoser : w \notin q}} \ ofWinner

(* The graph a merge leaves, part by part. *)
LEMMA MergedParts ==
  ASSUME NEW g, NEW l \in g.ents, NEW w \in g.ents, WellFormed(g), l # w,
         NEW m, m = Merged(g, l, w)
  PROVE  m = [ents |-> g.ents \ {l}, rows |-> m.rows, next |-> g.next,
              pairs |-> MergedPairs(g, l, w),
              org |-> [[g.org EXCEPT ![w] = MergedOrg(g, l, w)] EXCEPT ![l] = Blank],
              locked |-> g.locked \ {l},
              hidden |-> [g.hidden EXCEPT ![l] = 0]]
<1> DEFINE rows == [i \in DOMAIN g.rows \ Dropped(g, l, w) |-> MergedRow(g, l, w, i)]
           pairs == MergedPairs(g, l, w)
           org == MergedOrg(g, l, w)
<1>1. g = [ents |-> g.ents, rows |-> g.rows, next |-> g.next, pairs |-> g.pairs,
           org |-> g.org, locked |-> g.locked, hidden |-> g.hidden]
  BY DEF WellFormed
<1>2. Merged(g, l, w) = [g EXCEPT !.ents = @ \ {l}, !.rows = rows, !.pairs = pairs,
                          !.org[w] = org, !.org[l] = Blank,
                          !.locked = @ \ {l}, !.hidden[l] = 0]
  BY Zenon DEF Merged, MergedPairs
<1> HIDE DEF rows, pairs, org
<1>3. Merged(g, l, w) = [ents |-> g.ents \ {l}, rows |-> rows, next |-> g.next, pairs |-> pairs,
                 org |-> [[g.org EXCEPT ![w] = org] EXCEPT ![l] = Blank],
                 locked |-> g.locked \ {l},
                 hidden |-> [g.hidden EXCEPT ![l] = 0]]
  BY <1>1, <1>2
<1> QED
  BY <1>3 DEF rows, pairs, org

(* It has the parts of a graph. *)
LEMMA MergedKept ==
  ASSUME NEW g, NEW l, NEW w, WellFormed(g), NEW m, m = Merged(g, l, w)
  PROVE  m = [ents |-> m.ents, rows |-> m.rows, next |-> m.next, pairs |-> m.pairs,
              org |-> m.org, locked |-> m.locked, hidden |-> m.hidden]
<1> DEFINE rows == [i \in DOMAIN g.rows \ Dropped(g, l, w) |-> MergedRow(g, l, w, i)]
           pairs == MergedPairs(g, l, w)
           org == MergedOrg(g, l, w)
<1>1. g = [ents |-> g.ents, rows |-> g.rows, next |-> g.next, pairs |-> g.pairs,
           org |-> g.org, locked |-> g.locked, hidden |-> g.hidden]
  BY DEF WellFormed
<1>2. m = [g EXCEPT !.ents = @ \ {l}, !.rows = rows, !.pairs = pairs, !.org[w] = org, !.org[l] = Blank,
                    !.locked = @ \ {l}, !.hidden[l] = 0]
  BY Zenon DEF Merged, MergedPairs
<1> HIDE DEF rows, pairs, org
<1> QED
  BY <1>1, <1>2

(* Putting rows back changes the rows only ... *)
LEMMA WithRowsParts ==
  ASSUME NEW g, NEW old,
         g = [ents |-> g.ents, rows |-> g.rows, next |-> g.next, pairs |-> g.pairs,
              org |-> g.org, locked |-> g.locked, hidden |-> g.hidden]
  PROVE  WithRows(g, old) =
           [ents |-> g.ents,
            rows |-> [i \in DOMAIN g.rows \cup DOMAIN old |-> IF i \in DOMAIN old THEN old[i] ELSE g.rows[i]],
            next |-> g.next, pairs |-> g.pairs,
            org |-> g.org, locked |-> g.locked, hidden |-> g.hidden]
<1> DEFINE rows == [i \in DOMAIN g.rows \cup DOMAIN old |-> IF i \in DOMAIN old THEN old[i] ELSE g.rows[i]]
<1>1. WithRows(g, old) = [g EXCEPT !.rows = rows]
  BY DEF WithRows
<1> HIDE DEF rows
<1>2. WithRows(g, old) = [ents |-> g.ents, rows |-> rows, next |-> g.next, pairs |-> g.pairs,
                          org |-> g.org, locked |-> g.locked, hidden |-> g.hidden]
  BY <1>1
<1> QED
  BY <1>2 DEF rows

(* ... those given, and the others as they are. *)
LEMMA PutBack ==
  ASSUME NEW g, NEW old,
         g = [ents |-> g.ents, rows |-> g.rows, next |-> g.next, pairs |-> g.pairs,
              org |-> g.org, locked |-> g.locked, hidden |-> g.hidden],
         NEW h, h = WithRows(g, old)
  PROVE  /\ h = [ents |-> h.ents, rows |-> h.rows, next |-> h.next, pairs |-> h.pairs,
                 org |-> h.org, locked |-> h.locked, hidden |-> h.hidden]
         /\ DOMAIN h.rows = DOMAIN g.rows \cup DOMAIN old
         /\ \A i \in DOMAIN old : h.rows[i] = old[i]
         /\ \A i \in DOMAIN g.rows \ DOMAIN old : h.rows[i] = g.rows[i]
         /\ h.ents = g.ents /\ h.next = g.next /\ h.pairs = g.pairs /\ h.org = g.org
         /\ h.locked = g.locked /\ h.hidden = g.hidden
<1> DEFINE rows == [i \in DOMAIN g.rows \cup DOMAIN old |-> IF i \in DOMAIN old THEN old[i] ELSE g.rows[i]]
<1>1. h = [ents |-> g.ents, rows |-> rows, next |-> g.next, pairs |-> g.pairs,
           org |-> g.org, locked |-> g.locked, hidden |-> g.hidden]
  BY WithRowsParts, Zenon
<1>2. /\ DOMAIN rows = DOMAIN g.rows \cup DOMAIN old
      /\ \A i \in DOMAIN old : rows[i] = old[i]
      /\ \A i \in DOMAIN g.rows \ DOMAIN old : rows[i] = g.rows[i]
  OBVIOUS
<1> HIDE DEF rows
<1> QED
  BY <1>1, <1>2

(* The rows an unmerge leaves. *)
Restored(m, s) ==
  LET back == WithRows(WithRows(m, s.copies), s.rows).rows
  IN [i \in DOMAIN back |-> IF i \in DOMAIN s.pointers
                            THEN [back[i] EXCEPT !.by = s.pointers[i]] ELSE back[i]]

(* The graph an unmerge leaves, part by part. *)
LEMMA UnmergedParts ==
  ASSUME NEW m, NEW s,
         m = [ents |-> m.ents, rows |-> m.rows, next |-> m.next, pairs |-> m.pairs,
              org |-> m.org, locked |-> m.locked, hidden |-> m.hidden]
  PROVE  LET added == AddedPairs(s.loser, s.winner, s.pairs, s.winnerPairs)
         IN Unmerged(m, s) =
              [ents |-> m.ents \cup {s.loser},
               rows |-> Restored(m, s),
               next |-> m.next,
               pairs |-> (m.pairs \ added) \cup s.pairs,
               org |-> [[m.org EXCEPT ![s.winner] = IF @ = s.orgAfter THEN s.winnerOrg ELSE @]
                         EXCEPT ![s.loser] = s.loserOrg],
               locked |-> IF s.locked THEN m.locked \cup {s.loser} ELSE m.locked,
               hidden |-> [m.hidden EXCEPT ![s.loser] = s.hidden]]
<1> DEFINE back == WithRows(WithRows(m, s.copies), s.rows)
           added == AddedPairs(s.loser, s.winner, s.pairs, s.winnerPairs)
           l == s.loser
           w == s.winner
           rows == Restored(m, s)
<1>1. back = [ents |-> m.ents, rows |-> back.rows, next |-> m.next, pairs |-> m.pairs,
              org |-> m.org, locked |-> m.locked, hidden |-> m.hidden]
  <2> DEFINE first == WithRows(m, s.copies)
  <2>1. first = [ents |-> m.ents, rows |-> first.rows, next |-> m.next, pairs |-> m.pairs,
                 org |-> m.org, locked |-> m.locked, hidden |-> m.hidden]
    <3> DEFINE rows1 == [i \in DOMAIN m.rows \cup DOMAIN s.copies |->
                          IF i \in DOMAIN s.copies THEN s.copies[i] ELSE m.rows[i]]
    <3>1. first = [ents |-> m.ents, rows |-> rows1, next |-> m.next, pairs |-> m.pairs,
                   org |-> m.org, locked |-> m.locked, hidden |-> m.hidden]
      BY WithRowsParts, Zenon
    <3> HIDE DEF first, rows1
    <3> QED
      BY <3>1
  <2> HIDE DEF first
  <2> DEFINE rows2 == [i \in DOMAIN first.rows \cup DOMAIN s.rows |->
                        IF i \in DOMAIN s.rows THEN s.rows[i] ELSE first.rows[i]]
             second == WithRows(first, s.rows)
  <2>2. first = [ents |-> first.ents, rows |-> first.rows, next |-> first.next, pairs |-> first.pairs,
                 org |-> first.org, locked |-> first.locked, hidden |-> first.hidden]
    BY <2>1
  <2>3. second = [ents |-> first.ents, rows |-> rows2, next |-> first.next, pairs |-> first.pairs,
                  org |-> first.org, locked |-> first.locked, hidden |-> first.hidden]
    BY <2>2, WithRowsParts, Zenon
  <2> HIDE DEF second, rows2
  <2>4. second = [ents |-> m.ents, rows |-> second.rows, next |-> m.next, pairs |-> m.pairs,
                  org |-> m.org, locked |-> m.locked, hidden |-> m.hidden]
    BY <2>1, <2>3
  <2> QED
    BY <2>4, Zenon DEF first, second
<1>2. Unmerged(m, s) = [back EXCEPT
        !.ents = @ \cup {l},
        !.rows = rows,
        !.pairs = (@ \ added) \cup s.pairs,
        !.org[w] = IF @ = s.orgAfter THEN s.winnerOrg ELSE @,
        !.org[l] = s.loserOrg,
        !.locked = IF s.locked THEN @ \cup {l} ELSE @,
        !.hidden[l] = s.hidden]
  BY DEF Unmerged, Restored, AddedPairs
<1> HIDE DEF back, added, l, w, rows
<1>3. Unmerged(m, s) =
        [ents |-> back.ents \cup {l}, rows |-> rows, next |-> back.next,
         pairs |-> (back.pairs \ added) \cup s.pairs,
         org |-> [[back.org EXCEPT ![w] = IF @ = s.orgAfter THEN s.winnerOrg ELSE @] EXCEPT ![l] = s.loserOrg],
         locked |-> IF s.locked THEN back.locked \cup {l} ELSE back.locked,
         hidden |-> [back.hidden EXCEPT ![l] = s.hidden]]
  BY <1>1, <1>2
<1>4. /\ back.ents = m.ents /\ back.next = m.next /\ back.pairs = m.pairs /\ back.org = m.org
      /\ back.locked = m.locked /\ back.hidden = m.hidden
  BY <1>1
<1> QED
  BY <1>3, <1>4, Zenon DEF back, added, l, w, rows

(* What a merge recorded, part by part. *)
LEMMA SnapshotParts ==
  ASSUME NEW g, NEW l, NEW w, NEW s, s = Snapshot(g, l, w)
  PROVE  /\ s.loser = l /\ s.winner = w
         /\ DOMAIN s.rows = RowsOf(g, l) /\ \A i \in RowsOf(g, l) : s.rows[i] = g.rows[i]
         /\ DOMAIN s.copies = Copies(g, l, w) /\ \A i \in Copies(g, l, w) : s.copies[i] = g.rows[i]
         /\ DOMAIN s.pointers = {j \in DOMAIN g.rows \ (RowsOf(g, l) \cup Copies(g, l, w)) :
                                 g.rows[j].by \in RowsOf(g, l)}
         /\ \A i \in DOMAIN s.pointers : s.pointers[i] = g.rows[i].by
         /\ s.pairs = PairsOf(g, l) /\ s.winnerPairs = PairsOf(g, w)
         /\ s.locked = (l \in g.locked)
         /\ s.hidden = g.hidden[l]
         /\ s.loserOrg = g.org[l] /\ s.winnerOrg = g.org[w] /\ s.orgAfter = MergedOrg(g, l, w)
<1> DEFINE rows == [i \in RowsOf(g, l) |-> g.rows[i]]
           copies == [i \in Copies(g, l, w) |-> g.rows[i]]
           pointers == [i \in {j \in DOMAIN g.rows \ (RowsOf(g, l) \cup Copies(g, l, w)) :
                               g.rows[j].by \in RowsOf(g, l)} |-> g.rows[i].by]
           pairs == PairsOf(g, l)
           winnerPairs == PairsOf(g, w)
           locked == l \in g.locked
<1>1. s =
        [loser |-> l, winner |-> w, rows |-> rows, copies |-> copies, pointers |-> pointers,
         pairs |-> pairs, winnerPairs |-> winnerPairs, locked |-> locked, hidden |-> g.hidden[l],
         loserOrg |-> g.org[l], winnerOrg |-> g.org[w], orgAfter |-> MergedOrg(g, l, w)]
  BY DEF Snapshot
<1> HIDE DEF rows, copies, pointers, pairs, winnerPairs, locked
<1> QED
  BY <1>1 DEF rows, copies, pointers, pairs, winnerPairs, locked

(* A row the snapshot has no copy of keeps all but its pointer. *)
LEMMA OtherRowKept ==
  ASSUME NEW g, NEW l, NEW w \in Ent, NEW i \in DOMAIN g.rows,
         WellFormed(g), l # w, i \notin RowsOf(g, l), i \notin Copies(g, l, w)
  PROVE  LET r == g.rows[i]
             n == MergedRow(g, l, w, i)
         IN /\ n \in Rows /\ r \in Rows
            /\ n.t = r.t /\ n.from = r.from /\ n.derived = r.derived
            /\ n.verdict = r.verdict /\ n.ended = r.ended
            /\ r.by \notin RowsOf(g, l) => n.by = r.by
<1> DEFINE r == g.rows[i]
           n == MergedRow(g, l, w, i)
           sources == Sources(g, l, w, i)
<1>1. Moved(l, w, r.t) = r.t
  BY MovedTriple
<1>2. sources = {}
  BY <1>1 DEF Copies, Sources
<1>3. r \in Rows
  BY TripleParts
<1>4. /\ n \in Rows
      /\ n.t = Moved(l, w, r.t) /\ n.from = r.from
      /\ n.by = IF r.by \in Dropped(g, l, w) THEN NoRow ELSE r.by
      /\ n.derived = (r.derived /\ \A s \in sources : s.derived)
      /\ n.verdict = IF \E s \in sources : s.verdict = "rejected" THEN "rejected" ELSE r.verdict
      /\ n.ended = (r.ended \/ \E s \in sources : s.verdict = "rejected")
  BY MergedRowFields
<1>5. r.derived \in BOOLEAN /\ r.ended \in BOOLEAN
  BY <1>3 DEF Rows
<1> HIDE DEF r, n, sources
<1>6. /\ n.t = r.t /\ n.from = r.from /\ n.verdict = r.verdict
      /\ n.derived = r.derived /\ n.ended = r.ended
  BY <1>1, <1>2, <1>4, <1>5
<1>7. r.by \notin RowsOf(g, l) => n.by = r.by
  BY <1>4, DroppedOfLoser
<1> QED
  BY <1>3, <1>4, <1>6, <1>7, Zenon DEF r, n

(* The rows after an unmerge are the rows before the merge. *)
LEMMA RowsRestored ==
  ASSUME NEW g, NEW l \in g.ents, NEW w \in g.ents, WellFormed(g), l # w,
         NEW s, s = Snapshot(g, l, w), NEW m, m = Merged(g, l, w)
  PROVE  Restored(m, s) = g.rows
<1> DEFINE first == WithRows(m, s.copies)
           back == WithRows(first, s.rows).rows
           final == Restored(m, s)
           mine == RowsOf(g, l)
           copies == Copies(g, l, w)
           into == {j \in DOMAIN g.rows \ (mine \cup copies) : g.rows[j].by \in mine}
<1>0. w \in Ent
  BY DEF WellFormed
<1>1. /\ DOMAIN s.rows = mine /\ \A i \in mine : s.rows[i] = g.rows[i]
      /\ DOMAIN s.copies = copies /\ \A i \in copies : s.copies[i] = g.rows[i]
      /\ DOMAIN s.pointers = into /\ \A i \in into : s.pointers[i] = g.rows[i].by
  BY SnapshotParts
<1>2. m.rows = [i \in DOMAIN g.rows \ Dropped(g, l, w) |-> MergedRow(g, l, w, i)]
  BY DEF Merged
<1>3. Dropped(g, l, w) \subseteq mine /\ mine \subseteq DOMAIN g.rows
  BY DroppedOfLoser
<1>4. copies \subseteq DOMAIN g.rows /\ copies \cap mine = {}
  BY CopyStays
<1> HIDE DEF mine, copies, into
<1>5. /\ DOMAIN back = DOMAIN g.rows
      /\ \A i \in mine \cup copies : back[i] = g.rows[i]
      /\ \A i \in DOMAIN g.rows \ (mine \cup copies) : back[i] = MergedRow(g, l, w, i)
  <2>1. m = [ents |-> m.ents, rows |-> m.rows, next |-> m.next, pairs |-> m.pairs,
             org |-> m.org, locked |-> m.locked, hidden |-> m.hidden]
    BY MergedKept
  <2>2. first = [ents |-> first.ents, rows |-> first.rows, next |-> first.next, pairs |-> first.pairs,
                 org |-> first.org, locked |-> first.locked, hidden |-> first.hidden]
    BY <2>1, PutBack
  <2>3. /\ DOMAIN first.rows = DOMAIN m.rows \cup copies
        /\ \A i \in copies : first.rows[i] = g.rows[i]
        /\ \A i \in DOMAIN m.rows \ copies : first.rows[i] = m.rows[i]
    BY <1>1, <2>1, PutBack
  <2> HIDE DEF first
  <2>4. /\ DOMAIN back = DOMAIN first.rows \cup mine
        /\ \A i \in mine : back[i] = g.rows[i]
        /\ \A i \in DOMAIN first.rows \ mine : back[i] = first.rows[i]
    BY <1>1, <2>2, PutBack
  <2> HIDE DEF back
  <2> QED
    BY <1>2, <1>3, <1>4, <2>3, <2>4
<1>6. into = {j \in DOMAIN g.rows \ (mine \cup copies) : g.rows[j].by \in mine}
  BY DEF into
<1>11. final = [i \in DOMAIN back |-> IF i \in DOMAIN s.pointers
                                    THEN [back[i] EXCEPT !.by = s.pointers[i]] ELSE back[i]]
  BY DEF Restored
<1> HIDE DEF back, final
<1>7. ASSUME NEW i \in DOMAIN g.rows
      PROVE  final[i] = g.rows[i]
  <2>1. final[i] = IF i \in into THEN [back[i] EXCEPT !.by = g.rows[i].by] ELSE back[i]
    BY <1>1, <1>5, <1>11
  <2>2. CASE i \in mine \cup copies
    BY <2>1, <2>2, <1>5, <1>6
  <2>3. CASE i \notin mine \cup copies
    <3> DEFINE n == back[i]
               r == g.rows[i]
    <3>1. n = MergedRow(g, l, w, i)
      BY <2>3, <1>5
    <3>2. /\ n \in Rows /\ r \in Rows
          /\ n.t = r.t /\ n.from = r.from /\ n.derived = r.derived
          /\ n.verdict = r.verdict /\ n.ended = r.ended
          /\ r.by \notin mine => n.by = r.by
      BY <1>0, <2>3, <3>1, OtherRowKept DEF mine, copies
    <3>3. CASE i \in into
      <4> DEFINE x == [n EXCEPT !.by = r.by]
      <4>1. /\ x \in Rows
            /\ x.t = n.t /\ x.from = n.from /\ x.derived = n.derived
            /\ x.verdict = n.verdict /\ x.ended = n.ended /\ x.by = r.by
        <5> HIDE DEF n, r
        <5>1. x = [t |-> n.t, from |-> n.from, ended |-> n.ended, verdict |-> n.verdict,
                   by |-> r.by, derived |-> n.derived]
          BY <3>2 DEF Rows
        <5>2. x \in Rows
          BY <3>2, <5>1 DEF Rows
        <5> HIDE DEF x
        <5> QED
          BY <5>1, <5>2
      <4> HIDE DEF x, n, r
      <4>2. x = r
        BY <3>2, <4>1, SameRow
      <4> QED
        BY <2>1, <3>3, <4>2 DEF x, n, r
    <3>4. CASE i \notin into
      <4>1. r.by \notin mine
        BY <1>6, <2>3, <3>4
      <4> HIDE DEF n, r
      <4>2. n = r
        BY <3>2, <4>1, SameRow
      <4> QED
        BY <2>1, <3>4, <4>2 DEF n, r
    <3> QED
      BY <3>3, <3>4
  <2> QED
    BY <2>2, <2>3
<1>8. DOMAIN final = DOMAIN g.rows
  BY <1>5, <1>11
<1>9. g.rows \in [DOMAIN g.rows -> Rows]
  BY DEF WellFormed
<1>10. final = g.rows
  <2>1. final = [i \in DOMAIN final |-> final[i]]
    BY <1>11
  <2> QED
    BY <2>1, <1>7, <1>8, <1>9
<1> QED
  BY <1>10 DEF final

(* Two different things. *)
IsPair(p) == \E a, b : a # b /\ p = {a, b}

(* What becomes of a pair of entities when l becomes w: it is not changed, or
   it is repointed, or it falls away. *)
LEMMA RepointedPair ==
  ASSUME NEW l, NEW w, NEW p, l # w, IsPair(p)
  PROVE  /\ l \notin p => Repointed(l, w, p) = p
         /\ l \in p => w \in Repointed(l, w, p)
         /\ l \notin Repointed(l, w, p)
         /\ Cardinality(p) = 2
         /\ l \in p /\ w \in p => Cardinality(Repointed(l, w, p)) = 1
         /\ l \in p /\ w \notin p => Cardinality(Repointed(l, w, p)) = 2
<1> DEFINE q == Repointed(l, w, p)
<1> PICK a, b : a # b /\ p = {a, b}
  BY DEF IsPair
<1>1. ASSUME NEW x, NEW y, x # y
      PROVE  Cardinality({x, y}) = 2
  <2>1. Cardinality({x}) = 1 /\ IsFiniteSet({x})
    BY FS_Singleton
  <2>2. Cardinality({x} \cup {y}) = Cardinality({x}) + 1
    BY <1>1, <2>1, FS_AddElement
  <2>3. {x, y} = {x} \cup {y}
    OBVIOUS
  <2> QED
    BY <2>1, <2>2, <2>3
<1>2. q = {Sub(l, w, a), Sub(l, w, b)}
  BY DEF Repointed
<1>3. l \notin p => q = p
  BY <1>2 DEF Sub
<1> HIDE DEF q
<1>4. (l \in p => w \in q) /\ l \notin q
  BY <1>2 DEF Sub
<1>5. Cardinality(p) = 2
  BY <1>1
<1>6. l \in p /\ w \in p => q = {w}
  BY <1>2 DEF Sub
<1>7. l \in p /\ w \notin p => Sub(l, w, a) # Sub(l, w, b)
  BY DEF Sub
<1>8. l \in p /\ w \notin p => Cardinality(q) = 2
  BY <1>1, <1>2, <1>7
<1>9. l \in p /\ w \in p => Cardinality(q) = 1
  BY <1>6, FS_Singleton
<1> QED
  BY <1>3, <1>4, <1>5, <1>8, <1>9, Zenon DEF q

(* The pairs after an unmerge are the pairs before the merge. *)
LEMMA PairsRestored ==
  ASSUME NEW g, NEW l, NEW w, WellFormed(g), l # w,
         NEW ofLoser, ofLoser = PairsOf(g, l), NEW ofWinner, ofWinner = PairsOf(g, w)
  PROVE  (MergedPairs(g, l, w) \ AddedPairs(l, w, ofLoser, ofWinner)) \cup ofLoser = g.pairs
<1> DEFINE merged == MergedPairs(g, l, w)
           added == AddedPairs(l, w, ofLoser, ofWinner)
<1> USE DEF MergedPairs, AddedPairs, PairsOf
<1>1. ASSUME NEW p \in g.pairs
      PROVE  /\ l \notin p => Repointed(l, w, p) = p /\ Cardinality(p) = 2
             /\ l \in p => w \in Repointed(l, w, p)
             /\ l \in p /\ w \in p => Cardinality(Repointed(l, w, p)) # 2
  <2>1. IsPair(p)
    BY DEF WellFormed, IsPair
  <2> QED
    BY <2>1, RepointedPair
<1>2. ASSUME NEW p \in merged \ added
      PROVE  p \in g.pairs
  <2>1. PICK q \in g.pairs : p = Repointed(l, w, q) /\ Cardinality(Repointed(l, w, q)) = 2
    OBVIOUS
  <2>2. CASE l \notin q
    BY <1>1, <2>1, <2>2
  <2>3. CASE l \in q
    BY <1>1, <2>1, <2>3
  <2> QED
    BY <2>2, <2>3
<1>3. ASSUME NEW p \in g.pairs, l \notin p
      PROVE  p \in merged \ added
  <2>1. p = Repointed(l, w, p) /\ Cardinality(p) = 2
    BY <1>1, <1>3
  <2>2. p \in merged
    BY <2>1
  <2>3. ASSUME p \in added
        PROVE  FALSE
    <3>1. PICK q \in ofLoser : p = Repointed(l, w, q)
      BY <2>3
    <3>2. w \in p
      BY <1>1, <3>1
    <3> QED
      BY <2>3, <3>2
  <2> QED
    BY <2>2, <2>3
<1>4. (merged \ added) \cup ofLoser = g.pairs
  <2> HIDE DEF merged, added
  <2> QED
    BY <1>2, <1>3
<1> QED
  BY <1>4

(* The orgs and the hides after an unmerge are those before the merge. *)
LEMMA FieldsRestored ==
  ASSUME NEW S, NEW f, NEW l \in S, NEW w \in S, l # w, f = [e \in S |-> f[e]], NEW after, NEW blank
  PROVE  /\ [[[[f EXCEPT ![w] = after] EXCEPT ![l] = blank]
                EXCEPT ![w] = IF @ = after THEN f[w] ELSE @] EXCEPT ![l] = f[l]] = f
         /\ [[f EXCEPT ![l] = blank] EXCEPT ![l] = f[l]] = f
  OBVIOUS

(* Both facts of the theorem below, about a given snapshot and merged graph. *)
LEMMA UnmergeRestores ==
  ASSUME NEW g, NEW l \in g.ents, NEW w \in g.ents, WellFormed(g), l # w,
         NEW s, s = Snapshot(g, l, w), NEW m, m = Merged(g, l, w)
  PROVE  Unmergeable(m, s) /\ Unmerged(m, s) = g
<1> DEFINE ofLoser == PairsOf(g, l)
           ofWinner == PairsOf(g, w)
           added == AddedPairs(l, w, ofLoser, ofWinner)
           merged == MergedPairs(g, l, w)
           after == MergedOrg(g, l, w)
<1>1. m = [ents |-> g.ents \ {l}, rows |-> m.rows, next |-> g.next, pairs |-> merged,
           org |-> [[g.org EXCEPT ![w] = after] EXCEPT ![l] = Blank],
           locked |-> g.locked \ {l}, hidden |-> [g.hidden EXCEPT ![l] = 0]]
  BY MergedParts
<1>2. /\ s.loser = l /\ s.winner = w
      /\ DOMAIN s.rows = RowsOf(g, l) /\ \A i \in RowsOf(g, l) : s.rows[i] = g.rows[i]
      /\ DOMAIN s.copies = Copies(g, l, w) /\ \A i \in Copies(g, l, w) : s.copies[i] = g.rows[i]
      /\ s.pairs = ofLoser /\ s.winnerPairs = ofWinner
      /\ s.locked = (l \in g.locked) /\ s.hidden = g.hidden[l]
      /\ s.loserOrg = g.org[l] /\ s.winnerOrg = g.org[w] /\ s.orgAfter = after
  BY SnapshotParts
<1>3. /\ w \in Ent /\ l \in Ent /\ g.ents \subseteq Ent /\ g.locked \subseteq g.ents
      /\ g.org = [e \in Ent |-> g.org[e]] /\ g.hidden = [e \in Ent |-> g.hidden[e]]
      /\ g = [ents |-> g.ents, rows |-> g.rows, next |-> g.next, pairs |-> g.pairs,
              org |-> g.org, locked |-> g.locked, hidden |-> g.hidden]
  BY DEF WellFormed
<1>4. m.rows = [i \in DOMAIN g.rows \ Dropped(g, l, w) |-> MergedRow(g, l, w, i)]
  BY DEF Merged
<1>5. ASSUME NEW i \in DOMAIN m.rows
      PROVE  m.rows[i].t = Moved(l, w, g.rows[i].t)
  <2>1. i \in DOMAIN g.rows /\ m.rows[i] = MergedRow(g, l, w, i)
    BY <1>4
  <2>2. MergedRow(g, l, w, i).t = Moved(l, w, g.rows[i].t)
    BY <1>3, <2>1, MergedTriple
  <2> QED
    BY <2>1, <2>2
<1>6. Unmergeable(m, s)
  <2>1. w \in m.ents /\ l \notin m.ents
    <3> HIDE DEF merged, after
    <3> QED
      BY <1>1
  <2>2. \A i \in DOMAIN s.rows \cap DOMAIN m.rows : m.rows[i].t = Moved(l, w, s.rows[i].t)
    BY <1>2, <1>5
  <2>3. ASSUME NEW i \in DOMAIN s.copies
        PROVE  i \in DOMAIN m.rows /\ m.rows[i].t = s.copies[i].t
    <3>1. i \in Copies(g, l, w) /\ s.copies[i] = g.rows[i]
      BY <1>2
    <3>2. i \in DOMAIN g.rows /\ i \notin RowsOf(g, l)
      BY <3>1, CopyStays
    <3>3. i \in DOMAIN m.rows
      BY <1>4, <3>2, DroppedOfLoser
    <3>4. Moved(l, w, g.rows[i].t) = g.rows[i].t
      BY <3>2, MovedTriple
    <3> QED
      BY <1>5, <3>1, <3>3, <3>4
  <2> QED
    BY <1>2, <2>1, <2>2, <2>3 DEF Unmergeable
<1>7. Restored(m, s) = g.rows
  BY RowsRestored
<1>9. Unmerged(m, s) =
        [ents |-> m.ents \cup {l}, rows |-> Restored(m, s), next |-> m.next,
         pairs |-> (m.pairs \ added) \cup ofLoser,
         org |-> [[m.org EXCEPT ![w] = IF @ = after THEN g.org[w] ELSE @] EXCEPT ![l] = g.org[l]],
         locked |-> IF l \in g.locked THEN m.locked \cup {l} ELSE m.locked,
         hidden |-> [m.hidden EXCEPT ![l] = g.hidden[l]]]
  <2>1. m = [ents |-> m.ents, rows |-> m.rows, next |-> m.next, pairs |-> m.pairs,
             org |-> m.org, locked |-> m.locked, hidden |-> m.hidden]
    BY MergedKept
  <2>2. Unmerged(m, s) =
              [ents |-> m.ents \cup {s.loser},
               rows |-> Restored(m, s),
               next |-> m.next,
               pairs |-> (m.pairs \ AddedPairs(s.loser, s.winner, s.pairs, s.winnerPairs)) \cup s.pairs,
               org |-> [[m.org EXCEPT ![s.winner] = IF @ = s.orgAfter THEN s.winnerOrg ELSE @]
                         EXCEPT ![s.loser] = s.loserOrg],
               locked |-> IF s.locked THEN m.locked \cup {s.loser} ELSE m.locked,
               hidden |-> [m.hidden EXCEPT ![s.loser] = s.hidden]]
    BY <2>1, UnmergedParts
  <2> HIDE DEF ofLoser, ofWinner, after
  <2> QED
    BY <1>2, <2>2
<1>10. g = [ents |-> m.ents \cup {l}, rows |-> Restored(m, s), next |-> m.next,
         pairs |-> (m.pairs \ added) \cup ofLoser,
         org |-> [[m.org EXCEPT ![w] = IF @ = after THEN g.org[w] ELSE @] EXCEPT ![l] = g.org[l]],
         locked |-> IF l \in g.locked THEN m.locked \cup {l} ELSE m.locked,
         hidden |-> [m.hidden EXCEPT ![l] = g.hidden[l]]]
  <2>1. (merged \ added) \cup ofLoser = g.pairs
    BY PairsRestored
  <2>2. /\ [[[[g.org EXCEPT ![w] = after] EXCEPT ![l] = Blank]
                EXCEPT ![w] = IF @ = after THEN g.org[w] ELSE @] EXCEPT ![l] = g.org[l]] = g.org
        /\ [[g.hidden EXCEPT ![l] = 0] EXCEPT ![l] = g.hidden[l]] = g.hidden
    BY <1>3, FieldsRestored
  <2> HIDE DEF added, merged, ofLoser, after
  <2>3. /\ m.ents = g.ents \ {l} /\ m.next = g.next /\ m.pairs = merged
        /\ m.org = [[g.org EXCEPT ![w] = after] EXCEPT ![l] = Blank]
        /\ m.locked = g.locked \ {l} /\ m.hidden = [g.hidden EXCEPT ![l] = 0]
    BY <1>1
  <2>4. g.ents = m.ents \cup {l} /\ g.locked = IF l \in g.locked THEN m.locked \cup {l} ELSE m.locked
    BY <2>3
  <2> QED
    BY <1>3, <1>7, <2>1, <2>2, <2>3, <2>4
<1> QED
  BY <1>6, <1>9, <1>10, Zenon

(* A merge can be undone at once, and undoing it leaves the very graph it was
   made in: every row with its triple, verdict and pointer, the pairs, the
   fields, the lock and the hide.  What the snapshot of _merge_entities_tx
   keeps is enough for _unmerge_tx. *)
THEOREM UnmergeUndoesMerge ==
  ASSUME NEW g, NEW l \in g.ents, NEW w \in g.ents, WellFormed(g), l # w
  PROVE  /\ Unmergeable(Merged(g, l, w), Snapshot(g, l, w))
         /\ Unmerged(Merged(g, l, w), Snapshot(g, l, w)) = g
  BY UnmergeRestores

-----------------------------------------------------------------------------
(* A merge leaves a graph. *)

(* What the substitution of the winner for the loser does to an entity. *)
LEMMA SubStays ==
  ASSUME NEW g, NEW l \in g.ents, NEW w \in g.ents, l # w, NEW e \in g.ents
  PROVE  Sub(l, w, e) \in g.ents \ {l}
  BY DEF Sub

(* No two rows the merge keeps become one triple. *)
LEMMA MovedApart ==
  ASSUME NEW g, NEW l, NEW w, WellFormed(g), l # w,
         NEW i \in DOMAIN g.rows \ Dropped(g, l, w), NEW j \in DOMAIN g.rows \ Dropped(g, l, w),
         Moved(l, w, g.rows[i].t) = Moved(l, w, g.rows[j].t)
  PROVE  i = j
<1> DEFINE ti == g.rows[i].t
           tj == g.rows[j].t
<1>1. /\ ti = <<ti[1], ti[2], ti[3]>> /\ tj = <<tj[1], tj[2], tj[3]>>
      /\ ti[1] # ti[3] /\ tj[1] # tj[3]
  BY TripleParts
<1>2. ti = tj => i = j
  BY DEF WellFormed
<1>3. \A k \in DOMAIN g.rows \ Dropped(g, l, w) : k \in RowsOf(g, l) =>
        /\ Moved(l, w, g.rows[k].t)[1] # Moved(l, w, g.rows[k].t)[3]
        /\ ~\E n \in DOMAIN g.rows : g.rows[n].t = Moved(l, w, g.rows[k].t)
  <2> TAKE k \in DOMAIN g.rows \ Dropped(g, l, w)
  <2>1. HAVE k \in RowsOf(g, l)
  <2>2. /\ Moved(l, w, g.rows[k].t)[1] # Moved(l, w, g.rows[k].t)[3]
        /\ IdOf(g, Moved(l, w, g.rows[k].t)) = NoRow
    BY <2>1 DEF Dropped
  <2> QED
    BY <2>2, RowOfTriple
<1>4. /\ i \notin RowsOf(g, l) => Moved(l, w, ti) = ti
      /\ j \notin RowsOf(g, l) => Moved(l, w, tj) = tj
  BY MovedTriple
<1>5. CASE i \notin RowsOf(g, l) /\ j \notin RowsOf(g, l)
  BY <1>2, <1>4, <1>5
<1>6. CASE i \in RowsOf(g, l) /\ j \notin RowsOf(g, l)
  BY <1>3, <1>4, <1>6
<1>7. CASE i \notin RowsOf(g, l) /\ j \in RowsOf(g, l)
  BY <1>3, <1>4, <1>7
<1>8. CASE i \in RowsOf(g, l) /\ j \in RowsOf(g, l)
  <2>1. l \in {ti[1], ti[3]} /\ l \in {tj[1], tj[3]}
    BY <1>8 DEF RowsOf
  <2>2. Moved(l, w, ti)[1] # Moved(l, w, ti)[3]
    BY <1>3, <1>8
  <2>3. /\ Sub(l, w, ti[1]) = Sub(l, w, tj[1]) /\ ti[2] = tj[2]
        /\ Sub(l, w, ti[3]) = Sub(l, w, tj[3])
        /\ Sub(l, w, ti[1]) # Sub(l, w, ti[3])
    <3> HIDE DEF ti, tj
    <3>1. Moved(l, w, ti) = Moved(l, w, tj)
      BY DEF ti, tj
    <3> QED
      BY <2>2, <3>1 DEF Moved
  <2> HIDE DEF ti, tj
  <2>4. ti[1] = tj[1] /\ ti[2] = tj[2] /\ ti[3] = tj[3]
    BY <1>1, <2>1, <2>3 DEF Sub
  <2>5. ti = tj
    BY <1>1, <2>4
  <2> QED
    BY <1>2, <2>5
<1> QED
  BY <1>5, <1>6, <1>7, <1>8

(* The pairs after a merge are pairs of entities. *)
LEMMA MergedPairsArePairs ==
  ASSUME NEW g, NEW l \in g.ents, NEW w \in g.ents, WellFormed(g), l # w,
         NEW p \in MergedPairs(g, l, w)
  PROVE  \E a, b \in g.ents \ {l} : a # b /\ p = {a, b}
<1>1. PICK q \in g.pairs : p = Repointed(l, w, q) /\ Cardinality(p) = 2
  BY DEF MergedPairs
<1>2. PICK a \in g.ents, b \in g.ents : a # b /\ q = {a, b}
  BY DEF WellFormed
<1>3. p = {Sub(l, w, a), Sub(l, w, b)}
  BY <1>1, <1>2 DEF Repointed
<1>4. Sub(l, w, a) \in g.ents \ {l} /\ Sub(l, w, b) \in g.ents \ {l}
  BY SubStays
<1>5. Sub(l, w, a) # Sub(l, w, b)
  <2>1. SUFFICES ASSUME Sub(l, w, a) = Sub(l, w, b)
                 PROVE  FALSE
    OBVIOUS
  <2>2. p = {Sub(l, w, a)}
    BY <1>3, <2>1
  <2>3. Cardinality(p) = 1
    BY <2>2, FS_Singleton
  <2> QED
    BY <1>1, <2>3
<1> QED
  BY <1>3, <1>4, <1>5

(* A merge leaves a graph that keeps every promise of the schema: no second
   row for a triple, no row that relates an entity to itself, no row, pair or
   lock of the entity that is gone, no pointer to a row that was dropped.
   _merge_entities_tx. *)
THEOREM MergeKeepsWellFormed ==
  ASSUME NEW g, NEW l \in g.ents, NEW w \in g.ents, WellFormed(g), l # w
  PROVE  WellFormed(Merged(g, l, w))
<1> SUFFICES ASSUME NEW m, m = Merged(g, l, w)
             PROVE  WellFormed(m)
  OBVIOUS
<1> DEFINE org == [[g.org EXCEPT ![w] = MergedOrg(g, l, w)] EXCEPT ![l] = Blank]
           hidden == [g.hidden EXCEPT ![l] = 0]
<1>1. m = [ents |-> m.ents, rows |-> m.rows, next |-> m.next, pairs |-> m.pairs,
           org |-> m.org, locked |-> m.locked, hidden |-> m.hidden]
  BY MergedKept
<1>2. /\ m.ents = g.ents \ {l} /\ m.next = g.next /\ m.pairs = MergedPairs(g, l, w)
      /\ m.org = org /\ m.locked = g.locked \ {l} /\ m.hidden = hidden
  <2>1. m = [ents |-> g.ents \ {l}, rows |-> m.rows, next |-> g.next,
             pairs |-> MergedPairs(g, l, w), org |-> org, locked |-> g.locked \ {l}, hidden |-> hidden]
    BY MergedParts
  <2> HIDE DEF org, hidden
  <2> QED
    BY <2>1
<1>3. m.rows = [i \in DOMAIN g.rows \ Dropped(g, l, w) |-> MergedRow(g, l, w, i)]
  BY DEF Merged
<1>4. /\ g.ents \subseteq Ent /\ g.locked \subseteq g.ents /\ g.next \in Nat \ {NoRow}
      /\ g.org \in [Ent -> Orgs] /\ g.hidden \in [Ent -> Int]
      /\ DOMAIN g.rows \subseteq 1..(g.next - 1)
      /\ w \in Ent /\ l \in Ent
  BY DEF WellFormed
<1>5. m.ents \subseteq Ent /\ m.locked \subseteq m.ents
  BY <1>2, <1>4
<1>6. m.org \in [Ent -> Orgs] /\ m.hidden \in [Ent -> Int]
  <2>1. MergedOrg(g, l, w) \in Orgs
    BY <1>4 DEF MergedOrg
  <2>2. org \in [Ent -> Orgs]
    BY <1>4, <2>1, GraphAssumption
  <2>3. hidden \in [Ent -> Int]
    BY <1>4
  <2> QED
    BY <1>2, <2>2, <2>3
<1>7. m.next \in Nat \ {NoRow} /\ DOMAIN m.rows \subseteq 1..(m.next - 1)
  BY <1>2, <1>3, <1>4
<1>8. ASSUME NEW i \in DOMAIN m.rows
      PROVE  /\ i \in DOMAIN g.rows \ Dropped(g, l, w)
             /\ m.rows[i] \in Rows
             /\ m.rows[i].t = Moved(l, w, g.rows[i].t)
             /\ m.rows[i].by = IF g.rows[i].by \in Dropped(g, l, w) THEN NoRow ELSE g.rows[i].by
  <2>1. i \in DOMAIN g.rows \ Dropped(g, l, w) /\ m.rows[i] = MergedRow(g, l, w, i)
    BY <1>3
  <2>2. /\ MergedRow(g, l, w, i) \in Rows
        /\ MergedRow(g, l, w, i).t = Moved(l, w, g.rows[i].t)
        /\ MergedRow(g, l, w, i).by = IF g.rows[i].by \in Dropped(g, l, w) THEN NoRow ELSE g.rows[i].by
    BY <1>4, <2>1, MergedRowFields
  <2> QED
    BY <2>1, <2>2
<1>9. m.rows \in [DOMAIN m.rows -> Rows]
  BY <1>3, <1>8
<1>10. ASSUME NEW i \in DOMAIN m.rows
       PROVE  /\ m.rows[i].t[1] # m.rows[i].t[3]
              /\ m.rows[i].t[1] \in m.ents /\ m.rows[i].t[3] \in m.ents
              /\ m.rows[i].by \in {NoRow} \cup DOMAIN m.rows
  <2>1. /\ g.rows[i].t[1] \in g.ents /\ g.rows[i].t[3] \in g.ents
        /\ g.rows[i].t[1] # g.rows[i].t[3]
        /\ g.rows[i].by \in {NoRow} \cup DOMAIN g.rows
    BY <1>8, TripleParts
  <2>2. /\ m.rows[i].t[1] = Sub(l, w, g.rows[i].t[1])
        /\ m.rows[i].t[3] = Sub(l, w, g.rows[i].t[3])
        /\ i \notin RowsOf(g, l) => m.rows[i].t = g.rows[i].t
    BY <1>8, MovedTriple
  <2>3. m.rows[i].t[1] \in m.ents /\ m.rows[i].t[3] \in m.ents
    BY <1>2, <2>1, <2>2, SubStays
  <2>4. i \in RowsOf(g, l) => m.rows[i].t[1] # m.rows[i].t[3]
    BY <1>8 DEF Dropped
  <2>5. m.rows[i].by \in {NoRow} \cup DOMAIN m.rows
    BY <1>3, <1>8, <2>1
  <2> QED
    BY <2>1, <2>2, <2>3, <2>4, <2>5
<1>11. \A i, j \in DOMAIN m.rows : m.rows[i].t = m.rows[j].t => i = j
  BY <1>8, MovedApart
<1>12. \A p \in m.pairs : \E a, b \in m.ents : a # b /\ p = {a, b}
  BY <1>2, MergedPairsArePairs
<1>13. Sound(m)
  <2>1. UNION m.pairs \subseteq m.ents
    BY <1>12
  <2> QED
    BY <1>10, <2>1 DEF Sound
<1> QED
  BY <1>1, <1>5, <1>6, <1>7, <1>9, <1>10, <1>11, <1>12, <1>13 DEF WellFormed

-----------------------------------------------------------------------------
(* Writing rows. *)

(* What the rows of a graph of these entities are, with ids below nx. *)
GoodRows(R, ents, nx) ==
  /\ R \in [DOMAIN R -> Rows] /\ DOMAIN R \subseteq 1..(nx - 1)
  /\ \A i \in DOMAIN R : /\ R[i].t[1] # R[i].t[3]
                         /\ R[i].t[1] \in ents /\ R[i].t[3] \in ents
                         /\ R[i].by \in {NoRow} \cup DOMAIN R
  /\ \A i, j \in DOMAIN R : R[i].t = R[j].t => i = j

(* A graph has these parts and no others. *)
OfParts(g) == g = [ents |-> g.ents, rows |-> g.rows, next |-> g.next, pairs |-> g.pairs,
                   org |-> g.org, locked |-> g.locked, hidden |-> g.hidden]

(* The rest of a graph. *)
GoodSettings(g) ==
  /\ g.ents \subseteq Ent /\ g.locked \subseteq g.ents
  /\ g.org \in [Ent -> Orgs] /\ g.hidden \in [Ent -> Int]
  /\ \A p \in g.pairs : \E a, b \in g.ents : a # b /\ p = {a, b}

(* A well-formed graph is its parts, each well-formed. *)
LEMMA GraphParts ==
  ASSUME NEW g
  PROVE  WellFormed(g) <=> /\ OfParts(g) /\ GoodSettings(g) /\ g.next \in Nat \ {NoRow}
                           /\ GoodRows(g.rows, g.ents, g.next)
<1>1. ASSUME WellFormed(g)
      PROVE  /\ OfParts(g) /\ GoodSettings(g) /\ g.next \in Nat \ {NoRow}
             /\ GoodRows(g.rows, g.ents, g.next)
  <2>1. OfParts(g) /\ GoodSettings(g) /\ g.next \in Nat \ {NoRow}
    BY <1>1 DEF WellFormed, OfParts, GoodSettings
  <2>2. GoodRows(g.rows, g.ents, g.next)
    BY <1>1 DEF WellFormed, GoodRows, Sound
  <2> QED BY <2>1, <2>2
<1>2. ASSUME OfParts(g), GoodSettings(g), g.next \in Nat \ {NoRow}, GoodRows(g.rows, g.ents, g.next)
      PROVE  WellFormed(g)
  <2>1. UNION g.pairs \subseteq g.ents
    BY <1>2 DEF GoodSettings
  <2>2. Sound(g)
    BY <1>2, <2>1 DEF Sound, GoodRows
  <2> QED BY <1>2, <2>2 DEF WellFormed, OfParts, GoodSettings, GoodRows
<1> QED BY <1>1, <1>2

(* Only rows are written, and ids are never given again. *)
OnlyRows(g, h) ==
  /\ h.ents = g.ents /\ h.pairs = g.pairs /\ h.org = g.org
  /\ h.locked = g.locked /\ h.hidden = g.hidden /\ g.next <= h.next

(* A graph is another one but for its rows. *)
HasRows(h, g, R, nx) ==
  /\ OfParts(h) /\ h.rows = R /\ h.next = nx /\ h.ents = g.ents /\ h.pairs = g.pairs
  /\ h.org = g.org /\ h.locked = g.locked /\ h.hidden = g.hidden

(* Giving a graph other rows and a next id changes nothing else of it. *)
LEMMA NewRows ==
  ASSUME NEW g, NEW R, NEW nx, OfParts(g)
  PROVE  HasRows([g EXCEPT !.rows = R, !.next = nx], g, R, nx)
<1>1. g = [ents |-> g.ents, rows |-> g.rows, next |-> g.next, pairs |-> g.pairs,
           org |-> g.org, locked |-> g.locked, hidden |-> g.hidden]
  BY DEF OfParts
<1>2. SUFFICES ASSUME NEW h, h = [g EXCEPT !.rows = R, !.next = nx]
               PROVE  HasRows(h, g, R, nx)
  OBVIOUS
<1>3. h = [ents |-> g.ents, rows |-> R, next |-> nx, pairs |-> g.pairs,
           org |-> g.org, locked |-> g.locked, hidden |-> g.hidden]
  BY <1>1, <1>2
<1> QED BY <1>3 DEF OfParts, HasRows

(* Nor does giving it other rows alone. *)
LEMMA SetRows ==
  ASSUME NEW g, NEW R, OfParts(g)
  PROVE  HasRows([g EXCEPT !.rows = R], g, R, g.next)
<1>1. g = [ents |-> g.ents, rows |-> g.rows, next |-> g.next, pairs |-> g.pairs,
           org |-> g.org, locked |-> g.locked, hidden |-> g.hidden]
  BY DEF OfParts
<1>2. [g EXCEPT !.rows = R] =
        [ents |-> g.ents, rows |-> R, next |-> g.next, pairs |-> g.pairs,
         org |-> g.org, locked |-> g.locked, hidden |-> g.hidden]
  BY <1>1
<1> QED BY <1>2 DEF OfParts, HasRows

(* With rows that fit its entities, and ids not given before, it stays well-formed. *)
LEMMA NewRowsGood ==
  ASSUME NEW g, NEW R, NEW nx \in Nat \ {NoRow}, NEW h, WellFormed(g), g.next <= nx,
         HasRows(h, g, R, nx), GoodRows(R, g.ents, nx)
  PROVE  WellFormed(h) /\ OnlyRows(g, h)
<1>1. OfParts(g) /\ GoodSettings(g)
  BY GraphParts
<1>2. GoodSettings(h)
  BY <1>1 DEF GoodSettings, HasRows
<1> QED BY <1>2, GraphParts DEF OnlyRows, HasRows

(* Rows keep their triples and get sound pointers. *)
LEMMA RowsEdited ==
  ASSUME NEW g, NEW R, NEW h, WellFormed(g), HasRows(h, g, R, g.next),
         R \in [DOMAIN g.rows -> Rows],
         \A i \in DOMAIN g.rows : /\ R[i].t = g.rows[i].t
                                  /\ R[i].by \in {NoRow} \cup DOMAIN g.rows
  PROVE  WellFormed(h) /\ OnlyRows(g, h)
<1>1. OfParts(g) /\ g.next \in Nat \ {NoRow} /\ GoodRows(g.rows, g.ents, g.next)
  BY GraphParts
<1>2. DOMAIN R = DOMAIN g.rows
  OBVIOUS
<1>3. GoodRows(R, g.ents, g.next)
  BY <1>1, <1>2 DEF GoodRows
<1>5. g.next <= g.next
  BY <1>1
<1> QED BY <1>1, <1>3, <1>5, NewRowsGood

(* The fields of a row. *)
LEMMA ARow ==
  ASSUME NEW r \in Rows
  PROVE  /\ r.t \in Ent \X (Singletons \cup Accumulating) \X Ent /\ r.from \in Nat
         /\ r.ended \in BOOLEAN /\ r.verdict \in {"", "asserted", "rejected"}
         /\ r.by \in Nat /\ r.derived \in BOOLEAN
  BY DEF Rows

(* A row with other standing. *)
LEMMA RowEdited ==
  ASSUME NEW r \in Rows, NEW b \in BOOLEAN, NEW n \in Nat, NEW v \in {"", "asserted", "rejected"},
         NEW d \in BOOLEAN
  PROVE  LET q == [r EXCEPT !.ended = b, !.by = n, !.verdict = v, !.derived = d]
         IN /\ q \in Rows /\ q.t = r.t /\ q.from = r.from
            /\ q.ended = b /\ q.by = n /\ q.verdict = v /\ q.derived = d
  BY DEF Rows

(* One row is written, or inserted under the next id. *)
LEMMA RowWritten ==
  ASSUME NEW g, NEW i \in DOMAIN g.rows \cup {g.next}, NEW r \in Rows, NEW h, WellFormed(g),
         h = WithRow(g, i, r),
         r.t[1] # r.t[3], r.t[1] \in g.ents, r.t[3] \in g.ents,
         r.by \in {NoRow, i} \cup DOMAIN g.rows,
         \A j \in DOMAIN g.rows \ {i} : g.rows[j].t # r.t
  PROVE  /\ WellFormed(h) /\ OnlyRows(g, h)
         /\ DOMAIN h.rows = DOMAIN g.rows \cup {i}
         /\ h.rows[i] = r /\ \A j \in DOMAIN g.rows \ {i} : h.rows[j] = g.rows[j]
<1> DEFINE R == [j \in DOMAIN g.rows \cup {i} |-> IF j = i THEN r ELSE g.rows[j]]
           nx == IF i = g.next THEN i + 1 ELSE g.next
<1>1. OfParts(g) /\ g.next \in Nat \ {NoRow} /\ GoodRows(g.rows, g.ents, g.next)
  BY GraphParts
<1>2. nx \in Nat \ {NoRow} /\ g.next <= nx
  BY <1>1 DEF NoRow
<1>3. DOMAIN g.rows \subseteq 1..(g.next - 1) /\ DOMAIN R = DOMAIN g.rows \cup {i}
  BY <1>1 DEF GoodRows
<1>4. DOMAIN R \subseteq 1..(nx - 1)
  <2>1. CASE i = g.next
    BY <1>1, <1>3, <2>1 DEF NoRow
  <2>2. CASE i # g.next
    BY <1>1, <1>3, <2>2
  <2> QED BY <2>1, <2>2
<1>5. R = [j \in DOMAIN R |-> R[j]] /\ R[i] = r /\ \A j \in DOMAIN g.rows \ {i} : R[j] = g.rows[j]
  OBVIOUS
<1>6. HasRows(h, g, R, nx)
  <2>1. WithRow(g, i, r) = [g EXCEPT !.rows = R, !.next = nx]
    BY Zenon DEF WithRow
  <2>2. HasRows([g EXCEPT !.rows = R, !.next = nx], g, R, nx)
    BY <1>1, NewRows, Zenon
  <2> HIDE DEF R, nx
  <2> QED BY <2>1, <2>2, Zenon
<1> HIDE DEF R, nx
<1>7. \A j \in DOMAIN R : R[j] \in Rows
  BY <1>1, <1>3, <1>5 DEF GoodRows
<1>8. R \in [DOMAIN R -> Rows]
  BY <1>5, <1>7
<1>9. ASSUME NEW j \in DOMAIN R
      PROVE  /\ R[j].t[1] # R[j].t[3]
             /\ R[j].t[1] \in g.ents /\ R[j].t[3] \in g.ents
             /\ R[j].by \in {NoRow} \cup DOMAIN R
  BY <1>1, <1>3, <1>5 DEF GoodRows
<1>10. \A j, k \in DOMAIN R : R[j].t = R[k].t => j = k
  BY <1>1, <1>3, <1>5 DEF GoodRows
<1>11. GoodRows(R, g.ents, nx)
  BY <1>4, <1>8, <1>9, <1>10 DEF GoodRows
<1>12. WellFormed(h) /\ OnlyRows(g, h)
  BY <1>2, <1>6, <1>11, NewRowsGood
<1> QED BY <1>3, <1>5, <1>6, <1>12 DEF HasRows

(* Among finitely many rows one is the newest, so Newest is a row or none. *)
LEMMA NewestIsRow ==
  ASSUME NEW g, WellFormed(g), NEW t
  PROVE  Newest(g, t) \in {NoRow} \cup DOMAIN g.rows
<1> DEFINE real == {i \in Rivals(g, t) : ~g.rows[i].derived}
           newer(i) == {j \in real : ~Older(g, j, i)}
           T == {newer(i) : i \in real}
<1>1. DOMAIN g.rows \subseteq 1..(g.next - 1) /\ g.next \in Nat
      /\ \A i \in DOMAIN g.rows : g.rows[i] \in Rows
  BY DEF WellFormed
<1>2. real \subseteq DOMAIN g.rows
  BY DEF Rivals
<1>3. ASSUME real # {}
      PROVE  \E i \in real : \A j \in real : Older(g, j, i)
  <2>1. IsFiniteSet(1..(g.next - 1))
    BY <1>1, FS_Interval
  <2>2. IsFiniteSet(real)
    BY <1>1, <1>2, <2>1, FS_Subset
  <2>3. \A i \in real : newer(i) \in FiniteSubsetsOf(real)
    BY <2>2, FS_Subset DEF FiniteSubsetsOf
  <2>4. T \subseteq FiniteSubsetsOf(real) /\ T # {}
    BY <1>3, <2>3
  <2>5. PICK x \in T : \A y \in T : ~(<<y, x>> \in StrictSubsetOrdering(real))
    BY <2>4, FS_StrictSubsetOrderingWellFounded, WFMin
  <2>6. PICK i \in real : x = newer(i)
    BY <2>5
  <2>7. ASSUME NEW j \in real, ~Older(g, j, i)
        PROVE  FALSE
    <3>1. \A k \in real : g.rows[k].from \in Nat /\ k \in Nat
      <4> SUFFICES ASSUME NEW k \in real PROVE g.rows[k].from \in Nat /\ k \in Nat
        OBVIOUS
      <4>1. k \in DOMAIN g.rows
        BY <1>2
      <4>2. g.rows[k] \in Rows /\ k \in Nat
        BY <4>1, TripleParts
      <4> QED BY <4>2, ARow
    <3>2. newer(j) \subseteq newer(i)
      <4>1. ASSUME NEW k \in real, ~Older(g, k, j)
            PROVE  ~Older(g, k, i)
        <5> DEFINE fi == g.rows[i].from
                   fj == g.rows[j].from
                   fk == g.rows[k].from
        <5>1. fi \in Nat /\ fj \in Nat /\ fk \in Nat /\ i \in Nat /\ j \in Nat /\ k \in Nat
          BY <3>1
        <5>2. ~(fk < fj \/ (fk = fj /\ k <= j)) /\ ~(fj < fi \/ (fj = fi /\ j <= i))
          BY <2>7, <4>1 DEF Older
        <5> HIDE DEF fi, fj, fk
        <5>3. ~(fk < fi \/ (fk = fi /\ k <= i))
          BY <5>1, <5>2
        <5> QED BY <5>3 DEF Older, fi, fk
      <4> QED BY <4>1
    <3>3. j \in newer(i) /\ j \notin newer(j)
      BY <2>7, <3>1 DEF Older
    <3>4. newer(j) \in SUBSET real /\ newer(i) \in SUBSET real
      OBVIOUS
    <3> HIDE DEF newer, real
    <3>5. <<newer(j), newer(i)>> \in StrictSubsetOrdering(real)
      BY <3>2, <3>3, <3>4 DEF StrictSubsetOrdering
    <3> QED BY <2>5, <2>6, <3>5
  <2> QED BY <2>7
<1> QED BY <1>2, <1>3 DEF Newest

(* A new row, and nothing else, changes by a competition. *)
LEMMA CompetedKeeps ==
  ASSUME NEW g, WellFormed(g), NEW t, NEW id \in DOMAIN g.rows
  PROVE  LET h == Competed(g, t, id)
         IN /\ WellFormed(h) /\ OnlyRows(g, h)
            /\ DOMAIN h.rows = DOMAIN g.rows
            /\ \A i \in DOMAIN g.rows : h.rows[i].t = g.rows[i].t
<1> DEFINE h == Competed(g, t, id)
           top == Newest(g, t)
<1>1. /\ OfParts(g) /\ g.next \in Nat
      /\ \A i \in DOMAIN g.rows : g.rows[i] \in Rows /\ g.rows[i].by \in {NoRow} \cup DOMAIN g.rows
  BY GraphParts DEF GoodRows
<1>2. DOMAIN g.rows \subseteq Nat
  BY GraphParts DEF GoodRows
<1>3. CASE t[2] \notin Singletons
  <2>1. h = g
    BY <1>3 DEF Competed
  <2> QED BY <1>1, <2>1 DEF OnlyRows
<1>4. CASE t[2] \in Singletons /\ top # NoRow /\ g.rows[id].from < g.rows[top].from
  <2> DEFINE R == [g.rows EXCEPT ![id] = [[@ EXCEPT !.ended = TRUE] EXCEPT !.by = top]]
  <2>1. h = [g EXCEPT !.rows = R]
    BY <1>1, <1>4 DEF Competed, OfParts
  <2>2. HasRows(h, g, R, g.next)
    <3> HIDE DEF R, h
    <3> QED BY <1>1, <2>1, SetRows, Zenon
  <2>3. top \in DOMAIN g.rows
    BY <1>4, NewestIsRow
  <2>4. R = [g.rows EXCEPT ![id] = [[g.rows[id] EXCEPT !.ended = TRUE] EXCEPT !.by = top]]
    OBVIOUS
  <2>5. /\ R[id] \in Rows /\ R[id].t = g.rows[id].t /\ R[id].by = top
    <3>1. R[id] = [[g.rows[id] EXCEPT !.ended = TRUE] EXCEPT !.by = top]
      BY <2>4
    <3> HIDE DEF R, top
    <3> QED BY <1>1, <1>2, <2>3, <3>1 DEF Rows
  <2>6. DOMAIN R = DOMAIN g.rows /\ \A i \in DOMAIN g.rows \ {id} : R[i] = g.rows[i]
    OBVIOUS
  <2>7. R = [i \in DOMAIN R |-> R[i]]
    OBVIOUS
  <2> HIDE DEF R, h, top
  <2>8. ASSUME NEW i \in DOMAIN g.rows
        PROVE  R[i] \in Rows /\ R[i].t = g.rows[i].t /\ R[i].by \in {NoRow} \cup DOMAIN g.rows
    BY <1>1, <2>3, <2>5, <2>6
  <2>9. R \in [DOMAIN g.rows -> Rows]
    BY <2>6, <2>7, <2>8
  <2>10. WellFormed(h) /\ OnlyRows(g, h)
    BY <2>2, <2>8, <2>9, RowsEdited
  <2> QED BY <2>2, <2>6, <2>8, <2>10 DEF HasRows, h
<1>5. CASE t[2] \in Singletons /\ ~(top # NoRow /\ g.rows[id].from < g.rows[top].from)
  <2> DEFINE R == [i \in DOMAIN g.rows |->
             IF i \in Rivals(g, t) THEN [g.rows[i] EXCEPT !.ended = TRUE, !.by = id] ELSE g.rows[i]]
  <2>1. h = [g EXCEPT !.rows = R]
    BY <1>5 DEF Competed
  <2>2. HasRows(h, g, R, g.next)
    <3> HIDE DEF R, h
    <3> QED BY <1>1, <2>1, SetRows, Zenon
  <2>3. ASSUME NEW i \in DOMAIN g.rows
        PROVE  R[i] \in Rows /\ R[i].t = g.rows[i].t /\ R[i].by \in {NoRow} \cup DOMAIN g.rows
    <3>1. CASE i \in Rivals(g, t)
      <4>1. R[i] = [g.rows[i] EXCEPT !.ended = TRUE, !.by = id]
        BY <3>1
      <4> HIDE DEF R
      <4> QED BY <1>1, <1>2, <4>1 DEF Rows
    <3>2. CASE i \notin Rivals(g, t)
      BY <1>1, <3>2
    <3> QED BY <3>1, <3>2
  <2>4. DOMAIN R = DOMAIN g.rows /\ R = [i \in DOMAIN R |-> R[i]]
    OBVIOUS
  <2> HIDE DEF R, h
  <2>5. R \in [DOMAIN g.rows -> Rows]
    BY <2>3, <2>4
  <2>6. WellFormed(h) /\ OnlyRows(g, h)
    BY <2>2, <2>3, <2>5, RowsEdited
  <2> QED BY <2>2, <2>3, <2>4, <2>6 DEF HasRows, h
<1> QED BY <1>3, <1>4, <1>5

(* The rows written are only some of the graph's, or new ones. *)
LEMMA OnlyRowsTrans ==
  ASSUME NEW f, NEW g, NEW h, OnlyRows(f, g), OnlyRows(g, h),
         f.next \in Int, g.next \in Int, h.next \in Int
  PROVE  OnlyRows(f, h)
  BY DEF OnlyRows

(* Nothing written at all is a special case. *)
LEMMA OnlyRowsSame == ASSUME NEW g, WellFormed(g) PROVE OnlyRows(g, g)
  BY DEF OnlyRows, WellFormed

(* Of a triple that relates two entities of the graph, a sighting leaves a graph. *)
LEMMA UpsertKeeps ==
  ASSUME NEW g, WellFormed(g), NEW t \in Relations, NEW from \in Nat, t[1] \in g.ents, t[3] \in g.ents
  PROVE  WellFormed(Upserted(g, t, from)) /\ OnlyRows(g, Upserted(g, t, from))
<1> DEFINE id == IdOf(g, t)
           old == g.rows[id]
           fresh == [t |-> t, from |-> from, ended |-> FALSE, verdict |-> "",
                     by |-> NoRow, derived |-> FALSE]
           h == Upserted(g, t, from)
<1>1. /\ t \in Ent \X (Singletons \cup Accumulating) \X Ent /\ t[1] # t[3]
      /\ g.next \in Nat /\ g.next \notin DOMAIN g.rows
  BY DEF Relations, WellFormed
<1>2. fresh \in Rows /\ fresh.t = t /\ fresh.by = NoRow
  BY <1>1 DEF Rows, NoRow
<1>3. id # NoRow => /\ id \in DOMAIN g.rows /\ old \in Rows /\ old.t = t
                    /\ old.by \in {NoRow} \cup DOMAIN g.rows
  BY RowOfTriple, GraphParts DEF GoodRows
<1>4. \A j \in DOMAIN g.rows : g.rows[j].t = t => j = id
  BY RowOfTriple
<1>5. CASE id = NoRow
  <2>1. \A j \in DOMAIN g.rows : g.rows[j].t # t
    BY <1>5, RowOfTriple
  <2> DEFINE f == WithRow(g, g.next, fresh)
  <2>2. h = Competed(f, t, g.next)
    BY <1>5 DEF Upserted
  <2>3. WellFormed(f) /\ OnlyRows(g, f) /\ g.next \in DOMAIN f.rows
    <3> HIDE DEF fresh
    <3> QED BY <1>1, <1>2, <2>1, RowWritten
  <2> HIDE DEF f, h
  <2>4. WellFormed(h) /\ OnlyRows(f, h)
    BY <2>2, <2>3, CompetedKeeps
  <2>5. g.next \in Int /\ f.next \in Int /\ h.next \in Int
    BY <2>3, <2>4 DEF WellFormed
  <2> QED BY <2>3, <2>4, <2>5, OnlyRowsTrans DEF h
<1>6. CASE id # NoRow /\ ~old.ended
  <2> DEFINE r == [old EXCEPT !.derived = FALSE]
  <2>1. h = WithRow(g, id, r)
    BY <1>6 DEF Upserted
  <2>2. r \in Rows /\ r.t = t /\ r.by = old.by
    BY <1>3, <1>6 DEF Rows
  <2> HIDE DEF r, h
  <2>3. WellFormed(h) /\ OnlyRows(g, h)
    BY <1>1, <1>3, <1>4, <1>6, <2>1, <2>2, RowWritten
  <2> QED BY <2>3 DEF h
<1>7. CASE id # NoRow /\ old.ended /\ old.verdict = "rejected"
  <2>1. h = g
    BY <1>7 DEF Upserted
  <2> QED BY <2>1, OnlyRowsSame
<1>8. CASE id # NoRow /\ old.ended /\ old.verdict # "rejected"
  <2> DEFINE r == [fresh EXCEPT !.verdict = old.verdict]
             f == WithRow(g, id, r)
  <2>1. h = Competed(f, t, id)
    BY <1>8 DEF Upserted
  <2>2. old.verdict \in {"", "asserted", "rejected"}
    BY <1>3, <1>8, ARow
  <2>3. r \in Rows /\ r.t = t /\ r.by = NoRow
    BY <1>1, <2>2 DEF Rows, NoRow
  <2> HIDE DEF r
  <2>4. WellFormed(f) /\ OnlyRows(g, f) /\ id \in DOMAIN f.rows
    BY <1>1, <1>3, <1>4, <1>8, <2>3, RowWritten
  <2> HIDE DEF f, h
  <2>5. WellFormed(h) /\ OnlyRows(f, h)
    BY <2>1, <2>4, CompetedKeeps
  <2>6. g.next \in Int /\ f.next \in Int /\ h.next \in Int
    BY <2>4, <2>5 DEF WellFormed
  <2> QED BY <2>4, <2>5, <2>6, OnlyRowsTrans DEF h
<1> QED BY <1>5, <1>6, <1>7, <1>8

(* So does derived content. *)
LEMMA DerivedKeeps ==
  ASSUME NEW g, WellFormed(g), NEW t \in Relations, NEW from \in Nat, t[1] \in g.ents, t[3] \in g.ents
  PROVE  WellFormed(Derived(g, t, from)) /\ OnlyRows(g, Derived(g, t, from))
<1> DEFINE r == [t |-> t, from |-> from, ended |-> FALSE, verdict |-> "", by |-> NoRow, derived |-> TRUE]
<1>1. /\ t \in Ent \X (Singletons \cup Accumulating) \X Ent /\ t[1] # t[3]
  BY DEF Relations
<1>2. r \in Rows /\ r.t = t /\ r.by = NoRow
  BY <1>1 DEF Rows, NoRow
<1>3. CASE IdOf(g, t) # NoRow
  BY <1>3, OnlyRowsSame DEF Derived
<1>4. CASE IdOf(g, t) = NoRow
  <2>1. \A j \in DOMAIN g.rows : g.rows[j].t # t
    BY <1>4, RowOfTriple
  <2>2. Derived(g, t, from) = WithRow(g, g.next, r)
    BY <1>4 DEF Derived
  <2> HIDE DEF r
  <2> QED BY <1>1, <1>2, <2>1, <2>2, RowWritten
<1> QED BY <1>3, <1>4

-----------------------------------------------------------------------------
(* Applying and undoing one correction. *)

(* One row gets another standing. *)
LEMMA OneRowEdited ==
  ASSUME NEW g, WellFormed(g), NEW id, NEW q,
         id \in DOMAIN g.rows => /\ q \in Rows /\ q.t = g.rows[id].t
                                 /\ q.by \in {NoRow} \cup DOMAIN g.rows
  PROVE  LET h == [g EXCEPT !.rows = [g.rows EXCEPT ![id] = q]]
         IN /\ WellFormed(h) /\ OnlyRows(g, h) /\ DOMAIN h.rows = DOMAIN g.rows
            /\ \A i \in DOMAIN g.rows : h.rows[i] = IF i = id THEN q ELSE g.rows[i]
<1> DEFINE R == [g.rows EXCEPT ![id] = q]
           h == [g EXCEPT !.rows = R]
<1>1. OfParts(g) /\ GoodRows(g.rows, g.ents, g.next)
  BY GraphParts
<1>2. HasRows(h, g, R, g.next)
  <2> HIDE DEF R
  <2> QED BY <1>1, SetRows, Zenon
<1>3. /\ DOMAIN R = DOMAIN g.rows /\ R = [i \in DOMAIN R |-> R[i]]
      /\ \A i \in DOMAIN g.rows : R[i] = IF i = id THEN q ELSE g.rows[i]
  OBVIOUS
<1> HIDE DEF R, h
<1>4. ASSUME NEW i \in DOMAIN g.rows
      PROVE  R[i] \in Rows /\ R[i].t = g.rows[i].t /\ R[i].by \in {NoRow} \cup DOMAIN g.rows
  BY <1>1, <1>3 DEF GoodRows
<1>5. R \in [DOMAIN g.rows -> Rows]
  BY <1>3, <1>4
<1>6. WellFormed(h) /\ OnlyRows(g, h)
  BY <1>2, <1>4, <1>5, RowsEdited
<1> QED BY <1>2, <1>3, <1>6 DEF HasRows, h, R

(* A rejection leaves a graph; it has seen the row. *)
LEMMA RejectKeeps ==
  ASSUME NEW g, WellFormed(g), NEW p, NEW done \in ApplyReject(g, p)
  PROVE  /\ WellFormed(done.graph) /\ OnlyRows(g, done.graph)
         /\ done.snap.was \in Rows
<1> DEFINE id == IdOf(g, p.t)
           q == [[g.rows[id] EXCEPT !.ended = TRUE] EXCEPT !.verdict = "rejected"]
           h == [g EXCEPT !.rows = [g.rows EXCEPT ![id] = q]]
<1>1. id # NoRow /\ done = [graph |-> [g EXCEPT !.rows[id].ended = TRUE, !.rows[id].verdict = "rejected"],
                            snap |-> [id |-> id, was |-> g.rows[id]]]
  BY DEF ApplyReject
<1>2. id \in DOMAIN g.rows /\ g.rows[id] \in Rows /\ g.rows[id].by \in {NoRow} \cup DOMAIN g.rows
  BY <1>1, RowOfTriple, TripleParts
<1>3. OfParts(g)
  BY GraphParts
<1>4. [g EXCEPT !.rows[id].ended = TRUE, !.rows[id].verdict = "rejected"] = h
  BY <1>2, <1>3 DEF OfParts
<1>5. q \in Rows /\ q.t = g.rows[id].t /\ q.by = g.rows[id].by
  BY <1>2 DEF Rows
<1>6. WellFormed(h) /\ OnlyRows(g, h)
  <2> HIDE DEF q, id
  <2> QED BY <1>2, <1>5, OneRowEdited
<1>7. done.graph = h /\ done.snap.was = g.rows[id]
  BY <1>1, <1>4, Zenon
<1> QED BY <1>2, <1>6, <1>7, Zenon

(* So does an assertion; it has seen what it changes. *)
LEMMA AssertKeeps ==
  ASSUME NEW g, WellFormed(g), NEW p, p.op = "assert", p.t \in Ent \X (Singletons \cup Accumulating) \X Ent,
         p.from \in Nat, NEW done \in ApplyAssert(g, p)
  PROVE  /\ WellFormed(done.graph) /\ OnlyRows(g, done.graph)
         /\ done.snap.prior # <<>> => Head(done.snap.prior) \in Rows
         /\ \A i \in DOMAIN done.snap.rivals : done.snap.rivals[i] \in Rows
<1> DEFINE prior == IdOf(g, p.t)
           lifted == IF prior # NoRow /\ g.rows[prior].verdict = "rejected"
                     THEN [g EXCEPT !.rows[prior].verdict = ""] ELSE g
           up == Upserted(lifted, p.t, p.from)
           id == IdOf(up, p.t)
           retired == {i \in Rivals(g, p.t) : up.rows[i].by = id}
           h == [up EXCEPT !.rows[id].verdict = "asserted", !.rows[id].derived = FALSE]
           seen == IF prior = NoRow THEN <<>> ELSE <<g.rows[prior]>>
           rivals == [i \in retired |-> g.rows[i]]
<1>1. EntitiesOf(p) \subseteq g.ents /\ p.t[1] # p.t[3]
  BY DEF ApplyAssert
<1>2. done = [graph |-> h, snap |-> [id |-> id, prior |-> seen, rivals |-> rivals]]
  BY Zenon DEF ApplyAssert
<1>3. p.t \in Relations /\ p.t[1] \in g.ents /\ p.t[3] \in g.ents
  BY <1>1 DEF Relations, EntitiesOf
<1>4. prior # NoRow => /\ prior \in DOMAIN g.rows /\ g.rows[prior] \in Rows
                       /\ g.rows[prior].by \in {NoRow} \cup DOMAIN g.rows
  BY RowOfTriple, TripleParts
<1>5. WellFormed(lifted) /\ OnlyRows(g, lifted)
  <2>1. CASE prior # NoRow /\ g.rows[prior].verdict = "rejected"
    <3> DEFINE q == [g.rows[prior] EXCEPT !.verdict = ""]
    <3>1. OfParts(g)
      BY GraphParts
    <3>2. lifted = [g EXCEPT !.rows = [g.rows EXCEPT ![prior] = q]]
      BY <2>1, <3>1 DEF OfParts
    <3>3. q \in Rows /\ q.t = g.rows[prior].t /\ q.by = g.rows[prior].by
      BY <1>4, <2>1 DEF Rows
    <3> HIDE DEF q, prior, lifted
    <3> QED BY <1>4, <2>1, <3>2, <3>3, OneRowEdited
  <2>2. CASE ~(prior # NoRow /\ g.rows[prior].verdict = "rejected")
    <3>1. lifted = g
      BY <2>2
    <3> QED BY <3>1, OnlyRowsSame
  <2> QED BY <2>1, <2>2
<1> HIDE DEF lifted
<1>6. lifted.ents = g.ents
  BY <1>5 DEF OnlyRows
<1>7. WellFormed(up) /\ OnlyRows(lifted, up)
  BY <1>3, <1>5, <1>6, UpsertKeeps
<1> HIDE DEF up
<1>8. WellFormed(h) /\ OnlyRows(up, h)
  <2> DEFINE q == [[up.rows[id] EXCEPT !.verdict = "asserted"] EXCEPT !.derived = FALSE]
  <2>1. OfParts(up)
    BY <1>7, GraphParts
  <2>2. h = [up EXCEPT !.rows = [up.rows EXCEPT ![id] = q]]
    BY <2>1 DEF OfParts
  <2>3. id \in DOMAIN up.rows => /\ up.rows[id] \in Rows
                                 /\ up.rows[id].by \in {NoRow} \cup DOMAIN up.rows
    BY <1>7, TripleParts
  <2>4. id \in DOMAIN up.rows => q \in Rows /\ q.t = up.rows[id].t /\ q.by = up.rows[id].by
    BY <2>3 DEF Rows
  <2> HIDE DEF q, id, h
  <2> QED BY <1>7, <2>2, <2>3, <2>4, OneRowEdited
<1> HIDE DEF h
<1>9. OnlyRows(g, h)
  <2>1. g.next \in Int /\ lifted.next \in Int /\ up.next \in Int /\ h.next \in Int
    BY <1>5, <1>7, <1>8 DEF WellFormed
  <2> QED BY <1>5, <1>7, <1>8, <2>1, OnlyRowsTrans
<1>10. seen # <<>> => Head(seen) \in Rows
  BY <1>4
<1>11. \A i \in DOMAIN rivals : rivals[i] \in Rows
  BY DEF Rivals, WellFormed
<1> HIDE DEF seen, rivals
<1>12. done.graph = h /\ done.snap.prior = seen /\ done.snap.rivals = rivals
  BY <1>2
<1> QED BY <1>8, <1>9, <1>10, <1>11, <1>12

(* The settings of entities are left alone, and ids are never given again. *)
SettingsKept(g, h) ==
  /\ h.ents = g.ents /\ h.org = g.org /\ h.locked = g.locked /\ h.hidden = g.hidden
  /\ g.next <= h.next

(* Telling two entities apart writes a pair and nothing else. *)
LEMMA DistinctionKeeps ==
  ASSUME NEW g, WellFormed(g), NEW p, p.pair \in Pairs, NEW done \in ApplyNotSame(g, p)
  PROVE  WellFormed(done.graph) /\ SettingsKept(g, done.graph)
<1> DEFINE h == [g EXCEPT !.pairs = @ \cup {p.pair}]
<1>1. done = [graph |-> h, snap |-> NoSnap] /\ p.pair \subseteq g.ents
  BY DEF ApplyNotSame
<1>2. OfParts(g) /\ GoodSettings(g) /\ g.next \in Nat \ {NoRow} /\ GoodRows(g.rows, g.ents, g.next)
  BY GraphParts
<1>3. g = [ents |-> g.ents, rows |-> g.rows, next |-> g.next, pairs |-> g.pairs,
           org |-> g.org, locked |-> g.locked, hidden |-> g.hidden]
  BY <1>2 DEF OfParts
<1>4. h = [ents |-> g.ents, rows |-> g.rows, next |-> g.next, pairs |-> g.pairs \cup {p.pair},
           org |-> g.org, locked |-> g.locked, hidden |-> g.hidden]
  BY <1>3
<1> HIDE DEF h
<1>5. /\ OfParts(h) /\ h.ents = g.ents /\ h.rows = g.rows /\ h.next = g.next
      /\ h.pairs = g.pairs \cup {p.pair}
      /\ h.org = g.org /\ h.locked = g.locked /\ h.hidden = g.hidden
  BY <1>4 DEF OfParts
<1>6. \E a, b \in g.ents : a # b /\ p.pair = {a, b}
  BY <1>1 DEF Pairs
<1>7. GoodSettings(h)
  BY <1>2, <1>5, <1>6 DEF GoodSettings
<1>8. WellFormed(h)
  BY <1>2, <1>5, <1>7, GraphParts
<1>9. SettingsKept(g, h)
  BY <1>2, <1>5 DEF SettingsKept
<1> QED BY <1>1, <1>8, <1>9

(* A graph with other settings of one entity. *)
HasSettings(h, g, org, locked, hidden) ==
  /\ OfParts(h) /\ h.ents = g.ents /\ h.rows = g.rows /\ h.next = g.next /\ h.pairs = g.pairs
  /\ h.org = org /\ h.locked = locked /\ h.hidden = hidden

(* With settings of its entities a graph stays well-formed. *)
LEMMA SettingsGood ==
  ASSUME NEW g, WellFormed(g), NEW org \in [Ent -> Orgs], NEW locked \in SUBSET g.ents,
         NEW hidden \in [Ent -> Int], NEW h, HasSettings(h, g, org, locked, hidden)
  PROVE  WellFormed(h)
<1>1. OfParts(g) /\ GoodSettings(g) /\ g.next \in Nat \ {NoRow} /\ GoodRows(g.rows, g.ents, g.next)
  BY GraphParts
<1>2. GoodSettings(h)
  BY <1>1 DEF GoodSettings, HasSettings
<1> QED BY <1>1, <1>2, GraphParts DEF HasSettings

(* Writing an org, with or without its lock, changes nothing else. *)
LEMMA SetOrg ==
  ASSUME NEW g, OfParts(g), NEW e, NEW v, NEW L
  PROVE  /\ HasSettings([g EXCEPT !.org[e] = v, !.locked = L], g, [g.org EXCEPT ![e] = v], L, g.hidden)
         /\ HasSettings([g EXCEPT !.org[e] = v], g, [g.org EXCEPT ![e] = v], g.locked, g.hidden)
<1>1. g = [ents |-> g.ents, rows |-> g.rows, next |-> g.next, pairs |-> g.pairs,
           org |-> g.org, locked |-> g.locked, hidden |-> g.hidden]
  BY DEF OfParts
<1>2. ASSUME NEW h, h = [g EXCEPT !.org[e] = v, !.locked = L]
      PROVE  HasSettings(h, g, [g.org EXCEPT ![e] = v], L, g.hidden)
  <2> DEFINE org == [g.org EXCEPT ![e] = v]
  <2>1. h = [g EXCEPT !.org = org, !.locked = L]
    BY <1>1, <1>2
  <2> HIDE DEF org
  <2>2. h = [ents |-> g.ents, rows |-> g.rows, next |-> g.next, pairs |-> g.pairs,
             org |-> org, locked |-> L, hidden |-> g.hidden]
    BY <1>1, <2>1
  <2>3. HasSettings(h, g, org, L, g.hidden)
    BY <2>2 DEF HasSettings, OfParts
  <2> QED BY <2>3 DEF org
<1>3. ASSUME NEW h, h = [g EXCEPT !.org[e] = v]
      PROVE  HasSettings(h, g, [g.org EXCEPT ![e] = v], g.locked, g.hidden)
  <2> DEFINE org == [g.org EXCEPT ![e] = v]
  <2>1. h = [g EXCEPT !.org = org]
    BY <1>1, <1>3
  <2> HIDE DEF org
  <2>2. h = [ents |-> g.ents, rows |-> g.rows, next |-> g.next, pairs |-> g.pairs,
             org |-> org, locked |-> g.locked, hidden |-> g.hidden]
    BY <1>1, <2>1
  <2>3. HasSettings(h, g, org, g.locked, g.hidden)
    BY <2>2 DEF HasSettings, OfParts
  <2> QED BY <2>3 DEF org
<1> QED BY <1>2, <1>3

(* Nor does hiding an entity. *)
LEMMA SetHidden ==
  ASSUME NEW g, OfParts(g), NEW e, NEW v
  PROVE  HasSettings([g EXCEPT !.hidden[e] = v], g, g.org, g.locked, [g.hidden EXCEPT ![e] = v])
<1>1. g = [ents |-> g.ents, rows |-> g.rows, next |-> g.next, pairs |-> g.pairs,
           org |-> g.org, locked |-> g.locked, hidden |-> g.hidden]
  BY DEF OfParts
<1>2. SUFFICES ASSUME NEW h, h = [g EXCEPT !.hidden[e] = v]
               PROVE  HasSettings(h, g, g.org, g.locked, [g.hidden EXCEPT ![e] = v])
  OBVIOUS
<1> DEFINE hidden == [g.hidden EXCEPT ![e] = v]
<1>3. h = [g EXCEPT !.hidden = hidden]
  BY <1>1, <1>2
<1> HIDE DEF hidden
<1>4. h = [ents |-> g.ents, rows |-> g.rows, next |-> g.next, pairs |-> g.pairs,
           org |-> g.org, locked |-> g.locked, hidden |-> hidden]
  BY <1>1, <1>3
<1>5. HasSettings(h, g, g.org, g.locked, hidden)
  BY <1>4 DEF HasSettings, OfParts
<1> QED BY <1>5 DEF hidden

(* What a correction of a field writes, and sees. *)
LEMMA SetFieldKeeps ==
  ASSUME NEW g, WellFormed(g), NEW p, p.e \in Ent, p.org \in Orgs, NEW done \in ApplySetField(g, p)
  PROVE  LET h == done.graph
         IN /\ WellFormed(h)
            /\ p.e \in g.ents /\ done.snap.was = g.org[p.e] /\ done.snap.hadLock = (p.e \in g.locked)
            /\ h.ents = g.ents /\ h.next = g.next /\ h.hidden = g.hidden
            /\ h.org = [g.org EXCEPT ![p.e] = p.org] /\ h.locked = g.locked \cup {p.e}
<1> DEFINE h == [g EXCEPT !.org[p.e] = p.org, !.locked = g.locked \cup {p.e}]
           had == p.e \in g.locked
<1>1. OfParts(g) /\ g.org \in [Ent -> Orgs] /\ g.locked \subseteq g.ents
  BY GraphParts DEF GoodSettings
<1>2. p.e \in g.ents /\ done = [graph |-> [g EXCEPT !.org[p.e] = p.org, !.locked = @ \cup {p.e}],
                                snap |-> [was |-> g.org[p.e], hadLock |-> had]]
  BY DEF ApplySetField
<1>3. done = [graph |-> h, snap |-> [was |-> g.org[p.e], hadLock |-> had]]
  BY <1>1, <1>2 DEF OfParts
<1>4. HasSettings(h, g, [g.org EXCEPT ![p.e] = p.org], g.locked \cup {p.e}, g.hidden)
  BY <1>1, SetOrg, Zenon
<1> HIDE DEF h, had
<1>5. [g.org EXCEPT ![p.e] = p.org] \in [Ent -> Orgs] /\ g.locked \cup {p.e} \in SUBSET g.ents
  BY <1>1, <1>2
<1>6. g.hidden \in [Ent -> Int]
  BY GraphParts DEF GoodSettings
<1>7. WellFormed(h)
  BY <1>4, <1>5, <1>6, SettingsGood
<1>8. done.graph = h /\ done.snap.was = g.org[p.e] /\ done.snap.hadLock = had
  BY <1>3
<1> QED BY <1>2, <1>4, <1>7, <1>8 DEF HasSettings, had

(* What a hide writes, and sees. *)
LEMMA HideKeeps ==
  ASSUME NEW g, WellFormed(g), NEW p, p.e \in Ent, NEW order \in Nat, NEW done \in ApplyHide(g, p, order)
  PROVE  LET h == done.graph
         IN /\ WellFormed(h)
            /\ p.e \in g.ents /\ done.snap.was = g.hidden[p.e] /\ done.snap.wrote = order
            /\ h.ents = g.ents /\ h.next = g.next /\ h.org = g.org /\ h.locked = g.locked
            /\ h.hidden = [g.hidden EXCEPT ![p.e] = order]
<1> DEFINE h == [g EXCEPT !.hidden[p.e] = order]
<1>1. OfParts(g) /\ g.org \in [Ent -> Orgs] /\ g.locked \subseteq g.ents /\ g.hidden \in [Ent -> Int]
  BY GraphParts DEF GoodSettings
<1>2. p.e \in g.ents /\ done = [graph |-> h, snap |-> [was |-> g.hidden[p.e], wrote |-> order]]
  BY DEF ApplyHide
<1>3. HasSettings(h, g, g.org, g.locked, [g.hidden EXCEPT ![p.e] = order])
  BY <1>1, SetHidden, Zenon
<1> HIDE DEF h
<1>4. [g.hidden EXCEPT ![p.e] = order] \in [Ent -> Int]
  BY <1>1
<1>5. WellFormed(h)
  BY <1>1, <1>3, <1>4, SettingsGood
<1>6. done.graph = h /\ done.snap.was = g.hidden[p.e] /\ done.snap.wrote = order
  BY <1>2
<1> QED BY <1>2, <1>3, <1>5, <1>6 DEF HasSettings

(* What a merge writes to the settings. *)
LEMMA MergedEffect ==
  ASSUME NEW g, WellFormed(g), NEW l \in g.ents, NEW w \in g.ents, l # w, NEW h, h = Merged(g, l, w)
  PROVE  /\ WellFormed(h) /\ h.ents = g.ents \ {l} /\ h.next = g.next
         /\ h.org = [[g.org EXCEPT ![w] = MergedOrg(g, l, w)] EXCEPT ![l] = Blank]
         /\ h.locked = g.locked \ {l} /\ h.hidden = [g.hidden EXCEPT ![l] = 0]
<1> DEFINE org == [[g.org EXCEPT ![w] = MergedOrg(g, l, w)] EXCEPT ![l] = Blank]
           hidden == [g.hidden EXCEPT ![l] = 0]
           pairs == MergedPairs(g, l, w)
<1>1. h = [ents |-> g.ents \ {l}, rows |-> h.rows, next |-> g.next, pairs |-> pairs,
           org |-> org, locked |-> g.locked \ {l}, hidden |-> hidden]
  BY MergedParts
<1> HIDE DEF org, hidden, pairs
<1>2. /\ h.ents = g.ents \ {l} /\ h.next = g.next /\ h.org = org
      /\ h.locked = g.locked \ {l} /\ h.hidden = hidden
  BY <1>1
<1> QED BY <1>2, MergeKeepsWellFormed DEF org, hidden

(* The other one of a pair. *)
LEMMA OtherOfPair ==
  ASSUME NEW pair \in Pairs, NEW l \in pair
  PROVE  LET w == CHOOSE x \in pair : x # l
         IN w \in pair /\ w # l /\ pair = {l, w} /\ l \in Ent /\ w \in Ent
<1>1. PICK a, b \in pair : a # b /\ pair = {a, b}
  BY DEF Pairs
<1>2. \E x \in pair : x # l
  BY <1>1
<1> DEFINE w == CHOOSE x \in pair : x # l
<1>3. w \in pair /\ w # l
  BY <1>2
<1> HIDE DEF w
<1> QED BY <1>1, <1>3 DEF Pairs, w

(* What a merge of the user keeps for its undo. *)
MergeSnap(s, nx) ==
  /\ s.loser \in Ent /\ s.winner \in Ent /\ s.loser # s.winner
  /\ DOMAIN s.rows \subseteq 1..(nx - 1) /\ DOMAIN s.copies \subseteq 1..(nx - 1)
  /\ \A i \in DOMAIN s.rows : /\ s.rows[i] \in Rows /\ s.rows[i].t[1] # s.rows[i].t[3]
                              /\ s.loser \in {s.rows[i].t[1], s.rows[i].t[3]}
  /\ \A i, j \in DOMAIN s.rows : s.rows[i].t = s.rows[j].t => i = j
  /\ \A i \in DOMAIN s.copies : /\ s.copies[i] \in Rows
                                /\ s.winner \in {s.copies[i].t[1], s.copies[i].t[3]}
  /\ \A i \in DOMAIN s.pointers : s.pointers[i] \in Nat
  /\ \A p \in s.pairs : s.loser \in p /\ \E a, b \in Ent : a # b /\ p = {a, b}
  /\ s.loserOrg \in Orgs /\ s.winnerOrg \in Orgs /\ s.hidden \in Int /\ s.locked \in BOOLEAN

(* The snapshot of a merge is what its undo will want. *)
LEMMA SnapshotGood ==
  ASSUME NEW g, WellFormed(g), NEW l \in g.ents, NEW w \in g.ents, l # w, NEW s, s = Snapshot(g, l, w)
  PROVE  MergeSnap(s, g.next)
<1>1. /\ s.loser = l /\ s.winner = w
      /\ DOMAIN s.rows = RowsOf(g, l) /\ \A i \in RowsOf(g, l) : s.rows[i] = g.rows[i]
      /\ DOMAIN s.copies = Copies(g, l, w) /\ \A i \in Copies(g, l, w) : s.copies[i] = g.rows[i]
      /\ DOMAIN s.pointers = {j \in DOMAIN g.rows \ (RowsOf(g, l) \cup Copies(g, l, w)) :
                              g.rows[j].by \in RowsOf(g, l)}
      /\ \A i \in DOMAIN s.pointers : s.pointers[i] = g.rows[i].by
      /\ s.pairs = PairsOf(g, l) /\ s.winnerPairs = PairsOf(g, w)
      /\ s.locked = (l \in g.locked)
      /\ s.hidden = g.hidden[l]
      /\ s.loserOrg = g.org[l] /\ s.winnerOrg = g.org[w] /\ s.orgAfter = MergedOrg(g, l, w)
  BY SnapshotParts
<1>2. OfParts(g) /\ GoodSettings(g) /\ g.next \in Nat \ {NoRow} /\ GoodRows(g.rows, g.ents, g.next)
  BY GraphParts
<1>3. l \in Ent /\ w \in Ent /\ s.loser # s.winner
  BY <1>1, <1>2 DEF GoodSettings
<1>4. RowsOf(g, l) \subseteq DOMAIN g.rows /\ Copies(g, l, w) \subseteq DOMAIN g.rows
  BY DEF RowsOf, Copies
<1>5. DOMAIN s.rows \subseteq 1..(g.next - 1) /\ DOMAIN s.copies \subseteq 1..(g.next - 1)
  <2>1. DOMAIN g.rows \subseteq 1..(g.next - 1)
    BY <1>2 DEF GoodRows
  <2> QED BY <1>1, <1>4, <2>1
<1>6. ASSUME NEW i \in DOMAIN s.rows
      PROVE  /\ s.rows[i] \in Rows /\ s.rows[i].t[1] # s.rows[i].t[3]
             /\ s.loser \in {s.rows[i].t[1], s.rows[i].t[3]}
  <2>1. i \in RowsOf(g, l) /\ i \in DOMAIN g.rows /\ s.rows[i] = g.rows[i]
    BY <1>1, <1>4
  <2>2. l \in {g.rows[i].t[1], g.rows[i].t[3]}
    BY <2>1 DEF RowsOf
  <2> QED BY <1>1, <2>1, <2>2, TripleParts
<1>7. \A i, j \in DOMAIN s.rows : s.rows[i].t = s.rows[j].t => i = j
  BY <1>1, <1>2, <1>4 DEF GoodRows
<1>8. ASSUME NEW i \in DOMAIN s.copies
      PROVE  s.copies[i] \in Rows /\ w \in {s.copies[i].t[1], s.copies[i].t[3]}
  <2>1. i \in DOMAIN g.rows /\ s.copies[i] = g.rows[i] /\ i \in Copies(g, l, w)
    BY <1>1, <1>4
  <2>2. PICK j \in RowsOf(g, l) : g.rows[i].t = Moved(l, w, g.rows[j].t)
    BY <2>1 DEF Copies
  <2>3. j \in DOMAIN g.rows /\ l \in {g.rows[j].t[1], g.rows[j].t[3]}
    BY <2>2 DEF RowsOf
  <2>4. w \in {Moved(l, w, g.rows[j].t)[1], Moved(l, w, g.rows[j].t)[3]}
    BY <2>3, MovedTriple DEF Sub
  <2> QED BY <2>1, <2>2, <2>4, TripleParts
<1>9. \A i \in DOMAIN s.pointers : s.pointers[i] \in Nat
  <2>1. SUFFICES ASSUME NEW i \in DOMAIN s.pointers
                 PROVE  s.pointers[i] \in Nat
    OBVIOUS
  <2>2. i \in DOMAIN g.rows /\ s.pointers[i] = g.rows[i].by
    BY <1>1
  <2> QED BY <2>2, TripleParts, ARow
<1>10. \A p \in s.pairs : s.loser \in p /\ \E a, b \in Ent : a # b /\ p = {a, b}
  BY <1>1, <1>2 DEF PairsOf, GoodSettings
<1>11. s.loserOrg \in Orgs /\ s.winnerOrg \in Orgs /\ s.hidden \in Int /\ s.locked \in BOOLEAN
  BY <1>1, <1>2, <1>3 DEF GoodSettings
<1> QED BY <1>1, <1>3, <1>5, <1>6, <1>7, <1>8, <1>9, <1>10, <1>11 DEF MergeSnap

(* What a merge of the user writes, and keeps for its undo. *)
LEMMA MergeKeeps ==
  ASSUME NEW g, WellFormed(g), NEW p, p.pair \in Pairs, NEW done \in ApplyMerge(g, p)
  PROVE  LET h == done.graph
             s == done.snap
             l == s.loser
             w == s.winner
         IN /\ l \in p.pair /\ w \in p.pair /\ l # w /\ l \in g.ents /\ w \in g.ents
            /\ WellFormed(h) /\ MergeSnap(s, g.next)
            /\ s.locked = (l \in g.locked) /\ s.hidden = g.hidden[l]
            /\ s.loserOrg = g.org[l] /\ s.winnerOrg = g.org[w] /\ s.orgAfter = MergedOrg(g, l, w)
            /\ h.ents = g.ents \ {l} /\ h.next = g.next
            /\ h.org = [[g.org EXCEPT ![w] = s.orgAfter] EXCEPT ![l] = Blank]
            /\ h.locked = g.locked \ {l} /\ h.hidden = [g.hidden EXCEPT ![l] = 0]
<1>1. /\ p.pair \subseteq g.ents
      /\ \E x \in p.pair : done = [graph |-> Merged(g, x, CHOOSE w \in p.pair : w # x),
                                   snap |-> Snapshot(g, x, CHOOSE w \in p.pair : w # x)]
  BY DEF ApplyMerge
<1>2. PICK l \in p.pair : done = [graph |-> Merged(g, l, CHOOSE w \in p.pair : w # l),
                                  snap |-> Snapshot(g, l, CHOOSE w \in p.pair : w # l)]
  BY <1>1
<1> DEFINE w == CHOOSE x \in p.pair : x # l
           h == Merged(g, l, w)
           s == Snapshot(g, l, w)
<1>3. w \in p.pair /\ w # l /\ l \in g.ents /\ w \in g.ents
  BY <1>1, OtherOfPair
<1>4. done.graph = h /\ done.snap = s
  BY <1>2
<1> HIDE DEF w
<1>5. /\ WellFormed(h) /\ h.ents = g.ents \ {l} /\ h.next = g.next
      /\ h.org = [[g.org EXCEPT ![w] = MergedOrg(g, l, w)] EXCEPT ![l] = Blank]
      /\ h.locked = g.locked \ {l} /\ h.hidden = [g.hidden EXCEPT ![l] = 0]
  BY <1>3, MergedEffect
<1>6. MergeSnap(s, g.next)
  BY <1>3, SnapshotGood
<1>7. /\ s.loser = l /\ s.winner = w /\ s.locked = (l \in g.locked)
      /\ s.hidden = g.hidden[l]
      /\ s.loserOrg = g.org[l] /\ s.winnerOrg = g.org[w] /\ s.orgAfter = MergedOrg(g, l, w)
  BY SnapshotParts
<1> HIDE DEF h, s
<1> QED BY <1>3, <1>4, <1>5, <1>6, <1>7

(* Rows of the graph, some gone, with their triples. *)
Restood(R, g) ==
  /\ R = [i \in DOMAIN R |-> R[i]] /\ DOMAIN R \subseteq DOMAIN g.rows
  /\ \A i \in DOMAIN R : R[i] \in Rows /\ R[i].t = g.rows[i].t

(* When the foreign keys hold, they are a graph's. *)
LEMMA RestoodKeeps ==
  ASSUME NEW g, WellFormed(g), NEW R, Restood(R, g), NEW h, HasRows(h, g, R, g.next), Sound(h)
  PROVE  WellFormed(h) /\ SettingsKept(g, h)
<1>1. g.next \in Nat \ {NoRow} /\ GoodRows(g.rows, g.ents, g.next)
  BY GraphParts
<1>2. h.rows = R /\ h.ents = g.ents
  BY DEF HasRows
<1>3. DOMAIN R \subseteq 1..(g.next - 1) /\ R \in [DOMAIN R -> Rows]
  BY <1>1 DEF Restood, GoodRows
<1>4. \A i \in DOMAIN R : R[i].t[1] # R[i].t[3] /\ R[i].t[1] \in g.ents /\ R[i].t[3] \in g.ents
  BY <1>1 DEF Restood, GoodRows
<1>5. \A i \in DOMAIN R : R[i].by \in {NoRow} \cup DOMAIN R
  BY <1>2 DEF Sound
<1>6. \A i, j \in DOMAIN R : R[i].t = R[j].t => i = j
  BY <1>1 DEF Restood, GoodRows
<1>7. GoodRows(R, g.ents, g.next)
  BY <1>3, <1>4, <1>5, <1>6 DEF GoodRows
<1>8. g.next <= g.next
  BY <1>1
<1>9. WellFormed(h) /\ OnlyRows(g, h)
  BY <1>1, <1>7, <1>8, NewRowsGood
<1> QED BY <1>9 DEF OnlyRows, SettingsKept

(* Undoing a rejection leaves a graph, with its settings. *)
LEMMA UndoRejectKeeps ==
  ASSUME NEW g, WellFormed(g), NEW s, s.was \in Rows, NEW h \in UndoReject(g, s), Sound(h)
  PROVE  WellFormed(h) /\ SettingsKept(g, h)
<1> DEFINE q == [[g.rows[s.id] EXCEPT !.ended = s.was.ended] EXCEPT !.verdict = s.was.verdict]
           R == [g.rows EXCEPT ![s.id] = q]
<1>1. OfParts(g) /\ GoodRows(g.rows, g.ents, g.next)
  BY GraphParts
<1>2. s.id \in DOMAIN g.rows /\ h = [g EXCEPT !.rows[s.id].ended = s.was.ended,
                                              !.rows[s.id].verdict = s.was.verdict]
  BY DEF UndoReject
<1>3. h = [g EXCEPT !.rows = R]
  BY <1>1, <1>2 DEF OfParts
<1>4. g.rows[s.id] \in Rows /\ s.was.ended \in BOOLEAN /\ s.was.verdict \in {"", "asserted", "rejected"}
  BY <1>2, TripleParts, ARow
<1>5. q \in Rows /\ q.t = g.rows[s.id].t
  BY <1>4 DEF Rows
<1>6. HasRows(h, g, R, g.next)
  <2> HIDE DEF R
  <2> QED BY <1>1, <1>3, SetRows, Zenon
<1>7. /\ R = [i \in DOMAIN R |-> R[i]] /\ DOMAIN R = DOMAIN g.rows
      /\ \A i \in DOMAIN g.rows : R[i] = IF i = s.id THEN q ELSE g.rows[i]
  OBVIOUS
<1> HIDE DEF R, q
<1>8. Restood(R, g)
  BY <1>1, <1>5, <1>7 DEF Restood, GoodRows
<1> QED BY <1>6, <1>8, RestoodKeeps

(* The assertion's own row, gone or as it was. *)
Own(g, s) ==
  IF s.prior = <<>> THEN WithoutRows(g, {s.id})
  ELSE IF s.id \in DOMAIN g.rows
  THEN WithRow(g, s.id, [Head(s.prior) EXCEPT !.t = g.rows[s.id].t,
                         !.derived = @ \/ g.rows[s.id].derived])
  ELSE g

(* Putting an assertion's own row back leaves rows of the graph. *)
LEMMA OwnRestood ==
  ASSUME NEW g, WellFormed(g), NEW s, s.prior # <<>> => Head(s.prior) \in Rows
  PROVE  HasRows(Own(g, s), g, Own(g, s).rows, g.next) /\ Restood(Own(g, s).rows, g)
<1>1. OfParts(g) /\ GoodRows(g.rows, g.ents, g.next) /\ g.next \in Nat \ {NoRow}
  BY GraphParts
<1>2. \A i \in DOMAIN g.rows : g.rows[i] \in Rows /\ i # g.next
  BY <1>1 DEF GoodRows
<1>3. CASE s.prior = <<>>
  <2> DEFINE R == [i \in DOMAIN g.rows \ {s.id} |->
                     [g.rows[i] EXCEPT !.by = IF @ \in {s.id} THEN NoRow ELSE @]]
  <2>1. Own(g, s) = [g EXCEPT !.rows = R]
    BY <1>3 DEF Own, WithoutRows
  <2>2. HasRows(Own(g, s), g, R, g.next)
    <3> HIDE DEF R
    <3> QED BY <1>1, <2>1, SetRows, Zenon
  <2>3. ASSUME NEW i \in DOMAIN g.rows \ {s.id}
        PROVE  R[i] \in Rows /\ R[i].t = g.rows[i].t
    <3> DEFINE b == IF g.rows[i].by \in {s.id} THEN NoRow ELSE g.rows[i].by
    <3>1. R[i] = [g.rows[i] EXCEPT !.by = b]
      OBVIOUS
    <3>2. b \in Nat
      BY <1>2, ARow DEF NoRow
    <3> HIDE DEF R, b
    <3> QED BY <1>2, <3>1, <3>2 DEF Rows
  <2>4. R = [i \in DOMAIN R |-> R[i]] /\ DOMAIN R = DOMAIN g.rows \ {s.id}
    OBVIOUS
  <2> HIDE DEF R
  <2>5. Restood(R, g)
    BY <2>3, <2>4 DEF Restood
  <2> QED BY <2>2, <2>5 DEF HasRows
<1>4. CASE s.prior # <<>> /\ s.id \in DOMAIN g.rows
  <2> DEFINE d == Head(s.prior).derived \/ g.rows[s.id].derived
             q == [[Head(s.prior) EXCEPT !.t = g.rows[s.id].t] EXCEPT !.derived = d]
             R == [j \in DOMAIN g.rows \cup {s.id} |-> IF j = s.id THEN q ELSE g.rows[j]]
  <2>1. [Head(s.prior) EXCEPT !.t = g.rows[s.id].t, !.derived = @ \/ g.rows[s.id].derived] = q
    BY <1>4 DEF Rows
  <2>2. Own(g, s) = WithRow(g, s.id, q)
    BY <1>4, <2>1 DEF Own
  <2>3. q \in Rows /\ q.t = g.rows[s.id].t
    <3>1. g.rows[s.id].t \in Ent \X (Singletons \cup Accumulating) \X Ent /\ d \in BOOLEAN
      BY <1>2, <1>4, ARow
    <3> HIDE DEF d
    <3> QED BY <1>4, <3>1 DEF Rows
  <2> HIDE DEF q
  <2>4. WithRow(g, s.id, q) = [g EXCEPT !.rows = R, !.next = g.next]
    <3> DEFINE nx == IF s.id = g.next THEN s.id + 1 ELSE g.next
    <3>1. WithRow(g, s.id, q) = [g EXCEPT !.rows = R, !.next = nx]
      BY Zenon DEF WithRow
    <3>2. nx = g.next
      BY <1>2, <1>4
    <3> QED BY <3>1, <3>2, Zenon
  <2>5. HasRows(Own(g, s), g, R, g.next)
    <3> HIDE DEF R
    <3>1. HasRows([g EXCEPT !.rows = R, !.next = g.next], g, R, g.next)
      BY <1>1, NewRows, Zenon
    <3> QED BY <2>2, <2>4, <3>1, Zenon
  <2>6. /\ R = [i \in DOMAIN R |-> R[i]] /\ DOMAIN R = DOMAIN g.rows
        /\ \A i \in DOMAIN g.rows : R[i] = IF i = s.id THEN q ELSE g.rows[i]
    BY <1>4
  <2> HIDE DEF R
  <2>7. Restood(R, g)
    BY <1>2, <2>3, <2>6 DEF Restood
  <2> QED BY <2>5, <2>7 DEF HasRows
<1>5. CASE s.prior # <<>> /\ s.id \notin DOMAIN g.rows
  <2>1. Own(g, s) = g
    BY <1>5 DEF Own
  <2> QED BY <1>1, <1>2, <2>1 DEF HasRows, Restood, GoodRows
<1> QED BY <1>3, <1>4, <1>5

(* Undoing an assertion leaves a graph, with its settings, when no foreign key fails. *)
LEMMA UndoAssertKeeps ==
  ASSUME NEW g, WellFormed(g), NEW s, s.prior # <<>> => Head(s.prior) \in Rows,
         \A i \in DOMAIN s.rivals : s.rivals[i] \in Rows,
         NEW h \in UndoAssert(g, s), Sound(h)
  PROVE  WellFormed(h) /\ SettingsKept(g, h)
<1> DEFINE mine == {i \in DOMAIN s.rivals \cap DOMAIN g.rows : g.rows[i].by = s.id}
           own == Own(g, s)
           R == [i \in DOMAIN own.rows |->
                   IF i \in mine THEN [own.rows[i] EXCEPT !.ended = s.rivals[i].ended, !.by = s.rivals[i].by]
                   ELSE own.rows[i]]
<1>1. h = [own EXCEPT !.rows = R]
  BY DEF UndoAssert, Own
<1>2. HasRows(own, g, own.rows, g.next) /\ Restood(own.rows, g)
  BY OwnRestood
<1> HIDE DEF own
<1>3. HasRows(h, own, R, own.next)
  <2> HIDE DEF R
  <2>1. OfParts(own)
    BY <1>2 DEF HasRows
  <2> QED BY <1>1, <2>1, SetRows, Zenon
<1>4. ASSUME NEW i \in DOMAIN own.rows
      PROVE  R[i] \in Rows /\ R[i].t = own.rows[i].t
  <2>1. own.rows[i] \in Rows
    BY <1>2 DEF Restood
  <2>2. CASE i \in mine
    <3>1. R[i] = [own.rows[i] EXCEPT !.ended = s.rivals[i].ended, !.by = s.rivals[i].by]
      BY <2>2
    <3>2. s.rivals[i].ended \in BOOLEAN /\ s.rivals[i].by \in Nat
      BY <2>2, ARow
    <3> HIDE DEF R
    <3> QED BY <2>1, <3>1, <3>2 DEF Rows
  <2>3. CASE i \notin mine
    BY <2>1, <2>3
  <2> QED BY <2>2, <2>3
<1>5. R = [i \in DOMAIN R |-> R[i]] /\ DOMAIN R = DOMAIN own.rows
  OBVIOUS
<1> HIDE DEF R
<1>6. Restood(R, g)
  BY <1>2, <1>4, <1>5 DEF Restood
<1>7. HasRows(h, g, R, g.next)
  BY <1>2, <1>3 DEF HasRows
<1> QED BY <1>6, <1>7, RestoodKeeps

(* Undoing a distinction takes a pair and nothing else. *)
LEMMA UndoNotSameKeeps ==
  ASSUME NEW g, WellFormed(g), NEW p, NEW h \in UndoNotSame(g, p)
  PROVE  WellFormed(h) /\ SettingsKept(g, h)
<1>1. OfParts(g) /\ GoodSettings(g) /\ g.next \in Nat \ {NoRow} /\ GoodRows(g.rows, g.ents, g.next)
  BY GraphParts
<1>2. g = [ents |-> g.ents, rows |-> g.rows, next |-> g.next, pairs |-> g.pairs,
           org |-> g.org, locked |-> g.locked, hidden |-> g.hidden]
  BY <1>1 DEF OfParts
<1>3. h = [g EXCEPT !.pairs = @ \ {p.pair}]
  BY DEF UndoNotSame
<1>4. h = [ents |-> g.ents, rows |-> g.rows, next |-> g.next, pairs |-> g.pairs \ {p.pair},
           org |-> g.org, locked |-> g.locked, hidden |-> g.hidden]
  BY <1>2, <1>3
<1>5. /\ OfParts(h) /\ h.ents = g.ents /\ h.rows = g.rows /\ h.next = g.next
      /\ h.pairs = g.pairs \ {p.pair}
      /\ h.org = g.org /\ h.locked = g.locked /\ h.hidden = g.hidden
  BY <1>4 DEF OfParts
<1>6. GoodSettings(h)
  BY <1>1, <1>5 DEF GoodSettings
<1>7. WellFormed(h)
  BY <1>1, <1>5, <1>6, GraphParts
<1> QED BY <1>1, <1>5, <1>7 DEF SettingsKept

(* Undoing a field puts back what was seen, where the correction's value still is. *)
LEMMA UndoSetFieldKeeps ==
  ASSUME NEW g, WellFormed(g), NEW p, p.e \in Ent, NEW s, s.was \in Orgs, NEW h \in UndoSetField(g, p, s)
  PROVE  /\ WellFormed(h) /\ p.e \in g.ents /\ g.org[p.e] = p.org
         /\ h.ents = g.ents /\ h.next = g.next /\ h.hidden = g.hidden
         /\ h.org = [g.org EXCEPT ![p.e] = s.was]
         /\ h.locked = IF s.hadLock THEN g.locked ELSE g.locked \ {p.e}
<1> DEFINE L == IF s.hadLock THEN g.locked ELSE g.locked \ {p.e}
<1>1. OfParts(g) /\ g.org \in [Ent -> Orgs] /\ g.locked \subseteq g.ents /\ g.hidden \in [Ent -> Int]
  BY GraphParts DEF GoodSettings
<1>2. /\ p.e \in g.ents /\ g.org[p.e] = p.org
      /\ h = [g EXCEPT !.org[p.e] = s.was, !.locked = IF s.hadLock THEN @ ELSE @ \ {p.e}]
  BY DEF UndoSetField
<1>3. h = [g EXCEPT !.org[p.e] = s.was, !.locked = L]
  BY <1>1, <1>2 DEF OfParts
<1>4. HasSettings(h, g, [g.org EXCEPT ![p.e] = s.was], L, g.hidden)
  <2> HIDE DEF L
  <2>1. HasSettings([g EXCEPT !.org[p.e] = s.was, !.locked = L], g, [g.org EXCEPT ![p.e] = s.was], L, g.hidden)
    BY <1>1, SetOrg, Zenon
  <2> QED BY <1>3, <2>1, Zenon
<1>5. [g.org EXCEPT ![p.e] = s.was] \in [Ent -> Orgs] /\ L \in SUBSET g.ents
  BY <1>1
<1> HIDE DEF L
<1>6. WellFormed(h)
  BY <1>1, <1>4, <1>5, SettingsGood
<1> QED BY <1>2, <1>4, <1>6 DEF HasSettings, L

(* Undoing a hide puts back what was seen, where the hide still is. *)
LEMMA UndoHideKeeps ==
  ASSUME NEW g, WellFormed(g), NEW p, p.e \in Ent, NEW s, s.was \in Int, NEW h \in UndoHide(g, p, s)
  PROVE  /\ WellFormed(h) /\ g.hidden[p.e] = s.wrote
         /\ h.ents = g.ents /\ h.next = g.next /\ h.org = g.org /\ h.locked = g.locked
         /\ h.hidden = [g.hidden EXCEPT ![p.e] = s.was]
<1>1. OfParts(g) /\ g.org \in [Ent -> Orgs] /\ g.locked \subseteq g.ents /\ g.hidden \in [Ent -> Int]
  BY GraphParts DEF GoodSettings
<1>2. g.hidden[p.e] = s.wrote /\ h = [g EXCEPT !.hidden[p.e] = s.was]
  BY DEF UndoHide
<1>3. HasSettings(h, g, g.org, g.locked, [g.hidden EXCEPT ![p.e] = s.was])
  BY <1>1, <1>2, SetHidden, Zenon
<1>4. [g.hidden EXCEPT ![p.e] = s.was] \in [Ent -> Int]
  BY <1>1
<1>5. WellFormed(h)
  BY <1>1, <1>3, <1>4, SettingsGood
<1> QED BY <1>2, <1>3, <1>5 DEF HasSettings

(* The rows an unmerge leaves: those the snapshot has, and the others with their
   triples; those it has not recorded tell what they told. *)
LEMMA RestoredRows ==
  ASSUME NEW g, WellFormed(g), NEW s, MergeSnap(s, g.next), Unmergeable(g, s)
  PROVE  LET R == Restored(g, s)
         IN /\ DOMAIN R = DOMAIN g.rows \cup DOMAIN s.rows
            /\ \A i \in DOMAIN R : R[i] \in Rows
            /\ \A i \in DOMAIN s.rows : R[i].t = s.rows[i].t
            /\ \A i \in DOMAIN R \ DOMAIN s.rows : R[i].t = g.rows[i].t
            /\ \A i \in DOMAIN R \ (DOMAIN s.rows \cup DOMAIN s.copies) :
                 R[i].verdict = g.rows[i].verdict /\ R[i].ended = g.rows[i].ended
<1> DEFINE first == WithRows(g, s.copies)
           back == WithRows(first, s.rows)
           B == back.rows
           R == Restored(g, s)
<1>1. g = [ents |-> g.ents, rows |-> g.rows, next |-> g.next, pairs |-> g.pairs,
           org |-> g.org, locked |-> g.locked, hidden |-> g.hidden]
  BY GraphParts DEF OfParts
<1>2. /\ first = [ents |-> first.ents, rows |-> first.rows, next |-> first.next, pairs |-> first.pairs,
                  org |-> first.org, locked |-> first.locked, hidden |-> first.hidden]
      /\ DOMAIN first.rows = DOMAIN g.rows \cup DOMAIN s.copies
      /\ \A i \in DOMAIN s.copies : first.rows[i] = s.copies[i]
      /\ \A i \in DOMAIN g.rows \ DOMAIN s.copies : first.rows[i] = g.rows[i]
  BY <1>1, PutBack
<1>3. /\ DOMAIN B = DOMAIN first.rows \cup DOMAIN s.rows
      /\ \A i \in DOMAIN s.rows : B[i] = s.rows[i]
      /\ \A i \in DOMAIN first.rows \ DOMAIN s.rows : B[i] = first.rows[i]
  BY <1>2, PutBack
<1>4. /\ R = [i \in DOMAIN B |-> IF i \in DOMAIN s.pointers
                                 THEN [B[i] EXCEPT !.by = s.pointers[i]] ELSE B[i]]
  BY DEF Restored
<1> HIDE DEF first, B, R
<1>5. \A i \in DOMAIN s.copies : i \in DOMAIN g.rows /\ g.rows[i].t = s.copies[i].t
  BY DEF Unmergeable
<1>6. DOMAIN B = DOMAIN g.rows \cup DOMAIN s.rows
  BY <1>2, <1>3, <1>5
<1>7. ASSUME NEW i \in DOMAIN B
      PROVE  /\ B[i] \in Rows
             /\ i \in DOMAIN s.rows => B[i].t = s.rows[i].t
             /\ i \notin DOMAIN s.rows => B[i].t = g.rows[i].t
             /\ i \notin DOMAIN s.rows \cup DOMAIN s.copies => B[i] = g.rows[i]
  <2>1. CASE i \in DOMAIN s.rows
    BY <1>3, <2>1 DEF MergeSnap
  <2>2. CASE i \notin DOMAIN s.rows /\ i \in DOMAIN s.copies
    BY <1>2, <1>3, <1>5, <2>2 DEF MergeSnap
  <2>3. CASE i \notin DOMAIN s.rows /\ i \notin DOMAIN s.copies
    <3>1. i \in DOMAIN g.rows /\ B[i] = g.rows[i]
      BY <1>2, <1>3, <1>6, <2>3
    <3> QED BY <2>3, <3>1, TripleParts
  <2> QED BY <2>1, <2>2, <2>3
<1>8. ASSUME NEW i \in DOMAIN B
      PROVE  /\ R[i] \in Rows /\ R[i].t = B[i].t
             /\ R[i].verdict = B[i].verdict /\ R[i].ended = B[i].ended
  <2>1. CASE i \in DOMAIN s.pointers
    <3>1. R[i] = [B[i] EXCEPT !.by = s.pointers[i]] /\ s.pointers[i] \in Nat
      BY <1>4, <2>1 DEF MergeSnap
    <3> QED BY <1>7, <3>1 DEF Rows
  <2>2. CASE i \notin DOMAIN s.pointers
    BY <1>4, <1>7, <2>2
  <2> QED BY <2>1, <2>2
<1>9. DOMAIN R = DOMAIN B
  BY <1>4
<1>10. \A i \in DOMAIN R : R[i] \in Rows
  BY <1>8, <1>9
<1>11. \A i \in DOMAIN s.rows : R[i].t = s.rows[i].t
  BY <1>3, <1>7, <1>8
<1>12. \A i \in DOMAIN R \ DOMAIN s.rows : R[i].t = g.rows[i].t
  BY <1>7, <1>8, <1>9
<1>13. \A i \in DOMAIN R \ (DOMAIN s.rows \cup DOMAIN s.copies) :
         R[i].verdict = g.rows[i].verdict /\ R[i].ended = g.rows[i].ended
  BY <1>7, <1>8, <1>9
<1> QED BY <1>6, <1>9, <1>10, <1>11, <1>12, <1>13 DEF R

(* Undoing a merge leaves a graph, whatever has changed since, when it is not refused. *)
LEMMA UndoMergeKeeps ==
  ASSUME NEW g, WellFormed(g), NEW s, MergeSnap(s, g.next), NEW h \in UndoMerge(g, s), Sound(h)
  PROVE  /\ WellFormed(h) /\ s.winner \in g.ents /\ s.loser \notin g.ents
         /\ h.ents = g.ents \cup {s.loser} /\ h.next = g.next
         /\ h.org = [[g.org EXCEPT ![s.winner] = IF @ = s.orgAfter THEN s.winnerOrg ELSE @]
                         EXCEPT ![s.loser] = s.loserOrg]
         /\ h.locked = IF s.locked THEN g.locked \cup {s.loser} ELSE g.locked
         /\ h.hidden = [g.hidden EXCEPT ![s.loser] = s.hidden]
<1> DEFINE R == Restored(g, s)
           pairs == (g.pairs \ AddedPairs(s.loser, s.winner, s.pairs, s.winnerPairs)) \cup s.pairs
           org == [[g.org EXCEPT ![s.winner] = IF @ = s.orgAfter THEN s.winnerOrg ELSE @]
                         EXCEPT ![s.loser] = s.loserOrg]
           locked == IF s.locked THEN g.locked \cup {s.loser} ELSE g.locked
           hidden == [g.hidden EXCEPT ![s.loser] = s.hidden]
<1>1. Unmergeable(g, s) /\ h = Unmerged(g, s)
  BY DEF UndoMerge
<1>2. g = [ents |-> g.ents, rows |-> g.rows, next |-> g.next, pairs |-> g.pairs,
           org |-> g.org, locked |-> g.locked, hidden |-> g.hidden]
  BY GraphParts DEF OfParts
<1>3. h = [ents |-> g.ents \cup {s.loser}, rows |-> R, next |-> g.next, pairs |-> pairs,
           org |-> org, locked |-> locked, hidden |-> hidden]
  BY <1>1, <1>2, UnmergedParts, Zenon
<1>4. s.winner \in g.ents /\ s.loser \notin g.ents
  BY <1>1 DEF Unmergeable
<1>5. GoodSettings(g) /\ g.next \in Nat \ {NoRow} /\ GoodRows(g.rows, g.ents, g.next)
  BY GraphParts
<1>6. org \in [Ent -> Orgs] /\ hidden \in [Ent -> Int] /\ locked \subseteq g.ents \cup {s.loser}
      /\ g.ents \cup {s.loser} \subseteq Ent
  BY <1>5 DEF GoodSettings, MergeSnap
<1>7. /\ DOMAIN R = DOMAIN g.rows \cup DOMAIN s.rows
      /\ \A i \in DOMAIN R : R[i] \in Rows
      /\ \A i \in DOMAIN s.rows : R[i].t = s.rows[i].t
      /\ \A i \in DOMAIN R \ DOMAIN s.rows : R[i].t = g.rows[i].t
  BY <1>1, RestoredRows
<1>8. R = [i \in DOMAIN R |-> R[i]]
  BY DEF Restored
<1>9. \A p \in pairs : \E a, b \in Ent : a # b /\ p = {a, b}
  BY <1>5 DEF GoodSettings, MergeSnap
<1> HIDE DEF R, pairs, org, locked, hidden
<1>10. /\ OfParts(h) /\ h.ents = g.ents \cup {s.loser} /\ h.rows = R /\ h.next = g.next
       /\ h.pairs = pairs /\ h.org = org /\ h.locked = locked /\ h.hidden = hidden
  BY <1>3 DEF OfParts
<1>11. /\ \A i \in DOMAIN R : {R[i].t[1], R[i].t[3]} \subseteq h.ents /\ R[i].by \in {NoRow} \cup DOMAIN R
       /\ UNION pairs \subseteq h.ents
  BY <1>10 DEF Sound
<1>12. \A p \in pairs : \E a, b \in h.ents : a # b /\ p = {a, b}
  <2>1. SUFFICES ASSUME NEW p \in pairs
                 PROVE  \E a, b \in h.ents : a # b /\ p = {a, b}
    OBVIOUS
  <2>2. PICK a, b \in Ent : a # b /\ p = {a, b}
    BY <1>9
  <2>3. a \in UNION pairs /\ b \in UNION pairs
    BY <2>2
  <2> QED BY <1>11, <2>2, <2>3
<1>13. GoodSettings(h)
  BY <1>6, <1>10, <1>12 DEF GoodSettings
<1>14. DOMAIN R \subseteq 1..(g.next - 1) /\ R \in [DOMAIN R -> Rows]
  BY <1>5, <1>7, <1>8 DEF GoodRows, MergeSnap
<1>15. \A i \in DOMAIN R : R[i].t[1] # R[i].t[3]
  BY <1>5, <1>7 DEF GoodRows, MergeSnap
<1>16. ASSUME NEW i \in DOMAIN R, NEW j \in DOMAIN R, R[i].t = R[j].t
       PROVE  i = j
  <2>1. \A k \in DOMAIN R : k \in DOMAIN s.rows <=> s.loser \in {R[k].t[1], R[k].t[3]}
    BY <1>4, <1>5, <1>7 DEF GoodRows, MergeSnap
  <2>2. CASE i \in DOMAIN s.rows /\ j \in DOMAIN s.rows
    BY <1>7, <1>16, <2>2 DEF MergeSnap
  <2>3. CASE i \notin DOMAIN s.rows /\ j \notin DOMAIN s.rows
    BY <1>5, <1>7, <1>16, <2>3 DEF GoodRows
  <2> QED BY <1>16, <2>1, <2>2, <2>3
<1>17. GoodRows(R, h.ents, h.next)
  BY <1>10, <1>11, <1>14, <1>15, <1>16 DEF GoodRows
<1>18. WellFormed(h)
  BY <1>5, <1>10, <1>13, <1>17, GraphParts
<1> QED BY <1>4, <1>10, <1>18 DEF org, locked, hidden

-----------------------------------------------------------------------------

(* The ledger: its entries are requests, and became applied in the order their
   numbers tell. *)
Statuses == {"pending", "declined", "failed", "applied", "reverted"}
Entries(S) == [what : Request, status : Statuses, order : Nat, snap : S]
LedgerShape == \E S : ledger \in Seq(Entries(S))
Numbered == {n \in DOMAIN ledger : ledger[n].order > 0}
OrdersTell ==
  /\ \A n \in DOMAIN ledger : ledger[n].order > 0 <=> ledger[n].status \in {"applied", "reverted"}
  /\ \A n \in DOMAIN ledger : ledger[n].order < NextOrder
  /\ \A m, n \in DOMAIN ledger : ledger[m].order = ledger[n].order /\ ledger[m].order > 0 => m = n

(* What the entries that stand keep for their undo. *)
SnapFits(n) ==
  LET p == ledger[n].what
      s == ledger[n].snap
  IN /\ p.op = "reject" => s.was \in Rows
     /\ p.op = "assert" => /\ s.prior # <<>> => Head(s.prior) \in Rows
                           /\ \A i \in DOMAIN s.rivals : s.rivals[i] \in Rows
     /\ p.op = "set_field" => s.was \in Orgs /\ s.hadLock \in BOOLEAN
     /\ p.op = "hide" => s.was \in Int /\ s.wrote = ledger[n].order
     /\ p.op = "merge" => MergeSnap(s, graph.next) /\ s.loser \in p.pair /\ s.winner \in p.pair
SnapsFit == \A n \in Standing : SnapFits(n)
ChecksShape == checked \subseteq [pair : Pairs, automated : BOOLEAN]

(* The standing corrections of one entity's field, and those that hide it. *)
FieldsOf(e) == {n \in What("set_field") : ledger[n].what.e = e}
HidesOf(e) == {n \in What("hide") : ledger[n].what.e = e}

(* An entity is merged away once. *)
MergedOnce ==
  \A k \in What("merge") :
    /\ ledger[k].snap.loser \notin graph.ents
    /\ \A m \in What("merge") : ledger[m].snap.loser = ledger[k].snap.loser => m = k

(* What the user took from a correction of e's column for good. *)
TakenBack(e, column) == <<e, column>> \in userEdited \/ e \in raced

(* Each lock that is, or that an undo may bring back, is of a correction that
   stands and that was made before; each corrected field is locked, or an undo
   will lock it. *)
LocksNow ==
  /\ \A e \in graph.locked : FieldsOf(e) # {}
  /\ \A e \in Ent : \A n \in FieldsOf(e) :
       e \in graph.locked \/ e \in MergedByUser \/ TakenBack(e, "org")
LocksBefore ==
  \A e \in Ent : \A n \in FieldsOf(e) :
    /\ ledger[n].snap.hadLock => \E m \in FieldsOf(e) : ledger[m].order < ledger[n].order
    /\ \A m \in FieldsOf(e) : ledger[m].order < ledger[n].order =>
         ledger[n].snap.hadLock \/ TakenBack(e, "org")
LocksMerged ==
  \A k \in What("merge") : \A e \in {ledger[k].snap.loser} :
    /\ ledger[k].snap.locked => \E n \in FieldsOf(e) : ledger[n].order < ledger[k].order
    /\ \A n \in FieldsOf(e) :
         /\ ledger[n].order < ledger[k].order
         /\ ledger[k].snap.locked \/ TakenBack(e, "org")
LockInv == LocksNow /\ LocksBefore /\ LocksMerged

(* The value of the last correction of a field is there, and each undo would
   bring back the one before it. *)
FieldsBefore(e, m) == {j \in FieldsOf(e) : ledger[j].order < ledger[m].order}
FieldOr(n, e, org, among) ==
  \/ ledger[n].what.org = Blank \/ TakenBack(e, "org")
  \/ \E j \in among : ledger[n].order < ledger[j].order
  \/ org = ledger[n].what.org
FieldsNow ==
  \A e \in Ent : \A n \in FieldsOf(e) :
    e \in MergedByUser \/ FieldOr(n, e, graph.org[e], FieldsOf(e))
FieldsPrior ==
  \A e \in Ent : \A n, m \in FieldsOf(e) : ledger[n].order < ledger[m].order =>
    FieldOr(n, e, ledger[m].snap.was, FieldsBefore(e, m))
FieldsMerged ==
  \A k \in What("merge") : \A l \in {ledger[k].snap.loser}, w \in {ledger[k].snap.winner} :
    /\ \A n \in FieldsOf(l) : FieldOr(n, l, ledger[k].snap.loserOrg, FieldsBefore(l, k))
    /\ \A n \in FieldsOf(w) : ledger[n].order < ledger[k].order =>
         FieldOr(n, w, ledger[k].snap.winnerOrg, FieldsBefore(w, k))
FieldInv == FieldsNow /\ FieldsPrior /\ FieldsMerged

(* The same of hides, whose value is the order of the correction. *)
HidesBefore(e, m) == {j \in HidesOf(e) : ledger[j].order < ledger[m].order}
HideOr(n, e, hidden, among) ==
  \/ TakenBack(e, "hidden")
  \/ \E j \in among : ledger[n].order < ledger[j].order
  \/ hidden = ledger[n].order
HideOf(e, order) == \E n \in HidesOf(e) : ledger[n].order = order
HidesNow ==
  \A e \in Ent :
    /\ graph.hidden[e] > 0 => HideOf(e, graph.hidden[e])
    /\ \A n \in HidesOf(e) : e \in MergedByUser \/ HideOr(n, e, graph.hidden[e], HidesOf(e))
HidesPrior ==
  \A e \in Ent : \A m \in HidesOf(e) :
    /\ ledger[m].snap.was > 0 =>
         HideOf(e, ledger[m].snap.was) /\ ledger[m].snap.was < ledger[m].order
    /\ \A n \in HidesOf(e) : ledger[n].order < ledger[m].order =>
         HideOr(n, e, ledger[m].snap.was, HidesBefore(e, m))
HidesMerged ==
  \A k \in What("merge") : \A l \in {ledger[k].snap.loser} :
    /\ ledger[k].snap.hidden > 0 =>
         HideOf(l, ledger[k].snap.hidden) /\ ledger[k].snap.hidden < ledger[k].order
    /\ \A n \in HidesOf(l) :
         ledger[n].order < ledger[k].order /\ HideOr(n, l, ledger[k].snap.hidden, HidesBefore(l, k))
HideInv == HidesNow /\ HidesPrior /\ HidesMerged

-----------------------------------------------------------------------------
(* A step writes one entry of the ledger. *)
Writes(n, entry) ==
  /\ n \in DOMAIN ledger \cup {Len(ledger) + 1}
  /\ DOMAIN ledger' = DOMAIN ledger \cup {n} /\ ledger'[n] = entry
  /\ \A m \in DOMAIN ledger \ {n} : ledger'[m] = ledger[m]

(* The ids of the ledger, and what is under one. *)
LEMMA LedgerDomain ==
  ASSUME LedgerShape
  PROVE  /\ Len(ledger) \in Nat /\ DOMAIN ledger = 1..Len(ledger)
         /\ \A n \in DOMAIN ledger :
              /\ ledger[n].what \in Request /\ ledger[n].status \in Statuses /\ ledger[n].order \in Nat
              /\ ledger[n] = Entry(ledger[n].what, ledger[n].status, ledger[n].order, ledger[n].snap)
<1>1. PICK S : ledger \in Seq(Entries(S))
  BY DEF LedgerShape
<1>2. Len(ledger) \in Nat /\ DOMAIN ledger = 1..Len(ledger)
  BY <1>1
<1>3. \A n \in DOMAIN ledger : ledger[n] \in Entries(S)
  BY <1>1, <1>2
<1>4. ASSUME NEW e \in Entries(S)
      PROVE  /\ e.what \in Request /\ e.status \in Statuses /\ e.order \in Nat
             /\ e = Entry(e.what, e.status, e.order, e.snap)
  BY DEF Entry, Entries
<1> QED BY <1>2, <1>3, <1>4

(* An entry is one with more snapshots to choose from. *)
LEMMA EntriesGrow ==
  ASSUME NEW S, NEW T, S \subseteq T, NEW e \in Entries(S)
  PROVE  e \in Entries(T)
BY DEF Entries

(* Appending an entry writes it under a new id. *)
LEMMA LedgerAppended ==
  ASSUME LedgerShape, NEW p \in Request, NEW status \in Statuses, NEW order \in Nat, NEW snap,
         ledger' = Append(ledger, Entry(p, status, order, snap))
  PROVE  /\ LedgerShape' /\ Writes(Len(ledger) + 1, Entry(p, status, order, snap))
         /\ Len(ledger) + 1 \notin DOMAIN ledger
<1>1. PICK S : ledger \in Seq(Entries(S))
  BY DEF LedgerShape
<1> DEFINE T == S \cup {snap}
           E == Entries(T)
           e == Entry(p, status, order, snap)
<1>2. Len(ledger) \in Nat /\ DOMAIN ledger = 1..Len(ledger)
  BY LedgerDomain
<1>3. e \in E
  BY DEF Entry, Entries
<1>4. ledger \in Seq(E)
  <2>1. \A n \in 1..Len(ledger) : ledger[n] \in E
    BY <1>1, <1>2, EntriesGrow
  <2>2. ledger = [n \in 1..Len(ledger) |-> ledger[n]]
    BY <1>1
  <2> HIDE DEF E
  <2> QED BY <1>2, <2>1, <2>2
<1> HIDE DEF E, e
<1>5. ledger' = Append(ledger, e)
  BY DEF e
<1>6. ledger' \in Seq(E)
  BY <1>3, <1>4, <1>5
<1>7. LedgerShape'
  BY <1>6 DEF LedgerShape, E, T
<1>8. /\ DOMAIN ledger' = 1..(Len(ledger) + 1) /\ ledger'[Len(ledger) + 1] = e
      /\ \A m \in 1..Len(ledger) : ledger'[m] = ledger[m]
  BY <1>4, <1>5
<1>9. DOMAIN ledger' = DOMAIN ledger \cup {Len(ledger) + 1} /\ Len(ledger) + 1 \notin DOMAIN ledger
  BY <1>2, <1>8
<1> QED BY <1>2, <1>7, <1>8, <1>9 DEF Writes, e

(* Replacing an entry writes it under its id. *)
LEMMA LedgerEdited ==
  ASSUME LedgerShape, NEW n \in DOMAIN ledger, NEW p \in Request, NEW status \in Statuses,
         NEW order \in Nat, NEW snap, ledger' = [ledger EXCEPT ![n] = Entry(p, status, order, snap)]
  PROVE  LedgerShape' /\ Writes(n, Entry(p, status, order, snap))
<1>1. PICK S : ledger \in Seq(Entries(S))
  BY DEF LedgerShape
<1> DEFINE T == S \cup {snap}
           E == Entries(T)
           e == Entry(p, status, order, snap)
<1>2. Len(ledger) \in Nat /\ DOMAIN ledger = 1..Len(ledger)
  BY LedgerDomain
<1>3. e \in E
  BY DEF Entry, Entries
<1>4. \A m \in 1..Len(ledger) : ledger[m] \in E
  BY <1>1, <1>2, EntriesGrow
<1> HIDE DEF E, e
<1>5. ledger' = [ledger EXCEPT ![n] = e] /\ ledger = [m \in 1..Len(ledger) |-> ledger[m]]
  BY <1>1 DEF e
<1>6. /\ DOMAIN ledger' = 1..Len(ledger) /\ ledger'[n] = e
      /\ \A m \in DOMAIN ledger \ {n} : ledger'[m] = ledger[m]
  BY <1>2, <1>5
<1>7. ledger' \in Seq(E)
  BY <1>2, <1>3, <1>4, <1>5
<1>8. LedgerShape'
  BY <1>7 DEF LedgerShape, E, T
<1> QED BY <1>2, <1>6, <1>8 DEF Writes, e

(* Only the status of an entry changes. *)
LEMMA LedgerMarked ==
  ASSUME LedgerShape, NEW n \in DOMAIN ledger, NEW status \in Statuses,
         ledger' = [ledger EXCEPT ![n].status = status]
  PROVE  LedgerShape' /\ Writes(n, Entry(ledger[n].what, status, ledger[n].order, ledger[n].snap))
<1> DEFINE e == Entry(ledger[n].what, status, ledger[n].order, ledger[n].snap)
<1>1. ledger[n] = Entry(ledger[n].what, ledger[n].status, ledger[n].order, ledger[n].snap)
      /\ ledger[n].what \in Request /\ ledger[n].order \in Nat
  BY LedgerDomain
<1>2. [ledger[n] EXCEPT !.status = status] = e
  BY <1>1 DEF Entry
<1>3. ledger' = [ledger EXCEPT ![n] = e]
  <2>1. ledger' = [ledger EXCEPT ![n] = [ledger[n] EXCEPT !.status = status]]
    BY Zenon
  <2> QED BY <1>2, <2>1, Zenon
<1> QED BY <1>1, <1>3, LedgerEdited

(* What a step does to the entries that stand. *)
Adds(x, p, snap) ==
  /\ x \notin Standing /\ Standing' = Standing \cup {x}
  /\ ledger'[x] = Entry(p, "applied", NextOrder, snap)
  /\ \A n \in Standing : ledger'[n] = ledger[n]
Removes(x) ==
  /\ x \in Standing /\ Standing' = Standing \ {x}
  /\ \A n \in Standing \ {x} : ledger'[n] = ledger[n]
Leaves ==
  /\ Standing' = Standing
  /\ \A n \in Standing : ledger'[n] = ledger[n]

(* The fields of an entry. *)
LEMMA EntryFields ==
  ASSUME NEW p, NEW status, NEW order, NEW snap
  PROVE  LET e == Entry(p, status, order, snap)
         IN e.what = p /\ e.status = status /\ e.order = order /\ e.snap = snap
BY DEF Entry

(* The numbered entries are finitely many, and the next number counts them. *)
LEMMA Numbering ==
  ASSUME LedgerShape
  PROVE  /\ IsFiniteSet(Numbered) /\ Cardinality(Numbered) \in Nat
         /\ NextOrder = 1 + Cardinality(Numbered) /\ Numbered \subseteq DOMAIN ledger
<1>1. Len(ledger) \in Nat /\ DOMAIN ledger = 1..Len(ledger)
  BY LedgerDomain
<1>2. IsFiniteSet(DOMAIN ledger)
  BY <1>1, FS_Interval
<1>3. Numbered \subseteq DOMAIN ledger
  BY DEF Numbered
<1> QED BY <1>2, <1>3, FS_Subset, FS_CardinalityType DEF NextOrder, Numbered

(* The entries that stand are requests numbered apart, below the next number. *)
LEMMA OrderOfStanding ==
  ASSUME LedgerShape, OrdersTell
  PROVE  /\ NextOrder \in Nat
         /\ \A n \in Standing : /\ n \in DOMAIN ledger /\ ledger[n].what \in Request
                                /\ ledger[n].order \in Nat /\ 0 < ledger[n].order
                                /\ ledger[n].order < NextOrder
         /\ \A m, n \in Standing : ledger[m].order = ledger[n].order => m = n
BY LedgerDomain, Numbering DEF OrdersTell, Standing

(* A step that gives an entry no number. *)
LEMMA WaitingWritten ==
  ASSUME LedgerShape, OrdersTell, NEW n, NEW p, NEW status \in {"pending", "declined", "failed"}, NEW snap,
         Writes(n, Entry(p, status, 0, snap)), n \in DOMAIN ledger => ledger[n].order = 0
  PROVE  OrdersTell' /\ Leaves
<1>1. /\ DOMAIN ledger' = DOMAIN ledger \cup {n}
      /\ ledger'[n].order = 0 /\ ledger'[n].status = status
      /\ \A m \in DOMAIN ledger \ {n} : ledger'[m] = ledger[m]
  BY EntryFields DEF Writes
<1>2. Numbered' = Numbered
  BY <1>1 DEF Numbered
<1>3. NextOrder' = NextOrder
  BY <1>2 DEF NextOrder, Numbered
<1>4. \A m \in DOMAIN ledger : ledger[m].order \in Nat
  BY LedgerDomain
<1>5. NextOrder \in Nat /\ 0 < NextOrder
  BY Numbering
<1>6. OrdersTell'
  <2>1. \A m \in DOMAIN ledger' : ledger'[m].order > 0 <=> ledger'[m].status \in {"applied", "reverted"}
    BY <1>1 DEF OrdersTell
  <2>2. \A m \in DOMAIN ledger' : ledger'[m].order < NextOrder'
    BY <1>1, <1>3, <1>5 DEF OrdersTell
  <2>3. \A m, k \in DOMAIN ledger' : ledger'[m].order = ledger'[k].order /\ ledger'[m].order > 0 => m = k
    BY <1>1, <1>4 DEF OrdersTell
  <2> QED BY <2>1, <2>2, <2>3 DEF OrdersTell
<1>7. n \in DOMAIN ledger => ledger[n].status # "applied"
  BY DEF OrdersTell
<1> QED BY <1>1, <1>6, <1>7 DEF Leaves, Standing

(* A step that makes an entry apply. *)
LEMMA AppliedWritten ==
  ASSUME LedgerShape, OrdersTell, NEW n, NEW p, NEW snap,
         Writes(n, Entry(p, "applied", NextOrder, snap)), n \in DOMAIN ledger => ledger[n].order = 0
  PROVE  OrdersTell' /\ Adds(n, p, snap)
<1>1. /\ DOMAIN ledger' = DOMAIN ledger \cup {n}
      /\ ledger'[n].order = NextOrder /\ ledger'[n].status = "applied"
      /\ \A m \in DOMAIN ledger \ {n} : ledger'[m] = ledger[m]
  BY EntryFields DEF Writes
<1>2. \A m \in DOMAIN ledger : ledger[m].order \in Nat
  BY LedgerDomain
<1>3. NextOrder \in Nat /\ 0 < NextOrder
  BY Numbering
<1>4. Numbered' = Numbered \cup {n} /\ n \notin Numbered
  BY <1>1, <1>3 DEF Numbered
<1>5. NextOrder' = NextOrder + 1
  <2>1. Cardinality(Numbered \cup {n}) = Cardinality(Numbered) + 1
    BY <1>4, Numbering, FS_AddElement
  <2>2. NextOrder' = 1 + Cardinality(Numbered')
    BY DEF NextOrder, Numbered
  <2>3. NextOrder = 1 + Cardinality(Numbered) /\ Cardinality(Numbered) \in Nat
    BY Numbering
  <2> QED BY <1>4, <2>1, <2>2, <2>3
<1>6. OrdersTell'
  <2>1. \A m \in DOMAIN ledger' : ledger'[m].order > 0 <=> ledger'[m].status \in {"applied", "reverted"}
    BY <1>1, <1>3 DEF OrdersTell
  <2>2. \A m \in DOMAIN ledger' : ledger'[m].order < NextOrder'
    <3>1. \A m \in DOMAIN ledger : ledger[m].order < NextOrder
      BY DEF OrdersTell
    <3> HIDE DEF NextOrder
    <3> QED BY <1>1, <1>2, <1>3, <1>5, <3>1
  <2>3. \A m, k \in DOMAIN ledger' : ledger'[m].order = ledger'[k].order /\ ledger'[m].order > 0 => m = k
    <3>1. \A m \in DOMAIN ledger : ledger[m].order < NextOrder
      BY DEF OrdersTell
    <3> QED BY <1>1, <1>2, <1>3, <3>1 DEF OrdersTell
  <2> QED BY <2>1, <2>2, <2>3 DEF OrdersTell
<1>7. n \in DOMAIN ledger => ledger[n].status # "applied"
  BY DEF OrdersTell
<1>8. n \notin Standing /\ Standing' = Standing \cup {n}
  BY <1>1, <1>7 DEF Standing
<1>9. \A m \in Standing : ledger'[m] = ledger[m]
  BY <1>1, <1>8 DEF Standing
<1>10. ledger'[n] = Entry(p, "applied", NextOrder, snap)
  BY DEF Writes
<1> QED BY <1>6, <1>8, <1>9, <1>10 DEF Adds

(* A step that reverts an entry. *)
LEMMA RevertedWritten ==
  ASSUME LedgerShape, OrdersTell, NEW n \in Standing,
         Writes(n, Entry(ledger[n].what, "reverted", ledger[n].order, ledger[n].snap))
  PROVE  OrdersTell' /\ Removes(n)
<1>1. n \in DOMAIN ledger /\ ledger[n].status = "applied"
  BY DEF Standing
<1>2. /\ DOMAIN ledger' = DOMAIN ledger
      /\ ledger'[n].order = ledger[n].order /\ ledger'[n].status = "reverted"
      /\ \A m \in DOMAIN ledger \ {n} : ledger'[m] = ledger[m]
  <2>1. ledger'[n] = Entry(ledger[n].what, "reverted", ledger[n].order, ledger[n].snap)
    BY DEF Writes
  <2>2. ledger'[n].order = ledger[n].order /\ ledger'[n].status = "reverted"
    BY <2>1 DEF Entry
  <2> QED BY <1>1, <2>2 DEF Writes
<1>3. Numbered' = Numbered
  BY <1>2 DEF Numbered
<1>4. NextOrder' = NextOrder
  BY <1>3 DEF NextOrder, Numbered
<1>5. OrdersTell'
  <2>1. \A m \in DOMAIN ledger' : ledger'[m].order > 0 <=> ledger'[m].status \in {"applied", "reverted"}
    BY <1>1, <1>2 DEF OrdersTell
  <2>2. \A m \in DOMAIN ledger' : ledger'[m].order < NextOrder'
    BY <1>2, <1>4 DEF OrdersTell
  <2>3. \A m, k \in DOMAIN ledger' : ledger'[m].order = ledger'[k].order /\ ledger'[m].order > 0 => m = k
    BY <1>2 DEF OrdersTell
  <2> QED BY <2>1, <2>2, <2>3 DEF OrdersTell
<1> QED BY <1>1, <1>2, <1>5 DEF Removes, Standing

(* The first part of the inductive invariant: what graph, ledger and checks are. *)
BaseInv ==
  WellFormed(graph) /\ LedgerShape /\ OrdersTell /\ SnapsFit /\ ChecksShape

(* What a step does to what the corrections of entities are about. *)
Idle ==
  /\ \A op \in {"set_field", "hide", "merge"} : What(op)' = What(op)
  /\ \A op \in {"set_field", "hide", "merge"} : \A n \in What(op) : ledger'[n] = ledger[n]
  /\ SettingsKept(graph, graph')
  /\ UNCHANGED <<userEdited, raced>>
AddsField(x, p, s) ==
  /\ Adds(x, p, s) /\ p.op = "set_field" /\ p.e \in graph.ents
  /\ s.was = graph.org[p.e] /\ s.hadLock = (p.e \in graph.locked)
  /\ graph'.ents = graph.ents /\ graph'.hidden = graph.hidden
  /\ graph'.org = [graph.org EXCEPT ![p.e] = p.org] /\ graph'.locked = graph.locked \cup {p.e}
  /\ UNCHANGED <<userEdited, raced>>
AddsHide(x, p, s) ==
  /\ Adds(x, p, s) /\ p.op = "hide" /\ p.e \in graph.ents
  /\ s.was = graph.hidden[p.e] /\ s.wrote = NextOrder
  /\ graph'.ents = graph.ents /\ graph'.org = graph.org /\ graph'.locked = graph.locked
  /\ graph'.hidden = [graph.hidden EXCEPT ![p.e] = NextOrder]
  /\ UNCHANGED <<userEdited, raced>>
AddsMerge(x, p, s) ==
  LET l == s.loser
      w == s.winner
  IN /\ Adds(x, p, s) /\ p.op = "merge"
     /\ l \in p.pair /\ w \in p.pair /\ l # w /\ l \in graph.ents /\ w \in graph.ents
     /\ s.locked = (l \in graph.locked) /\ s.hidden = graph.hidden[l]
     /\ s.loserOrg = graph.org[l] /\ s.winnerOrg = graph.org[w] /\ s.orgAfter = MergedOrg(graph, l, w)
     /\ graph'.ents = graph.ents \ {l}
     /\ graph'.org = [[graph.org EXCEPT ![w] = s.orgAfter] EXCEPT ![l] = Blank]
     /\ graph'.locked = graph.locked \ {l} /\ graph'.hidden = [graph.hidden EXCEPT ![l] = 0]
     /\ UNCHANGED <<userEdited, raced>>

(* What a request names. *)
LEMMA RequestParts ==
  ASSUME NEW p \in Request
  PROVE  /\ p.op \in {"reject", "assert", "merge", "not_same", "set_field", "hide"}
         /\ p.op \in {"reject", "assert"} => p.t \in Ent \X (Singletons \cup Accumulating) \X Ent
         /\ p.op = "assert" => p.from \in Nat
         /\ p.op \in {"merge", "not_same"} => p.pair \in Pairs
         /\ p.op = "set_field" => p.e \in Ent /\ p.org \in Orgs
         /\ p.op = "hide" => p.e \in Ent
<1>1. CASE p \in [op : {"reject"}, t : Ent \X (Singletons \cup Accumulating) \X Ent]
  BY <1>1
<1>2. CASE p \in [op : {"assert"}, t : Ent \X (Singletons \cup Accumulating) \X Ent, from : Nat]
  BY <1>2
<1>3. CASE p \in [op : {"merge", "not_same"}, pair : Pairs]
  BY <1>3
<1>4. CASE p \in [op : {"set_field"}, e : Ent, org : Orgs]
  BY <1>4
<1>5. CASE p \in [op : {"hide"}, e : Ent]
  BY <1>5
<1> QED BY <1>1, <1>2, <1>3, <1>4, <1>5 DEF Request

(* A snapshot of rows below an id is one of rows below a greater id. *)
LEMMA SnapLasts ==
  ASSUME NEW s, NEW m \in Nat, NEW n \in Nat, m <= n, MergeSnap(s, m)
  PROVE  MergeSnap(s, n)
<1>1. 1..(m - 1) \subseteq 1..(n - 1)
  OBVIOUS
<1> QED BY <1>1 DEF MergeSnap

(* The entries that stood keep what they had. *)
LEMMA SnapsLast ==
  ASSUME BaseInv, WellFormed(graph'), graph.next <= graph'.next,
         NEW n \in Standing, ledger'[n] = ledger[n]
  PROVE  SnapFits(n)'
<1>1. graph.next \in Nat /\ graph'.next \in Nat
  BY DEF BaseInv, WellFormed
<1>2. SnapFits(n)
  BY DEF BaseInv, SnapsFit
<1>3. MergeSnap(ledger[n].snap, graph.next) => MergeSnap(ledger[n].snap, graph'.next)
  BY <1>1, SnapLasts
<1> QED BY <1>2, <1>3 DEF SnapFits

(* The standing corrections of a kind, after one is made ... *)
LEMMA WhatAdded ==
  ASSUME NEW x, NEW p, NEW s, Adds(x, p, s), NEW op
  PROVE  What(op)' = IF op = p.op THEN What(op) \cup {x} ELSE What(op)
BY DEF Adds, What, Entry

(* ... and after one is undone. *)
LEMMA WhatRemoved ==
  ASSUME NEW x, Removes(x), NEW op
  PROVE  What(op)' = What(op) \ {x}
BY DEF Removes, What

(* A correction that is made. *)
LEMMA AppliedEffect ==
  ASSUME BaseInv, NEW p \in Request, NEW done \in Applied(graph, p, NextOrder), graph' = done.graph,
         NEW x, Adds(x, p, done.snap), UNCHANGED <<userEdited, raced>>
  PROVE  /\ WellFormed(graph') /\ SnapsFit'
         /\ Idle \/ AddsField(x, p, done.snap) \/ AddsHide(x, p, done.snap) \/ AddsMerge(x, p, done.snap)
<1> DEFINE s == done.snap
<1>1. WellFormed(graph) /\ graph.next \in Nat /\ NextOrder \in Nat
  BY OrderOfStanding DEF BaseInv, WellFormed
<1>2. /\ ledger'[x].what = p /\ ledger'[x].order = NextOrder /\ ledger'[x].snap = s
      /\ \A n \in Standing : ledger'[n] = ledger[n]
      /\ Standing' = Standing \cup {x}
  BY DEF Adds, Entry
<1> SUFFICES /\ WellFormed(graph') /\ graph.next <= graph'.next
             /\ SnapFits(x)'
             /\ Idle \/ AddsField(x, p, s) \/ AddsHide(x, p, s) \/ AddsMerge(x, p, s)
  <2>1. ASSUME WellFormed(graph'), graph.next <= graph'.next, SnapFits(x)'
        PROVE  SnapsFit'
    <3>1. \A n \in Standing : SnapFits(n)'
      BY <1>2, <2>1, SnapsLast
    <3> QED BY <1>2, <2>1, <3>1 DEF SnapsFit
  <2> QED BY <2>1
<1>3. ASSUME SettingsKept(graph, graph'), p.op \notin {"set_field", "hide", "merge"}
      PROVE  Idle
  <2>1. \A op \in {"set_field", "hide", "merge"} : What(op)' = What(op)
    BY <1>3, WhatAdded
  <2>2. \A op : What(op) \subseteq Standing
    BY DEF What
  <2> QED BY <1>2, <1>3, <2>1, <2>2 DEF Idle
<1>4. CASE p.op = "reject"
  <2>1. done \in ApplyReject(graph, p)
    BY <1>4 DEF Applied
  <2>2. WellFormed(graph') /\ OnlyRows(graph, graph') /\ s.was \in Rows
    BY <1>1, <2>1, RejectKeeps
  <2>3. SettingsKept(graph, graph')
    BY <2>2 DEF OnlyRows, SettingsKept
  <2>4. SnapFits(x)'
    BY <1>2, <1>4, <2>2 DEF SnapFits
  <2> QED BY <1>3, <1>4, <2>2, <2>3, <2>4 DEF SettingsKept
<1>5. CASE p.op = "assert"
  <2>1. done \in ApplyAssert(graph, p)
    BY <1>5 DEF Applied
  <2>2. /\ WellFormed(graph') /\ OnlyRows(graph, graph')
        /\ s.prior # <<>> => Head(s.prior) \in Rows
        /\ \A i \in DOMAIN s.rivals : s.rivals[i] \in Rows
    BY <1>1, <1>5, <2>1, AssertKeeps, RequestParts
  <2>3. SettingsKept(graph, graph')
    BY <2>2 DEF OnlyRows, SettingsKept
  <2>4. SnapFits(x)'
    BY <1>2, <1>5, <2>2 DEF SnapFits
  <2> QED BY <1>3, <1>5, <2>2, <2>3, <2>4 DEF SettingsKept
<1>6. CASE p.op = "not_same"
  <2>1. done \in ApplyNotSame(graph, p)
    BY <1>6 DEF Applied
  <2>2. WellFormed(graph') /\ SettingsKept(graph, graph')
    BY <1>1, <1>6, <2>1, DistinctionKeeps, RequestParts
  <2>3. SnapFits(x)'
    BY <1>2, <1>6 DEF SnapFits
  <2> QED BY <1>3, <1>6, <2>2, <2>3 DEF SettingsKept
<1>7. CASE p.op = "set_field"
  <2>1. done \in ApplySetField(graph, p)
    BY <1>7 DEF Applied
  <2>2. /\ WellFormed(graph')
        /\ p.e \in graph.ents /\ s.was = graph.org[p.e] /\ s.hadLock = (p.e \in graph.locked)
        /\ graph'.ents = graph.ents /\ graph'.next = graph.next /\ graph'.hidden = graph.hidden
        /\ graph'.org = [graph.org EXCEPT ![p.e] = p.org] /\ graph'.locked = graph.locked \cup {p.e}
    BY <1>1, <1>7, <2>1, SetFieldKeeps, RequestParts
  <2>3. s.was \in Orgs /\ s.hadLock \in BOOLEAN
    BY <1>1, <1>7, <2>2, RequestParts DEF WellFormed
  <2>4. SnapFits(x)'
    BY <1>2, <1>7, <2>3 DEF SnapFits
  <2>5. AddsField(x, p, s)
    BY <1>7, <2>2 DEF AddsField
  <2> QED BY <1>1, <2>2, <2>4, <2>5
<1>8. CASE p.op = "hide"
  <2>1. done \in ApplyHide(graph, p, NextOrder)
    BY <1>8 DEF Applied
  <2>2. /\ WellFormed(graph')
        /\ p.e \in graph.ents /\ s.was = graph.hidden[p.e] /\ s.wrote = NextOrder
        /\ graph'.ents = graph.ents /\ graph'.next = graph.next /\ graph'.org = graph.org
        /\ graph'.locked = graph.locked
        /\ graph'.hidden = [graph.hidden EXCEPT ![p.e] = NextOrder]
    BY <1>1, <1>8, <2>1, HideKeeps, RequestParts
  <2>3. s.was \in Int
    BY <1>1, <1>8, <2>2, RequestParts DEF WellFormed
  <2>4. SnapFits(x)'
    BY <1>2, <1>8, <2>2, <2>3 DEF SnapFits
  <2>5. AddsHide(x, p, s)
    BY <1>8, <2>2 DEF AddsHide
  <2> QED BY <1>1, <2>2, <2>4, <2>5
<1>9. CASE p.op = "merge"
  <2> DEFINE l == s.loser
             w == s.winner
  <2>1. done \in ApplyMerge(graph, p)
    BY <1>9 DEF Applied
  <2>2. p.pair \in Pairs
    BY <1>9, RequestParts
  <2>3. /\ l \in p.pair /\ w \in p.pair /\ l # w /\ l \in graph.ents /\ w \in graph.ents
        /\ WellFormed(graph') /\ MergeSnap(s, graph.next)
        /\ s.locked = (l \in graph.locked) /\ s.hidden = graph.hidden[l]
        /\ s.loserOrg = graph.org[l] /\ s.winnerOrg = graph.org[w] /\ s.orgAfter = MergedOrg(graph, l, w)
        /\ graph'.ents = graph.ents \ {l} /\ graph'.next = graph.next
        /\ graph'.org = [[graph.org EXCEPT ![w] = s.orgAfter] EXCEPT ![l] = Blank]
        /\ graph'.locked = graph.locked \ {l} /\ graph'.hidden = [graph.hidden EXCEPT ![l] = 0]
    BY <1>1, <2>1, <2>2, MergeKeeps
  <2>4. SnapFits(x)'
    BY <1>2, <1>9, <2>3 DEF SnapFits
  <2>5. AddsMerge(x, p, s)
    BY <1>9, <2>3 DEF AddsMerge
  <2> QED BY <1>1, <2>3, <2>4, <2>5
<1> QED BY <1>4, <1>5, <1>6, <1>7, <1>8, <1>9, RequestParts

(* What undoing a correction of a field, a hide, a merge does. *)
DropsField(n) ==
  LET e == ledger[n].what.e
      s == ledger[n].snap
  IN /\ Removes(n) /\ ~Blocked(n) /\ ledger[n].what.op = "set_field"
     /\ e \in graph.ents /\ graph.org[e] = ledger[n].what.org
     /\ graph'.ents = graph.ents /\ graph'.hidden = graph.hidden
     /\ graph'.org = [graph.org EXCEPT ![e] = s.was]
     /\ graph'.locked = IF s.hadLock THEN graph.locked ELSE graph.locked \ {e}
     /\ UNCHANGED <<userEdited, raced>>
DropsHide(n) ==
  LET e == ledger[n].what.e
      s == ledger[n].snap
  IN /\ Removes(n) /\ ~Blocked(n) /\ ledger[n].what.op = "hide"
     /\ graph.hidden[e] = s.wrote
     /\ graph'.ents = graph.ents /\ graph'.org = graph.org /\ graph'.locked = graph.locked
     /\ graph'.hidden = [graph.hidden EXCEPT ![e] = s.was]
     /\ UNCHANGED <<userEdited, raced>>
DropsMerge(n) ==
  LET s == ledger[n].snap
  IN /\ Removes(n) /\ ~Blocked(n) /\ ledger[n].what.op = "merge"
     /\ s.winner \in graph.ents /\ s.loser \notin graph.ents
     /\ graph'.ents = graph.ents \cup {s.loser}
     /\ graph'.org = [[graph.org EXCEPT ![s.winner] = IF @ = s.orgAfter THEN s.winnerOrg ELSE @]
                         EXCEPT ![s.loser] = s.loserOrg]
     /\ graph'.locked = IF s.locked THEN graph.locked \cup {s.loser} ELSE graph.locked
     /\ graph'.hidden = [graph.hidden EXCEPT ![s.loser] = s.hidden]
     /\ UNCHANGED <<userEdited, raced>>

(* A correction that is undone. *)
LEMMA UndoneEffect ==
  ASSUME BaseInv, NEW n, Removes(n), ~Blocked(n),
         graph' \in Undone(graph, ledger[n].what, ledger[n].snap), UNCHANGED <<userEdited, raced>>
  PROVE  /\ WellFormed(graph') /\ SnapsFit'
         /\ Idle \/ DropsField(n) \/ DropsHide(n) \/ DropsMerge(n)
<1> DEFINE p == ledger[n].what
           s == ledger[n].snap
<1>1. /\ WellFormed(graph) /\ graph.next \in Nat
      /\ n \in Standing /\ p \in Request /\ SnapFits(n)
      /\ Standing' = Standing \ {n} /\ \A m \in Standing \ {n} : ledger'[m] = ledger[m]
  BY OrderOfStanding DEF BaseInv, WellFormed, Removes, SnapsFit
<1>2. Sound(graph')
  BY DEF Undone
<1> SUFFICES /\ WellFormed(graph') /\ graph.next <= graph'.next
             /\ Idle \/ DropsField(n) \/ DropsHide(n) \/ DropsMerge(n)
  <2>1. ASSUME WellFormed(graph'), graph.next <= graph'.next
        PROVE  SnapsFit'
    <3>1. \A m \in Standing \ {n} : SnapFits(m)'
      BY <1>1, <2>1, SnapsLast
    <3> QED BY <1>1, <3>1 DEF SnapsFit
  <2> QED BY <2>1
<1>3. ASSUME SettingsKept(graph, graph'), p.op \notin {"set_field", "hide", "merge"}
      PROVE  Idle
  <2>1. \A op \in {"set_field", "hide", "merge"} : n \notin What(op)
    BY <1>3 DEF What
  <2>2. \A op \in {"set_field", "hide", "merge"} : What(op)' = What(op)
    BY <2>1, WhatRemoved
  <2>3. \A op : What(op) \subseteq Standing
    BY DEF What
  <2> QED BY <1>1, <1>3, <2>1, <2>2, <2>3 DEF Idle
<1>4. CASE p.op = "reject"
  <2>1. graph' \in UndoReject(graph, s)
    BY <1>4 DEF Undone
  <2>2. s.was \in Rows
    BY <1>1, <1>4 DEF SnapFits
  <2>3. WellFormed(graph') /\ SettingsKept(graph, graph')
    BY <1>1, <1>2, <2>1, <2>2, UndoRejectKeeps
  <2> QED BY <1>3, <1>4, <2>3 DEF SettingsKept
<1>5. CASE p.op = "assert"
  <2>1. graph' \in UndoAssert(graph, s)
    BY <1>5 DEF Undone
  <2>2. /\ s.prior # <<>> => Head(s.prior) \in Rows
        /\ \A i \in DOMAIN s.rivals : s.rivals[i] \in Rows
    BY <1>1, <1>5 DEF SnapFits
  <2>3. WellFormed(graph') /\ SettingsKept(graph, graph')
    BY <1>1, <1>2, <2>1, <2>2, UndoAssertKeeps
  <2> QED BY <1>3, <1>5, <2>3 DEF SettingsKept
<1>6. CASE p.op = "not_same"
  <2>1. graph' \in UndoNotSame(graph, p)
    BY <1>6 DEF Undone
  <2>2. WellFormed(graph') /\ SettingsKept(graph, graph')
    BY <1>1, <2>1, UndoNotSameKeeps
  <2> QED BY <1>3, <1>6, <2>2 DEF SettingsKept
<1>7. CASE p.op = "set_field"
  <2>1. graph' \in UndoSetField(graph, p, s)
    BY <1>7 DEF Undone
  <2>2. s.was \in Orgs /\ p.e \in Ent
    BY <1>1, <1>7, RequestParts DEF SnapFits
  <2>3. /\ WellFormed(graph') /\ p.e \in graph.ents /\ graph.org[p.e] = p.org
        /\ graph'.ents = graph.ents /\ graph'.next = graph.next /\ graph'.hidden = graph.hidden
        /\ graph'.org = [graph.org EXCEPT ![p.e] = s.was]
        /\ graph'.locked = IF s.hadLock THEN graph.locked ELSE graph.locked \ {p.e}
    BY <1>1, <2>1, <2>2, UndoSetFieldKeeps
  <2>4. DropsField(n)
    BY <1>7, <2>3 DEF DropsField
  <2> QED BY <1>1, <2>3, <2>4
<1>8. CASE p.op = "hide"
  <2>1. graph' \in UndoHide(graph, p, s)
    BY <1>8 DEF Undone
  <2>2. s.was \in Int /\ p.e \in Ent
    BY <1>1, <1>8, RequestParts DEF SnapFits
  <2>3. /\ WellFormed(graph') /\ graph.hidden[p.e] = s.wrote
        /\ graph'.ents = graph.ents /\ graph'.next = graph.next /\ graph'.org = graph.org
        /\ graph'.locked = graph.locked
        /\ graph'.hidden = [graph.hidden EXCEPT ![p.e] = s.was]
    BY <1>1, <2>1, <2>2, UndoHideKeeps
  <2>4. DropsHide(n)
    BY <1>8, <2>3 DEF DropsHide
  <2> QED BY <1>1, <2>3, <2>4
<1>9. CASE p.op = "merge"
  <2>1. graph' \in UndoMerge(graph, s)
    BY <1>9 DEF Undone
  <2>2. MergeSnap(s, graph.next)
    BY <1>1, <1>9 DEF SnapFits
  <2>3. /\ WellFormed(graph') /\ s.winner \in graph.ents /\ s.loser \notin graph.ents
        /\ graph'.ents = graph.ents \cup {s.loser} /\ graph'.next = graph.next
        /\ graph'.org = [[graph.org EXCEPT ![s.winner] = IF @ = s.orgAfter THEN s.winnerOrg ELSE @]
                            EXCEPT ![s.loser] = s.loserOrg]
        /\ graph'.locked = IF s.locked THEN graph.locked \cup {s.loser} ELSE graph.locked
        /\ graph'.hidden = [graph.hidden EXCEPT ![s.loser] = s.hidden]
    BY <1>1, <1>2, <2>1, <2>2, UndoMergeKeeps
  <2>4. DropsMerge(n)
    BY <1>9, <2>3 DEF DropsMerge
  <2> QED BY <1>1, <2>3, <2>4
<1> QED BY <1>1, <1>4, <1>5, <1>6, <1>7, <1>8, <1>9, RequestParts

-----------------------------------------------------------------------------
(* The other writers leave the ledger. *)
WritesField(e, v) ==
  /\ Leaves /\ e \in graph.ents \ graph.locked
  /\ graph'.ents = graph.ents /\ graph'.locked = graph.locked /\ graph'.hidden = graph.hidden
  /\ graph'.org = [graph.org EXCEPT ![e] = v]
  /\ UNCHANGED <<userEdited, raced>>
EditsField(e, v) ==
  /\ Leaves /\ e \in graph.ents
  /\ graph'.ents = graph.ents /\ graph'.locked = graph.locked /\ graph'.hidden = graph.hidden
  /\ graph'.org = [graph.org EXCEPT ![e] = v]
  /\ userEdited' = userEdited \cup {<<e, "org">>} /\ UNCHANGED raced
EditsHide(e) ==
  /\ Leaves /\ e \in graph.ents
  /\ graph'.ents = graph.ents /\ graph'.locked = graph.locked /\ graph'.org = graph.org
  /\ graph'.hidden = [graph.hidden EXCEPT ![e] = OnGraph]
  /\ userEdited' = userEdited \cup {<<e, "hidden">>} /\ UNCHANGED raced
MergesPair(l, w) ==
  /\ Leaves /\ l \in graph.ents /\ w \in graph.ents /\ l # w
  /\ graph'.ents = graph.ents \ {l}
  /\ graph'.org = [[graph.org EXCEPT ![w] = MergedOrg(graph, l, w)] EXCEPT ![l] = Blank]
  /\ graph'.locked = graph.locked \ {l} /\ graph'.hidden = [graph.hidden EXCEPT ![l] = 0]
  /\ userEdited \subseteq userEdited' /\ raced \subseteq raced'
  /\ \/ l \in raced' \/ {<<l, "org">>, <<l, "hidden">>} \subseteq userEdited'
     \/ l \notin graph.locked /\ graph.hidden[l] <= 0

(* A step that leaves the entries leaves snapshots that fit. *)
LEMMA SameSnaps ==
  ASSUME BaseInv, Leaves, WellFormed(graph'), graph.next <= graph'.next
  PROVE  SnapsFit'
<1>1. \A m \in Standing : SnapFits(m)'
  BY SnapsLast DEF Leaves
<1> QED BY <1>1 DEF SnapsFit, Leaves

(* A step that leaves the entries and the settings is idle. *)
LEMMA LeavesIdle ==
  ASSUME Leaves, SettingsKept(graph, graph'), UNCHANGED <<userEdited, raced>>
  PROVE  Idle
<1>1. \A op : What(op)' = What(op) /\ What(op) \subseteq Standing
  BY DEF What, Leaves
<1> QED BY <1>1 DEF Leaves, Idle

(* Each step of the other writers keeps the graph well-formed and is of one of the
   four kinds, whatever was merged or written before it. *)
LEMMA OthersEffect ==
  ASSUME CorrectionsAssumption, BaseInv, Others
  PROVE  /\ WellFormed(graph') /\ SnapsFit' /\ ChecksShape' /\ ledger' = ledger
         /\ \/ Idle
            \/ \E e, v : WritesField(e, v) \/ EditsField(e, v)
            \/ \E e : EditsHide(e)
            \/ \E l, w : MergesPair(l, w)
<1>1. /\ WellFormed(graph) /\ graph.next \in Nat /\ OfParts(graph) /\ graph.locked \subseteq graph.ents
      /\ graph.ents \subseteq Ent /\ graph.org \in [Ent -> Orgs] /\ graph.hidden \in [Ent -> Int]
      /\ ChecksShape
  BY DEF BaseInv, WellFormed, OfParts
<1>2. ledger' = ledger
  BY DEF Others, Observe, WriteField, EditField, HideOnGraph, CheckMerge, MergeChecked, Another
<1>3. Leaves
  BY <1>2 DEF Leaves, Standing
<1>4. ASSUME WellFormed(graph'), graph.next <= graph'.next PROVE SnapsFit'
  BY <1>3, <1>4, SameSnaps
<1>5. CASE \E seen \in Sightings : Observe(seen)
  <2>1. PICK seen \in Sightings : Observe(seen)
    BY <1>5
  <2>2. seen.t \in Relations /\ seen.from \in Nat /\ seen.t[1] \in graph.ents /\ seen.t[3] \in graph.ents
    BY <2>1 DEF CorrectionsAssumption, Observe
  <2>3. WellFormed(graph') /\ OnlyRows(graph, graph')
    BY <1>1, <2>1, <2>2, UpsertKeeps, DerivedKeeps DEF Observe
  <2>4. SettingsKept(graph, graph') /\ graph.next <= graph'.next
    BY <2>3 DEF OnlyRows, SettingsKept
  <2>5. UNCHANGED <<checked, userEdited, raced>>
    BY <2>1 DEF Observe
  <2>6. Idle
    BY <1>3, <2>4, <2>5, LeavesIdle
  <2>7. ChecksShape'
    BY <1>1, <2>5 DEF ChecksShape
  <2> QED BY <1>2, <1>4, <2>3, <2>4, <2>6, <2>7
<1>6. CASE \E e \in Touched, v \in Orgs : WriteField(e, v) \/ EditField(e, v)
  <2>1. PICK e \in Touched, v \in Orgs : WriteField(e, v) \/ EditField(e, v)
    BY <1>6
  <2>2. e \in graph.ents /\ e \in Ent /\ graph' = [graph EXCEPT !.org[e] = v] /\ checked' = checked
    BY <1>1, <2>1 DEF WriteField, EditField
  <2>3. HasSettings(graph', graph, [graph.org EXCEPT ![e] = v], graph.locked, graph.hidden)
    BY <1>1, <2>2, SetOrg, Zenon
  <2>4. [graph.org EXCEPT ![e] = v] \in [Ent -> Orgs] /\ graph.locked \in SUBSET graph.ents
    BY <1>1, <2>2
  <2>5. WellFormed(graph')
    BY <1>1, <2>3, <2>4, SettingsGood
  <2>6. graph'.ents = graph.ents /\ graph'.locked = graph.locked /\ graph'.hidden = graph.hidden
        /\ graph'.org = [graph.org EXCEPT ![e] = v] /\ graph'.next = graph.next
    BY <2>3 DEF HasSettings
  <2>7. CASE WriteField(e, v)
    <3>1. e \in graph.ents \ graph.locked /\ UNCHANGED <<userEdited, raced>>
      BY <2>7 DEF WriteField
    <3>2. WritesField(e, v)
      BY <1>3, <2>6, <3>1 DEF WritesField
    <3> QED BY <1>1, <1>2, <1>4, <2>2, <2>5, <2>6, <3>2 DEF ChecksShape
  <2>8. CASE EditField(e, v)
    <3>1. userEdited' = userEdited \cup {<<e, "org">>} /\ UNCHANGED raced
      BY <2>8 DEF EditField
    <3>2. EditsField(e, v)
      BY <1>3, <2>2, <2>6, <3>1 DEF EditsField
    <3> QED BY <1>1, <1>2, <1>4, <2>2, <2>5, <2>6, <3>2 DEF ChecksShape
  <2> QED BY <2>1, <2>7, <2>8
<1>7. CASE \E e \in Touched : HideOnGraph(e)
  <2>1. PICK e \in Touched : HideOnGraph(e)
    BY <1>7
  <2>2. /\ e \in graph.ents /\ e \in Ent /\ graph' = [graph EXCEPT !.hidden[e] = OnGraph]
        /\ checked' = checked /\ userEdited' = userEdited \cup {<<e, "hidden">>} /\ UNCHANGED raced
    BY <1>1, <2>1 DEF HideOnGraph
  <2>3. HasSettings(graph', graph, graph.org, graph.locked, [graph.hidden EXCEPT ![e] = OnGraph])
    BY <1>1, <2>2, SetHidden, Zenon
  <2>4. [graph.hidden EXCEPT ![e] = OnGraph] \in [Ent -> Int] /\ graph.locked \in SUBSET graph.ents
    BY <1>1, <2>2 DEF OnGraph
  <2>5. WellFormed(graph')
    BY <1>1, <2>3, <2>4, SettingsGood
  <2>6. graph'.ents = graph.ents /\ graph'.locked = graph.locked /\ graph'.org = graph.org
        /\ graph'.hidden = [graph.hidden EXCEPT ![e] = OnGraph] /\ graph'.next = graph.next
    BY <2>3 DEF HasSettings
  <2>7. EditsHide(e)
    BY <1>3, <2>2, <2>6 DEF EditsHide
  <2> QED BY <1>1, <1>2, <1>4, <2>2, <2>5, <2>6, <2>7 DEF ChecksShape
<1>8. CASE \E pair \in Mergeable, automated \in BOOLEAN : CheckMerge(pair, automated)
  <2>1. PICK pair \in Mergeable, automated \in BOOLEAN : CheckMerge(pair, automated)
    BY <1>8
  <2>2. UNCHANGED <<graph, userEdited, raced>> /\ checked' = checked \cup {[pair |-> pair, automated |-> automated]}
    BY <2>1 DEF CheckMerge
  <2>3. pair \in Pairs
    BY DEF CorrectionsAssumption
  <2>4. ChecksShape'
    BY <1>1, <2>2, <2>3 DEF ChecksShape
  <2>5. Idle
    BY <1>1, <1>3, <2>2, LeavesIdle DEF SettingsKept
  <2> QED BY <1>1, <1>2, <1>4, <2>2, <2>4, <2>5
<1>9. CASE MergeChecked
  <2>1. PICK c \in checked :
          /\ checked' = checked \ {c}
          /\ \/ \E l \in c.pair : LET w == CHOOSE x \in c.pair : x # l IN
                  /\ c.pair \subseteq graph.ents
                  /\ graph' = Merged(graph, l, w)
                  /\ mergedInto' = [mergedInto EXCEPT ![l] = w]
                  /\ raced' = IF MayMerge(c.pair, c.automated) THEN raced ELSE raced \cup {l}
                  /\ userEdited' = IF c.automated THEN userEdited
                                    ELSE userEdited \cup ({l} \X {"org", "hidden"})
             \/ ~(c.pair \subseteq graph.ents) /\ UNCHANGED <<graph, mergedInto, raced, userEdited, met>>
    BY <1>9 DEF MergeChecked
  <2>2. c.pair \in Pairs /\ c.automated \in BOOLEAN
    BY <1>1 DEF ChecksShape
  <2>3. ChecksShape'
    BY <1>1, <2>1 DEF ChecksShape
  <2>4. CASE UNCHANGED <<graph, raced, userEdited>>
    <3>1. Idle
      BY <1>1, <1>3, <2>4, LeavesIdle DEF SettingsKept
    <3> QED BY <1>1, <1>2, <1>4, <2>3, <2>4, <3>1
  <2>5. ASSUME NEW l \in c.pair,
               LET w == CHOOSE x \in c.pair : x # l IN
                  /\ c.pair \subseteq graph.ents
                  /\ graph' = Merged(graph, l, w)
                  /\ raced' = IF MayMerge(c.pair, c.automated) THEN raced ELSE raced \cup {l}
                  /\ userEdited' = IF c.automated THEN userEdited
                                    ELSE userEdited \cup ({l} \X {"org", "hidden"})
        PROVE  /\ WellFormed(graph') /\ graph'.next = graph.next
               /\ \E w : MergesPair(l, w)
    <3> DEFINE w == CHOOSE x \in c.pair : x # l
    <3>1. w \in c.pair /\ w # l
      BY <2>2, OtherOfPair
    <3>2. /\ l \in graph.ents /\ w \in graph.ents /\ graph' = Merged(graph, l, w)
      BY <2>5, <3>1
    <3>3. /\ raced' = IF MayMerge(c.pair, c.automated) THEN raced ELSE raced \cup {l}
          /\ userEdited' = IF c.automated THEN userEdited
                            ELSE userEdited \cup ({l} \X {"org", "hidden"})
      BY <2>5
    <3> HIDE DEF w
    <3>4. /\ WellFormed(graph') /\ graph'.ents = graph.ents \ {l} /\ graph'.next = graph.next
          /\ graph'.org = [[graph.org EXCEPT ![w] = MergedOrg(graph, l, w)] EXCEPT ![l] = Blank]
          /\ graph'.locked = graph.locked \ {l} /\ graph'.hidden = [graph.hidden EXCEPT ![l] = 0]
      BY <1>1, <3>1, <3>2, MergedEffect
    <3>5. raced \subseteq raced' /\ userEdited \subseteq userEdited'
      BY <3>3
    <3>6. \/ l \in raced' \/ {<<l, "org">>, <<l, "hidden">>} \subseteq userEdited'
          \/ l \notin graph.locked /\ graph.hidden[l] <= 0
      <4>1. CASE ~c.automated
        BY <3>3, <4>1
      <4>2. CASE ~MayMerge(c.pair, c.automated)
        BY <3>3, <4>2
      <4>3. CASE c.automated /\ MayMerge(c.pair, c.automated)
        <5>1. ~HasUserCorrections(l)
          BY <4>3 DEF MayMerge
        <5>2. graph.hidden[l] \in Int
          BY <1>1, <3>2
        <5> QED BY <5>1, <5>2 DEF HasUserCorrections
      <4> QED BY <2>2, <4>1, <4>2, <4>3
    <3>7. MergesPair(l, w)
      BY <1>3, <3>1, <3>2, <3>4, <3>5, <3>6 DEF MergesPair
    <3> QED BY <3>4, <3>7
  <2> QED BY <1>1, <1>2, <1>4, <2>1, <2>3, <2>4, <2>5
<1> QED BY <1>5, <1>6, <1>7, <1>8, <1>9 DEF Others

(* What a step may do to the corrections of entities and to what they are about. *)
Effect ==
  \/ Idle
  \/ \E x, s : \E p \in Request : AddsField(x, p, s) \/ AddsHide(x, p, s) \/ AddsMerge(x, p, s)
  \/ \E n \in Standing : DropsField(n) \/ DropsHide(n) \/ DropsMerge(n)
  \/ \E e, v : WritesField(e, v) \/ EditsField(e, v)
  \/ \E e : EditsHide(e)
  \/ \E l, w : MergesPair(l, w)

(* The kinds of steps: an entry waits, is declined or fails; one becomes applied;
   one is undone. *)
UsersStill == UNCHANGED <<checked, userEdited, raced>>
Waits == Leaves /\ UNCHANGED <<graph, mergedInto>> /\ UsersStill
Makes(x, p, done) ==
  /\ done \in Applied(graph, p, NextOrder) /\ graph' = done.graph
  /\ Adds(x, p, done.snap) /\ Loses(p, done.snap) /\ UsersStill
Takes(n) ==
  /\ Removes(n) /\ ~Blocked(n)
  /\ graph' \in Undone(graph, ledger[n].what, ledger[n].snap)
  /\ mergedInto' = IF ledger[n].what.op # "merge" THEN mergedInto
                   ELSE [mergedInto EXCEPT ![ledger[n].snap.loser] = ledger[n].snap.loser]
  /\ UsersStill

(* A numbered entry stays what it is, under its number. *)
NumbersStay ==
  \A n \in Numbered : /\ n \in Numbered' /\ ledger'[n].what = ledger[n].what
                      /\ ledger'[n].order = ledger[n].order

LEMMA NumbersWritten ==
  ASSUME NEW n, NEW p, NEW status, NEW order, NEW snap, Writes(n, Entry(p, status, order, snap)),
         n \in Numbered => p = ledger[n].what /\ order = ledger[n].order
  PROVE  NumbersStay
<1>1. ledger'[n].what = p /\ ledger'[n].order = order
  BY EntryFields DEF Writes
<1>2. \A m \in DOMAIN ledger \ {n} : ledger'[m] = ledger[m]
  BY DEF Writes
<1>3. DOMAIN ledger \subseteq DOMAIN ledger'
  BY DEF Writes
<1> QED BY <1>1, <1>2, <1>3 DEF Numbered, NumbersStay

(* Every step is of one of these kinds or is of other writers. *)
LEMMA StepKinds ==
  ASSUME CorrectionsAssumption, LedgerShape, OrdersTell, Next
  PROVE  /\ LedgerShape' /\ OrdersTell' /\ NumbersStay
         /\ \/ Waits
            \/ \E x, done : \E p \in Request : Makes(x, p, done)
            \/ \E n \in Standing : Takes(n)
            \/ Others
<1>1. /\ NextOrder \in Nat
      /\ \A n \in DOMAIN ledger :
           /\ ledger[n].what \in Request /\ ledger[n].order \in Nat
           /\ ledger[n] = Entry(ledger[n].what, ledger[n].status, ledger[n].order, ledger[n].snap)
  BY LedgerDomain, OrderOfStanding
<1>2. ASSUME NEW n \in DOMAIN ledger, ledger[n].status = "pending" PROVE ledger[n].order = 0 /\ n \notin Numbered
  <2>1. ledger[n].order \in Nat /\ ~(ledger[n].order > 0)
    BY <1>1, <1>2 DEF OrdersTell
  <2> QED BY <2>1 DEF Numbered
<1>3. Len(ledger) + 1 \notin DOMAIN ledger => Len(ledger) + 1 \notin Numbered
  BY DEF Numbered
<1> DEFINE Kinds == /\ LedgerShape' /\ OrdersTell' /\ NumbersStay
                    /\ \/ Waits
                       \/ \E x, done : \E p \in Request : Makes(x, p, done)
                       \/ \E n \in Standing : Takes(n)
                       \/ Others
<1>4. ASSUME NEW n, NEW p \in Request, NEW status \in {"pending", "declined", "failed"}, NEW snap,
             LedgerShape', Writes(n, Entry(p, status, 0, snap)), n \notin Numbered,
             n \in DOMAIN ledger => ledger[n].order = 0, UNCHANGED <<graph, mergedInto>>, UsersStill
      PROVE  Kinds
  <2>1. OrdersTell' /\ Leaves
    BY <1>4, WaitingWritten
  <2>2. NumbersStay
    BY <1>4, NumbersWritten
  <2> QED BY <1>4, <2>1, <2>2 DEF Waits
<1>5. ASSUME NEW n, NEW p \in Request, NEW done \in Applied(graph, p, NextOrder), graph' = done.graph,
             LedgerShape', Writes(n, Entry(p, "applied", NextOrder, done.snap)), n \notin Numbered,
             n \in DOMAIN ledger => ledger[n].order = 0, Loses(p, done.snap), UsersStill
      PROVE  Kinds
  <2>1. OrdersTell' /\ Adds(n, p, done.snap)
    BY <1>5, AppliedWritten
  <2>2. NumbersStay
    BY <1>5, NumbersWritten
  <2>3. Makes(n, p, done)
    BY <1>5, <2>1 DEF Makes
  <2> QED BY <1>5, <2>1, <2>2, <2>3
<1>6. ASSUME NEW p \in Requests, State(p) PROVE Kinds
  <2>1. p \in Request
    BY DEF CorrectionsAssumption
  <2>2. PICK done \in Applied(graph, p, NextOrder) :
          /\ graph' = done.graph
          /\ ledger' = Append(ledger, Entry(p, "applied", NextOrder, done.snap))
          /\ Loses(p, done.snap)
    BY <1>6 DEF State
  <2>3. UsersStill
    BY <1>6 DEF State, OthersStill, UsersStill
  <2>4. /\ LedgerShape' /\ Writes(Len(ledger) + 1, Entry(p, "applied", NextOrder, done.snap))
        /\ Len(ledger) + 1 \notin DOMAIN ledger
    BY <1>1, <2>1, <2>2, LedgerAppended DEF Statuses
  <2> HIDE DEF Kinds
  <2> QED BY <1>3, <1>5, <2>1, <2>2, <2>3, <2>4
<1>7. ASSUME NEW p \in Requests, Propose(p) PROVE Kinds
  <2>1. p \in Request
    BY DEF CorrectionsAssumption
  <2>2. PICK status \in {"pending", "declined"} : ledger' = Append(ledger, Entry(p, status, 0, NoSnap))
    BY <1>7 DEF Propose
  <2>3. UNCHANGED <<graph, mergedInto>> /\ UsersStill
    BY <1>7 DEF Propose, OthersStill, UsersStill
  <2>4. /\ LedgerShape' /\ Writes(Len(ledger) + 1, Entry(p, status, 0, NoSnap))
        /\ Len(ledger) + 1 \notin DOMAIN ledger
    BY <1>1, <2>1, <2>2, LedgerAppended DEF Statuses
  <2> HIDE DEF Kinds
  <2> QED BY <1>3, <1>4, <2>1, <2>2, <2>3, <2>4
<1>8. ASSUME NEW n \in DOMAIN ledger, Approve(n) PROVE Kinds
  <2> DEFINE p == ledger[n].what
  <2>1. ledger[n].status = "pending" /\ ledger[n].order = 0 /\ n \notin Numbered /\ p \in Request
    BY <1>1, <1>2, <1>8 DEF Approve
  <2>2. UsersStill
    BY <1>8 DEF Approve, OthersStill, UsersStill
  <2>3. CASE \E done \in Applied(graph, p, NextOrder) :
               /\ graph' = done.graph
               /\ ledger' = [ledger EXCEPT ![n] = Entry(p, "applied", NextOrder, done.snap)]
               /\ Loses(p, done.snap)
    <3>1. PICK done \in Applied(graph, p, NextOrder) :
               /\ graph' = done.graph
               /\ ledger' = [ledger EXCEPT ![n] = Entry(p, "applied", NextOrder, done.snap)]
               /\ Loses(p, done.snap)
      BY <2>3
    <3>2. LedgerShape' /\ Writes(n, Entry(p, "applied", NextOrder, done.snap))
      BY <1>1, <2>1, <3>1, LedgerEdited DEF Statuses
    <3> HIDE DEF Kinds
    <3> QED BY <1>5, <2>1, <2>2, <3>1, <3>2
  <2>4. CASE ledger' = [ledger EXCEPT ![n].status = "failed"] /\ UNCHANGED <<graph, mergedInto>>
    <3>1. LedgerShape' /\ Writes(n, Entry(p, "failed", ledger[n].order, ledger[n].snap))
      BY <1>1, <2>4, LedgerMarked DEF Statuses
    <3>2. Writes(n, Entry(p, "failed", 0, ledger[n].snap))
      BY <2>1, <3>1
    <3> HIDE DEF Kinds
    <3> QED BY <1>4, <2>1, <2>2, <2>4, <3>1, <3>2
  <2> QED BY <1>8, <2>3, <2>4 DEF Approve
<1>9. ASSUME NEW n \in DOMAIN ledger, Decline(n) PROVE Kinds
  <2>1. ledger[n].status = "pending" /\ ledger[n].order = 0 /\ n \notin Numbered
    BY <1>2, <1>9 DEF Decline
  <2>2. /\ UNCHANGED <<graph, mergedInto>> /\ UsersStill
        /\ ledger' = [ledger EXCEPT ![n].status = "declined"]
    BY <1>9 DEF Decline, OthersStill, UsersStill
  <2>3. LedgerShape' /\ Writes(n, Entry(ledger[n].what, "declined", ledger[n].order, ledger[n].snap))
    BY <1>1, <2>2, LedgerMarked DEF Statuses
  <2>4. Writes(n, Entry(ledger[n].what, "declined", 0, ledger[n].snap))
    BY <2>1, <2>3
  <2> HIDE DEF Kinds
  <2> QED BY <1>1, <1>4, <2>1, <2>2, <2>3, <2>4
<1>10. ASSUME NEW n \in DOMAIN ledger, Undo(n) PROVE Kinds
  <2>1. /\ n \in Standing /\ ~Blocked(n)
        /\ graph' \in Undone(graph, ledger[n].what, ledger[n].snap)
        /\ ledger' = [ledger EXCEPT ![n].status = "reverted"]
        /\ mergedInto' = IF ledger[n].what.op # "merge" THEN mergedInto
                         ELSE [mergedInto EXCEPT ![ledger[n].snap.loser] = ledger[n].snap.loser]
        /\ UsersStill
    BY <1>10 DEF Undo, OthersStill, UsersStill, Standing
  <2>2. LedgerShape' /\ Writes(n, Entry(ledger[n].what, "reverted", ledger[n].order, ledger[n].snap))
    BY <1>1, <2>1, LedgerMarked DEF Statuses
  <2>3. OrdersTell' /\ Removes(n)
    BY <1>1, <2>1, <2>2, RevertedWritten
  <2>4. NumbersStay
    BY <2>2, NumbersWritten
  <2>5. Takes(n)
    BY <2>1, <2>3 DEF Takes
  <2> QED BY <2>1, <2>2, <2>3, <2>4, <2>5
<1>11. ASSUME Others PROVE Kinds
  <2>1. ledger' = ledger
    BY <1>11 DEF Others, Another, Observe, WriteField, EditField, HideOnGraph, CheckMerge, MergeChecked
  <2>2. LedgerShape' /\ OrdersTell' /\ NumbersStay
    BY <2>1 DEF LedgerShape, OrdersTell, NextOrder, Numbered, NumbersStay
  <2> QED BY <1>11, <2>2
<1> QED BY <1>6, <1>7, <1>8, <1>9, <1>10, <1>11 DEF Next, Correct

(* Every step keeps the first part of the invariant and has one of the effects. *)
LEMMA StepEffect ==
  ASSUME CorrectionsAssumption, BaseInv, Next
  PROVE  BaseInv' /\ Effect
<1>1. /\ LedgerShape' /\ OrdersTell'
      /\ \/ Waits
         \/ \E x, done : \E p \in Request : Makes(x, p, done)
         \/ \E n \in Standing : Takes(n)
         \/ Others
  BY StepKinds DEF BaseInv
<1>2. UsersStill => ChecksShape' /\ UNCHANGED <<userEdited, raced>>
  BY DEF BaseInv, ChecksShape, UsersStill
<1>3. CASE Waits
  <2>1. Leaves /\ UNCHANGED graph /\ UsersStill
    BY <1>3 DEF Waits
  <2>2. WellFormed(graph') /\ graph.next \in Nat /\ graph'.next = graph.next
    BY <2>1 DEF BaseInv, WellFormed
  <2>3. SnapsFit'
    BY <2>1, <2>2, SameSnaps
  <2>4. Idle
    BY <1>2, <2>1, <2>2, LeavesIdle DEF SettingsKept
  <2> QED BY <1>1, <1>2, <2>1, <2>2, <2>3, <2>4 DEF BaseInv, Effect
<1>4. ASSUME NEW x, NEW done, NEW p \in Request, Makes(x, p, done) PROVE BaseInv' /\ Effect
  <2>1. /\ done \in Applied(graph, p, NextOrder) /\ graph' = done.graph
        /\ Adds(x, p, done.snap) /\ UsersStill
    BY <1>4 DEF Makes
  <2>2. /\ WellFormed(graph') /\ SnapsFit'
        /\ Idle \/ AddsField(x, p, done.snap) \/ AddsHide(x, p, done.snap) \/ AddsMerge(x, p, done.snap)
    BY <1>2, <2>1, AppliedEffect
  <2>3. Effect
    BY <2>2 DEF Effect
  <2> QED BY <1>1, <1>2, <2>1, <2>2, <2>3 DEF BaseInv
<1>5. ASSUME NEW n \in Standing, Takes(n) PROVE BaseInv' /\ Effect
  <2>1. /\ Removes(n) /\ ~Blocked(n) /\ UsersStill
        /\ graph' \in Undone(graph, ledger[n].what, ledger[n].snap)
    BY <1>5 DEF Takes
  <2>2. /\ WellFormed(graph') /\ SnapsFit'
        /\ Idle \/ DropsField(n) \/ DropsHide(n) \/ DropsMerge(n)
    BY <1>2, <2>1, UndoneEffect
  <2> QED BY <1>1, <1>2, <2>1, <2>2 DEF BaseInv, Effect
<1>6. CASE Others
  <2>1. /\ WellFormed(graph') /\ SnapsFit' /\ ChecksShape'
        /\ \/ Idle
           \/ \E e, v : WritesField(e, v) \/ EditsField(e, v)
           \/ \E e : EditsHide(e)
           \/ \E l, w : MergesPair(l, w)
    BY <1>6, OthersEffect
  <2> QED BY <1>1, <2>1 DEF BaseInv, Effect
<1> QED BY <1>1, <1>3, <1>4, <1>5, <1>6

(* The first part of the invariant holds at the start. *)
LEMMA BaseStart ==
  ASSUME CorrectionsAssumption, Init
  PROVE  BaseInv
<1>1. graph = Initial /\ ledger = <<>> /\ checked = {}
  BY DEF Init
<1>2. ledger \in Seq(Entries({})) /\ DOMAIN ledger = {}
  BY <1>1
<1> QED BY <1>1, <1>2 DEF CorrectionsAssumption, BaseInv, LedgerShape, OrdersTell, SnapsFit, ChecksShape, Standing

-----------------------------------------------------------------------------
(* The corrections of one entity, before and after a step. *)

(* What a correction that is made adds to the corrections of an entity. *)
LEMMA AddViews ==
  ASSUME BaseInv, NEW x, NEW p, NEW s, Adds(x, p, s)
  PROVE  /\ ledger'[x].what = p /\ ledger'[x].snap = s /\ ledger'[x].order = NextOrder
         /\ \A n \in Standing : /\ ledger'[n] = ledger[n] /\ n # x
                                /\ ledger[n].order \in Nat /\ 0 < ledger[n].order
                                /\ ledger[n].order < NextOrder
         /\ \A e : FieldsOf(e)' = FieldsOf(e) \cup IF p.op = "set_field" /\ p.e = e THEN {x} ELSE {}
         /\ \A e : HidesOf(e)' = HidesOf(e) \cup IF p.op = "hide" /\ p.e = e THEN {x} ELSE {}
         /\ What("merge")' = What("merge") \cup IF p.op = "merge" THEN {x} ELSE {}
         /\ MergedByUser' = MergedByUser \cup IF p.op = "merge" THEN {s.loser} ELSE {}
         /\ \A e : \A m \in Standing : FieldsBefore(e, m)' = FieldsBefore(e, m)
         /\ \A e : \A m \in Standing : HidesBefore(e, m)' = HidesBefore(e, m)
         /\ \A e : FieldsOf(e) \subseteq FieldsBefore(e, x)' /\ HidesOf(e) \subseteq HidesBefore(e, x)'
         /\ NextOrder \in Nat
<1>1. /\ ledger'[x].what = p /\ ledger'[x].snap = s /\ ledger'[x].order = NextOrder
      /\ ledger'[x].status = "applied"
  BY DEF Adds, Entry
<1>2. /\ x \notin Standing /\ Standing' = Standing \cup {x}
      /\ \A n \in Standing : ledger'[n] = ledger[n]
  BY DEF Adds
<1>3. NextOrder \in Nat /\ \A n \in Standing : /\ ledger[n].order \in Nat /\ 0 < ledger[n].order
                                               /\ ledger[n].order < NextOrder
  BY OrderOfStanding DEF BaseInv
<1>4. \A op : What(op)' = What(op) \cup IF p.op = op THEN {x} ELSE {}
  BY <1>1, <1>2 DEF What
<1>5. \A op : What(op) \subseteq Standing
  BY DEF What
<1>6. \A e : FieldsOf(e)' = FieldsOf(e) \cup IF p.op = "set_field" /\ p.e = e THEN {x} ELSE {}
  BY <1>1, <1>2, <1>4, <1>5 DEF FieldsOf
<1>7. \A e : HidesOf(e)' = HidesOf(e) \cup IF p.op = "hide" /\ p.e = e THEN {x} ELSE {}
  BY <1>1, <1>2, <1>4, <1>5 DEF HidesOf
<1>8. MergedByUser' = MergedByUser \cup IF p.op = "merge" THEN {s.loser} ELSE {}
  BY <1>1, <1>2, <1>4, <1>5 DEF MergedByUser
<1>9. \A e : FieldsOf(e) \subseteq Standing /\ HidesOf(e) \subseteq Standing
  BY <1>5 DEF FieldsOf, HidesOf
<1>10. ASSUME NEW e, NEW m \in Standing
       PROVE  FieldsBefore(e, m)' = FieldsBefore(e, m) /\ HidesBefore(e, m)' = HidesBefore(e, m)
  <2>1. ~(NextOrder < ledger[m].order)
    BY <1>3
  <2> QED BY <1>1, <1>2, <1>6, <1>7, <1>9, <2>1 DEF FieldsBefore, HidesBefore
<1>11. \A e : FieldsOf(e) \subseteq FieldsBefore(e, x)' /\ HidesOf(e) \subseteq HidesBefore(e, x)'
  BY <1>1, <1>2, <1>3, <1>6, <1>7, <1>9 DEF FieldsBefore, HidesBefore
<1>12. What("merge")' = What("merge") \cup IF p.op = "merge" THEN {x} ELSE {}
  BY <1>4
<1> QED BY <1>1, <1>2, <1>3, <1>6, <1>7, <1>8, <1>10, <1>11, <1>12

(* What an undone one takes from them. *)
LEMMA RemoveViews ==
  ASSUME BaseInv, NEW x, Removes(x)
  PROVE  /\ \A n \in Standing \ {x} : ledger'[n] = ledger[n]
         /\ \A n \in Standing : ledger[n].order \in Nat /\ 0 < ledger[n].order
         /\ \A m, n \in Standing : ledger[m].order = ledger[n].order => m = n
         /\ \A e : FieldsOf(e)' = FieldsOf(e) \ {x}
         /\ \A e : HidesOf(e)' = HidesOf(e) \ {x}
         /\ What("merge")' = What("merge") \ {x}
         /\ MergedByUser' = {ledger[k].snap.loser : k \in What("merge") \ {x}}
         /\ \A e : \A m \in Standing \ {x} : FieldsBefore(e, m)' = FieldsBefore(e, m) \ {x}
         /\ \A e : \A m \in Standing \ {x} : HidesBefore(e, m)' = HidesBefore(e, m) \ {x}
<1>1. x \in Standing /\ Standing' = Standing \ {x} /\ \A n \in Standing \ {x} : ledger'[n] = ledger[n]
  BY DEF Removes
<1>2. /\ \A n \in Standing : ledger[n].order \in Nat /\ 0 < ledger[n].order
      /\ \A m, n \in Standing : ledger[m].order = ledger[n].order => m = n
  BY OrderOfStanding DEF BaseInv
<1>3. \A op : What(op)' = What(op) \ {x} /\ What(op) \subseteq Standing
  BY <1>1 DEF What
<1>4. \A e : FieldsOf(e)' = FieldsOf(e) \ {x} /\ FieldsOf(e) \subseteq Standing
  BY <1>1, <1>3 DEF FieldsOf
<1>5. \A e : HidesOf(e)' = HidesOf(e) \ {x} /\ HidesOf(e) \subseteq Standing
  BY <1>1, <1>3 DEF HidesOf
<1>6. What("merge")' = What("merge") \ {x}
  BY <1>3
<1>7. MergedByUser' = {ledger[k].snap.loser : k \in What("merge") \ {x}}
  BY <1>1, <1>3 DEF MergedByUser
<1>8. \A e : \A m \in Standing \ {x} : FieldsBefore(e, m)' = FieldsBefore(e, m) \ {x}
  BY <1>1, <1>4 DEF FieldsBefore
<1>9. \A e : \A m \in Standing \ {x} : HidesBefore(e, m)' = HidesBefore(e, m) \ {x}
  BY <1>1, <1>5 DEF HidesBefore
<1> QED BY <1>1, <1>2, <1>4, <1>5, <1>6, <1>7, <1>8, <1>9

(* The corrections of every entity are as they were. *)
SameViews ==
  /\ \A op \in {"set_field", "hide", "merge"} : \A n \in What(op) : ledger'[n] = ledger[n]
  /\ \A e : FieldsOf(e)' = FieldsOf(e)
  /\ \A e : HidesOf(e)' = HidesOf(e)
  /\ What("merge")' = What("merge")
  /\ MergedByUser' = MergedByUser
  /\ \A e : \A m \in What("set_field") \cup What("merge") : FieldsBefore(e, m)' = FieldsBefore(e, m)
  /\ \A e : \A m \in What("hide") \cup What("merge") : HidesBefore(e, m)' = HidesBefore(e, m)

(* So they are after an idle step and after one that leaves the entries. *)
LEMMA StillViews ==
  ASSUME Idle \/ Leaves
  PROVE  SameViews
<1>1. \A op \in {"set_field", "hide", "merge"} : /\ What(op)' = What(op)
                                                 /\ \A n \in What(op) : ledger'[n] = ledger[n]
  BY DEF Idle, Leaves, What
<1>2. \A e : FieldsOf(e)' = FieldsOf(e) /\ FieldsOf(e) \subseteq What("set_field")
  BY <1>1 DEF FieldsOf
<1>3. \A e : HidesOf(e)' = HidesOf(e) /\ HidesOf(e) \subseteq What("hide")
  BY <1>1 DEF HidesOf
<1>4. MergedByUser' = MergedByUser
  BY <1>1 DEF MergedByUser
<1>5. \A e : \A m \in What("set_field") \cup What("merge") : FieldsBefore(e, m)' = FieldsBefore(e, m)
  BY <1>1, <1>2 DEF FieldsBefore
<1>6. \A e : \A m \in What("hide") \cup What("merge") : HidesBefore(e, m)' = HidesBefore(e, m)
  BY <1>1, <1>3 DEF HidesBefore
<1> QED BY <1>1, <1>2, <1>3, <1>4, <1>5, <1>6 DEF SameViews

(* What the standing corrections of an entity, and the merges, are. *)
LEMMA Bases ==
  ASSUME BaseInv
  PROVE  /\ \A e : \A n \in FieldsOf(e) : /\ n \in Standing /\ n \in What("set_field") /\ e \in Ent
                                          /\ ledger[n].what.e = e /\ ledger[n].what.op = "set_field"
         /\ \A e : \A n \in HidesOf(e) : /\ n \in Standing /\ n \in What("hide") /\ e \in Ent
                                         /\ ledger[n].what.e = e /\ ledger[n].what.op = "hide"
                                         /\ ledger[n].snap.wrote = ledger[n].order
                                         /\ ledger[n].snap.was \in Int
         /\ \A k \in What("merge") :
              /\ k \in Standing /\ ledger[k].what.op = "merge"
              /\ ledger[k].snap.loser \in Ent /\ ledger[k].snap.winner \in Ent
              /\ ledger[k].snap.loser # ledger[k].snap.winner
              /\ ledger[k].snap.locked \in BOOLEAN /\ ledger[k].snap.hidden \in Int
              /\ MergeSnap(ledger[k].snap, graph.next)
         /\ \A n \in Standing : ledger[n].order \in Nat /\ 0 < ledger[n].order
         /\ \A m, n \in Standing : ledger[m].order = ledger[n].order => m = n
<1>1. /\ \A n \in Standing : /\ ledger[n].what \in Request /\ ledger[n].order \in Nat
                             /\ 0 < ledger[n].order /\ SnapFits(n)
      /\ \A m, n \in Standing : ledger[m].order = ledger[n].order => m = n
  BY OrderOfStanding DEF BaseInv, SnapsFit
<1>2. ASSUME NEW e, NEW n \in FieldsOf(e)
      PROVE  /\ n \in Standing /\ n \in What("set_field") /\ e \in Ent
             /\ ledger[n].what.e = e /\ ledger[n].what.op = "set_field"
  <2>1. n \in Standing /\ n \in What("set_field") /\ ledger[n].what.e = e /\ ledger[n].what.op = "set_field"
    BY DEF FieldsOf, What
  <2> QED BY <1>1, <2>1, RequestParts
<1>3. ASSUME NEW e, NEW n \in HidesOf(e)
      PROVE  /\ n \in Standing /\ n \in What("hide") /\ e \in Ent
             /\ ledger[n].what.e = e /\ ledger[n].what.op = "hide"
             /\ ledger[n].snap.wrote = ledger[n].order /\ ledger[n].snap.was \in Int
  <2>1. n \in Standing /\ n \in What("hide") /\ ledger[n].what.e = e /\ ledger[n].what.op = "hide"
    BY DEF HidesOf, What
  <2>2. e \in Ent
    BY <1>1, <2>1, RequestParts
  <2> QED BY <1>1, <2>1, <2>2 DEF SnapFits
<1>4. ASSUME NEW k \in What("merge")
      PROVE  /\ k \in Standing /\ ledger[k].what.op = "merge"
             /\ ledger[k].snap.loser \in Ent /\ ledger[k].snap.winner \in Ent
             /\ ledger[k].snap.loser # ledger[k].snap.winner
             /\ ledger[k].snap.locked \in BOOLEAN /\ ledger[k].snap.hidden \in Int
             /\ MergeSnap(ledger[k].snap, graph.next)
  <2>1. k \in Standing /\ ledger[k].what.op = "merge"
    BY DEF What
  <2>2. MergeSnap(ledger[k].snap, graph.next)
    BY <1>1, <2>1 DEF SnapFits
  <2> QED BY <2>1, <2>2 DEF MergeSnap
<1> QED BY <1>1, <1>2, <1>3, <1>4

(* What the undo guard lets through. *)
LEMMA FieldNotBlocked ==
  ASSUME BaseInv, NEW n, DropsField(n), NEW e, e = ledger[n].what.e
  PROVE  /\ n \in FieldsOf(e)
         /\ \A m \in FieldsOf(e) : m # n => ledger[m].order < ledger[n].order
         /\ \A k \in What("merge") : ledger[n].order < ledger[k].order =>
              e # ledger[k].snap.loser /\ e # ledger[k].snap.winner
<1>1. n \in Standing /\ ~Blocked(n) /\ ledger[n].what.op = "set_field"
  BY DEF DropsField, Removes
<1>2. n \in FieldsOf(e)
  BY <1>1 DEF FieldsOf, What
<1>3. \A m \in Standing : Later(m, n) => ~Blocks(m, n)
  BY <1>1 DEF Blocked, Standing
<1>4. TargetKeys(ledger[n]) = {<<"field", e>>} /\ EntitiesOf(ledger[n].what) = {e}
  BY <1>1 DEF TargetKeys, EntitiesOf
<1>5. ASSUME NEW m \in FieldsOf(e), m # n PROVE ledger[m].order < ledger[n].order
  <2>1. m \in Standing /\ ledger[m].what.e = e /\ ledger[m].what.op = "set_field"
    BY Bases
  <2>2. TargetKeys(ledger[m]) = {<<"field", e>>}
    BY <2>1 DEF TargetKeys
  <2>3. TargetKeys(ledger[m]) \cap TargetKeys(ledger[n]) # {}
    BY <1>4, <2>2
  <2>4. Blocks(m, n)
    BY <1>1, <2>3 DEF Blocks
  <2>5. ledger[m].order \in Nat /\ ledger[n].order \in Nat /\ ledger[m].order # ledger[n].order
    BY <1>1, <1>5, <2>1, Bases
  <2> QED BY <1>3, <2>1, <2>4, <2>5 DEF Later
<1>6. ASSUME NEW k \in What("merge"), ledger[n].order < ledger[k].order
      PROVE  e # ledger[k].snap.loser /\ e # ledger[k].snap.winner
  <2>1. k \in Standing /\ ledger[k].what.op = "merge"
    BY Bases
  <2>2. ledger[k].order \in Nat /\ ledger[n].order \in Nat
    BY <1>1, <2>1, Bases
  <2>3. ~Blocks(k, n)
    BY <1>3, <1>6, <2>1, <2>2 DEF Later
  <2>4. EntitiesOf(ledger[n].what) \cap {ledger[k].snap.winner, ledger[k].snap.loser} = {}
    BY <1>1, <2>1, <2>3 DEF Blocks
  <2> QED BY <1>4, <2>4
<1> QED BY <1>2, <1>5, <1>6

(* The guard lets only the last hide of an entity be undone, and none from before a
   merge of the entity. *)
LEMMA HideNotBlocked ==
  ASSUME BaseInv, NEW n, DropsHide(n), NEW e, e = ledger[n].what.e
  PROVE  /\ n \in HidesOf(e)
         /\ \A m \in HidesOf(e) : m # n => ledger[m].order < ledger[n].order
         /\ \A k \in What("merge") : ledger[n].order < ledger[k].order =>
              e # ledger[k].snap.loser /\ e # ledger[k].snap.winner
<1>1. n \in Standing /\ ~Blocked(n) /\ ledger[n].what.op = "hide"
  BY DEF DropsHide, Removes
<1>2. n \in HidesOf(e)
  BY <1>1 DEF HidesOf, What
<1>3. \A m \in Standing : Later(m, n) => ~Blocks(m, n)
  BY <1>1 DEF Blocked, Standing
<1>4. TargetKeys(ledger[n]) = {<<"hide", e>>} /\ EntitiesOf(ledger[n].what) = {e}
  BY <1>1 DEF TargetKeys, EntitiesOf
<1>5. ASSUME NEW m \in HidesOf(e), m # n PROVE ledger[m].order < ledger[n].order
  <2>1. m \in Standing /\ ledger[m].what.e = e /\ ledger[m].what.op = "hide"
    BY Bases
  <2>2. TargetKeys(ledger[m]) = {<<"hide", e>>}
    BY <2>1 DEF TargetKeys
  <2>3. TargetKeys(ledger[m]) \cap TargetKeys(ledger[n]) # {}
    BY <1>4, <2>2
  <2>4. Blocks(m, n)
    BY <1>1, <2>3 DEF Blocks
  <2>5. ledger[m].order \in Nat /\ ledger[n].order \in Nat /\ ledger[m].order # ledger[n].order
    BY <1>1, <1>5, <2>1, Bases
  <2> QED BY <1>3, <2>1, <2>4, <2>5 DEF Later
<1>6. ASSUME NEW k \in What("merge"), ledger[n].order < ledger[k].order
      PROVE  e # ledger[k].snap.loser /\ e # ledger[k].snap.winner
  <2>1. k \in Standing /\ ledger[k].what.op = "merge"
    BY Bases
  <2>2. ledger[k].order \in Nat /\ ledger[n].order \in Nat
    BY <1>1, <2>1, Bases
  <2>3. ~Blocks(k, n)
    BY <1>3, <1>6, <2>1, <2>2 DEF Later
  <2>4. EntitiesOf(ledger[n].what) \cap {ledger[k].snap.winner, ledger[k].snap.loser} = {}
    BY <1>1, <2>1, <2>3 DEF Blocks
  <2> QED BY <1>4, <2>4
<1> QED BY <1>2, <1>5, <1>6

(* The guard lets a merge be undone only while no later correction names its survivor. *)
LEMMA MergeNotBlocked ==
  ASSUME BaseInv, NEW k, DropsMerge(k), NEW w, w = ledger[k].snap.winner
  PROVE  /\ k \in What("merge") /\ k \in Standing
         /\ \A n \in FieldsOf(w) : ledger[n].order < ledger[k].order
         /\ \A n \in HidesOf(w) : ledger[n].order < ledger[k].order
<1>1. k \in Standing /\ ~Blocked(k) /\ ledger[k].what.op = "merge"
  BY DEF DropsMerge, Removes
<1>2. k \in What("merge")
  BY <1>1 DEF What
<1>3. \A m \in Standing : Later(m, k) => w \notin EntitiesOf(ledger[m].what)
  BY <1>1 DEF Blocked, Blocks, Standing
<1>4. ASSUME NEW n \in FieldsOf(w) \cup HidesOf(w) PROVE ledger[n].order < ledger[k].order
  <2>1. n \in Standing /\ ledger[n].what.e = w /\ ledger[n].what.op \in {"set_field", "hide"}
    BY Bases
  <2>2. w \in EntitiesOf(ledger[n].what)
    BY <2>1 DEF EntitiesOf
  <2>3. ledger[n].order \in Nat /\ ledger[k].order \in Nat /\ n # k
    BY <1>1, <2>1, Bases
  <2>4. ledger[n].order # ledger[k].order
    BY <1>1, <2>1, <2>3, Bases
  <2> QED BY <1>3, <2>1, <2>2, <2>3, <2>4 DEF Later
<1> QED BY <1>1, <1>2, <1>4

(* An entity the user merged away stays away until that merge is undone. *)
LEMMA MergedOnceKept ==
  ASSUME BaseInv, MergedOnce, Effect
  PROVE  MergedOnce'
<1>1. CASE Idle
  <2>1. graph'.ents = graph.ents /\ SameViews
    BY <1>1, StillViews DEF Idle, SettingsKept
  <2> QED BY <2>1 DEF MergedOnce, SameViews
<1>2. ASSUME NEW x, NEW s, NEW p \in Request, AddsField(x, p, s) \/ AddsHide(x, p, s)
      PROVE  MergedOnce'
  <2>1. Adds(x, p, s) /\ p.op # "merge" /\ graph'.ents = graph.ents
    BY <1>2 DEF AddsField, AddsHide
  <2>2. What("merge")' = What("merge") \cup {}
    BY <2>1, AddViews
  <2>3. \A k \in What("merge") : ledger'[k] = ledger[k]
    BY <2>1, Bases DEF Adds
  <2> QED BY <2>1, <2>2, <2>3 DEF MergedOnce
<1>3. ASSUME NEW x, NEW s, NEW p \in Request, AddsMerge(x, p, s)
      PROVE  MergedOnce'
  <2>1. /\ Adds(x, p, s) /\ p.op = "merge" /\ graph'.ents = graph.ents \ {s.loser} /\ s.loser \in graph.ents
    BY <1>3 DEF AddsMerge
  <2>2. /\ What("merge")' = What("merge") \cup {x} /\ \A k \in What("merge") : ledger'[k] = ledger[k]
        /\ ledger'[x].snap = s
    BY <2>1, AddViews, Bases
  <2>3. \A k \in What("merge") : ledger[k].snap.loser # s.loser
    BY <2>1 DEF MergedOnce
  <2>4. \A k \in What("merge") \cup {x} : ledger'[k].snap.loser \notin graph'.ents
    BY <2>1, <2>2 DEF MergedOnce
  <2>5. \A k, m \in What("merge") \cup {x} : ledger'[m].snap.loser = ledger'[k].snap.loser => m = k
    BY <2>2, <2>3 DEF MergedOnce
  <2> QED BY <2>2, <2>4, <2>5 DEF MergedOnce
<1>4. ASSUME NEW n \in Standing, DropsField(n) \/ DropsHide(n) PROVE MergedOnce'
  <2>1. Removes(n) /\ graph'.ents = graph.ents
    BY <1>4 DEF DropsField, DropsHide
  <2>2. What("merge")' = What("merge") \ {n} /\ \A k \in What("merge") \ {n} : ledger'[k] = ledger[k]
    BY <2>1, RemoveViews, Bases
  <2> QED BY <2>1, <2>2 DEF MergedOnce
<1>5. ASSUME NEW n \in Standing, DropsMerge(n) PROVE MergedOnce'
  <2>1. Removes(n) /\ graph'.ents = graph.ents \cup {ledger[n].snap.loser} /\ n \in What("merge")
    BY <1>5, MergeNotBlocked DEF DropsMerge
  <2>2. What("merge")' = What("merge") \ {n} /\ \A k \in What("merge") \ {n} : ledger'[k] = ledger[k]
    BY <2>1, RemoveViews, Bases
  <2> QED BY <2>1, <2>2 DEF MergedOnce
<1>6. ASSUME Leaves, graph'.ents \subseteq graph.ents PROVE MergedOnce'
  <2>1. SameViews
    BY <1>6, StillViews
  <2> QED BY <1>6, <2>1 DEF MergedOnce, SameViews
<1> QED BY <1>1, <1>2, <1>3, <1>4, <1>5, <1>6
        DEF Effect, WritesField, EditsField, EditsHide, MergesPair

-----------------------------------------------------------------------------
(* Locks. *)

(* What the user took back stays so. *)
LEMMA TakenStays ==
  ASSUME userEdited \subseteq userEdited', raced \subseteq raced', NEW e, NEW c, TakenBack(e, c)
  PROVE  TakenBack(e, c)'
BY DEF TakenBack

(* Locks after a correction of a field ... *)
LEMMA LockAdded ==
  ASSUME BaseInv, MergedOnce, LockInv, NEW x, NEW s, NEW p \in Request, AddsField(x, p, s)
  PROVE  LockInv'
<1> DEFINE a == p.e
<1>1. /\ Adds(x, p, s) /\ p.op = "set_field" /\ a \in graph.ents /\ a \in Ent
      /\ s.hadLock = (a \in graph.locked) /\ graph'.locked = graph.locked \cup {a}
      /\ UNCHANGED <<userEdited, raced>>
  BY RequestParts DEF AddsField
<1>2. /\ ledger'[x].snap = s /\ ledger'[x].order = NextOrder /\ NextOrder \in Nat
      /\ \A n \in Standing : /\ ledger'[n] = ledger[n] /\ n # x /\ ledger[n].order \in Nat
                             /\ ledger[n].order < NextOrder
      /\ FieldsOf(a)' = FieldsOf(a) \cup {x}
      /\ \A e : e # a => FieldsOf(e)' = FieldsOf(e)
      /\ What("merge")' = What("merge") /\ MergedByUser' = MergedByUser
  <2>1. /\ ledger'[x].snap = s /\ ledger'[x].order = NextOrder /\ NextOrder \in Nat
        /\ \A n \in Standing : /\ ledger'[n] = ledger[n] /\ n # x /\ ledger[n].order \in Nat
                               /\ ledger[n].order < NextOrder
    BY <1>1, AddViews
  <2>2. \A e : FieldsOf(e)' = FieldsOf(e) \cup IF p.op = "set_field" /\ p.e = e THEN {x} ELSE {}
    BY <1>1, AddViews
  <2>3. /\ What("merge")' = What("merge") \cup IF p.op = "merge" THEN {x} ELSE {}
        /\ MergedByUser' = MergedByUser \cup IF p.op = "merge" THEN {s.loser} ELSE {}
    BY <1>1, AddViews
  <2>4. FieldsOf(a)' = FieldsOf(a) \cup {x}
    BY <1>1, <2>2
  <2>5. \A e : e # a => FieldsOf(e)' = FieldsOf(e)
    BY <2>2
  <2>6. What("merge")' = What("merge") /\ MergedByUser' = MergedByUser
    BY <1>1, <2>3
  <2> QED BY <2>1, <2>4, <2>5, <2>6
<1>3. \A e : FieldsOf(e) \subseteq Standing
  BY Bases
<1>4. \A e, c : TakenBack(e, c)' = TakenBack(e, c)
  BY <1>1 DEF TakenBack
<1>5. \A k \in What("merge") : k \in Standing /\ ledger[k].snap.loser # a
  BY <1>1, Bases DEF MergedOnce
<1>6. a \notin MergedByUser
  BY <1>5 DEF MergedByUser
<1>7. \A n \in FieldsOf(a) : a \in graph.locked \/ TakenBack(a, "org")
  BY <1>1, <1>6 DEF LockInv, LocksNow
<1> HIDE DEF a
<1>8. LocksNow'
  <2>1. \A e \in graph'.locked : FieldsOf(e)' # {}
    BY <1>1, <1>2 DEF LockInv, LocksNow
  <2>2. ASSUME NEW e \in Ent, NEW n \in FieldsOf(e)'
        PROVE  e \in graph'.locked \/ e \in MergedByUser' \/ TakenBack(e, "org")'
    <3>1. CASE e = a
      BY <1>1, <3>1
    <3>2. CASE e # a
      BY <1>1, <1>2, <1>4, <2>2, <3>2 DEF LockInv, LocksNow
    <3> QED BY <3>1, <3>2
  <2> QED BY <2>1, <2>2 DEF LocksNow
<1>9. LocksBefore'
  <2>1. ASSUME NEW e \in Ent, NEW n \in FieldsOf(e)'
        PROVE  /\ ledger'[n].snap.hadLock => \E m \in FieldsOf(e)' : ledger'[m].order < ledger'[n].order
               /\ \A m \in FieldsOf(e)' : ledger'[m].order < ledger'[n].order =>
                    ledger'[n].snap.hadLock \/ TakenBack(e, "org")'
    <3>1. CASE n = x /\ e = a
      <4>1. a \in graph.locked => \E m \in FieldsOf(a) : m \in Standing
        BY <1>3 DEF LockInv, LocksNow
      <4>2. s.hadLock => \E m \in FieldsOf(a)' : ledger'[m].order < NextOrder
        BY <1>1, <1>2, <4>1
      <4>3. ASSUME NEW m \in FieldsOf(a)', ledger'[m].order < NextOrder
            PROVE  s.hadLock \/ TakenBack(a, "org")'
        <5>1. m \in FieldsOf(a)
          BY <1>2, <4>3
        <5> QED BY <1>1, <1>4, <1>7, <5>1
      <4> QED BY <1>2, <3>1, <4>2, <4>3
    <3>2. CASE n \in FieldsOf(e)
      <4>1. ledger'[n] = ledger[n] /\ ledger[n].order < NextOrder /\ ledger[n].order \in Nat
        BY <1>2, <1>3, <3>2
      <4>2. /\ ledger[n].snap.hadLock => \E m \in FieldsOf(e) : ledger[m].order < ledger[n].order
            /\ \A m \in FieldsOf(e) : ledger[m].order < ledger[n].order =>
                 ledger[n].snap.hadLock \/ TakenBack(e, "org")
        BY <3>2 DEF LockInv, LocksBefore
      <4>3. \A m \in FieldsOf(e) : m \in FieldsOf(e)' /\ ledger'[m] = ledger[m]
        BY <1>2, <1>3
      <4>4. \A m \in FieldsOf(e)' : m \in FieldsOf(e) \/ ledger'[m].order = NextOrder
        BY <1>2
      <4> QED BY <1>2, <1>4, <4>1, <4>2, <4>3, <4>4
    <3> QED BY <1>2, <2>1, <3>1, <3>2
  <2> QED BY <2>1 DEF LocksBefore
<1>10. LocksMerged'
  <2>1. \A k \in What("merge") : ledger'[k] = ledger[k] /\ ledger[k].snap.loser # a
    BY <1>2, <1>5
  <2>2. \A e : e # a => FieldsOf(e)' = FieldsOf(e) /\ \A n \in FieldsOf(e) : ledger'[n] = ledger[n]
    BY <1>2, <1>3
  <2> QED BY <1>2, <1>4, <2>1, <2>2 DEF LockInv, LocksMerged
<1> QED BY <1>8, <1>9, <1>10 DEF LockInv

(* ... after a merge of the user ... *)
LEMMA LockMerged ==
  ASSUME BaseInv, MergedOnce, LockInv, NEW x, NEW s, NEW p \in Request, AddsMerge(x, p, s)
  PROVE  LockInv'
<1> DEFINE l == s.loser
<1>1. /\ Adds(x, p, s) /\ p.op = "merge" /\ l \in graph.ents /\ l \in Ent
      /\ s.locked = (l \in graph.locked) /\ graph'.locked = graph.locked \ {l}
      /\ UNCHANGED <<userEdited, raced>>
  BY DEF AddsMerge, BaseInv, WellFormed
<1>2. /\ ledger'[x].snap = s /\ ledger'[x].order = NextOrder
      /\ \A n \in Standing : /\ ledger'[n] = ledger[n] /\ n # x /\ ledger[n].order \in Nat
                             /\ ledger[n].order < NextOrder
      /\ What("merge")' = What("merge") \cup {x} /\ MergedByUser' = MergedByUser \cup {l}
  <2>1. /\ ledger'[x].snap = s /\ ledger'[x].order = NextOrder
        /\ \A n \in Standing : /\ ledger'[n] = ledger[n] /\ n # x /\ ledger[n].order \in Nat
                               /\ ledger[n].order < NextOrder
    BY <1>1, AddViews
  <2>2. /\ What("merge")' = What("merge") \cup IF p.op = "merge" THEN {x} ELSE {}
        /\ MergedByUser' = MergedByUser \cup IF p.op = "merge" THEN {s.loser} ELSE {}
    BY <1>1, AddViews
  <2>3. What("merge")' = What("merge") \cup {x} /\ MergedByUser' = MergedByUser \cup {l}
    BY <1>1, <2>2
  <2> QED BY <2>1, <2>3
<1>3. \A e : FieldsOf(e)' = FieldsOf(e)
  <2>1. \A e : FieldsOf(e)' = FieldsOf(e) \cup IF p.op = "set_field" /\ p.e = e THEN {x} ELSE {}
    BY <1>1, AddViews
  <2> QED BY <1>1, <2>1
<1>4. /\ \A e : FieldsOf(e) \subseteq Standing
      /\ What("merge") \subseteq Standing
  BY Bases
<1>5. \A e, c : TakenBack(e, c)' = TakenBack(e, c)
  BY <1>1 DEF TakenBack
<1>6. l \notin MergedByUser
  BY <1>1 DEF MergedOnce, MergedByUser
<1> HIDE DEF l
<1>7. LocksNow'
  BY <1>1, <1>2, <1>3, <1>5 DEF LockInv, LocksNow
<1>8. LocksBefore'
  BY <1>2, <1>3, <1>4, <1>5 DEF LockInv, LocksBefore
<1>9. LocksMerged'
  <2>1. ASSUME NEW k \in What("merge")
        PROVE  \A e \in {ledger'[k].snap.loser} :
                 /\ ledger'[k].snap.locked => \E n \in FieldsOf(e)' : ledger'[n].order < ledger'[k].order
                 /\ \A n \in FieldsOf(e)' :
                      /\ ledger'[n].order < ledger'[k].order
                      /\ ledger'[k].snap.locked \/ TakenBack(e, "org")'
    BY <1>2, <1>3, <1>4, <1>5 DEF LockInv, LocksMerged
  <2>2. /\ s.locked => \E n \in FieldsOf(l) : ledger[n].order < NextOrder
        /\ \A n \in FieldsOf(l) : ledger[n].order < NextOrder /\ (s.locked \/ TakenBack(l, "org"))
    BY <1>1, <1>2, <1>4, <1>6 DEF LockInv, LocksNow
  <2>3. \A e \in {ledger'[x].snap.loser} :
          /\ ledger'[x].snap.locked => \E n \in FieldsOf(e)' : ledger'[n].order < ledger'[x].order
          /\ \A n \in FieldsOf(e)' :
               /\ ledger'[n].order < ledger'[x].order
               /\ ledger'[x].snap.locked \/ TakenBack(e, "org")'
    BY <1>2, <1>3, <1>4, <1>5, <2>2 DEF l
  <2> QED BY <1>2, <2>1, <2>3 DEF LocksMerged
<1> QED BY <1>7, <1>8, <1>9 DEF LockInv

(* ... and after an undone correction: the lock stays where an earlier one needs it. *)
LEMMA LockDropped ==
  ASSUME BaseInv, MergedOnce, LockInv, NEW n, DropsField(n)
  PROVE  LockInv'
<1> DEFINE a == ledger[n].what.e
           s == ledger[n].snap
<1>1. /\ Removes(n) /\ a \in graph.ents
      /\ graph'.locked = IF s.hadLock THEN graph.locked ELSE graph.locked \ {a}
      /\ UNCHANGED <<userEdited, raced>>
  BY DEF DropsField
<1>2. /\ \A m \in Standing \ {n} : ledger'[m] = ledger[m]
      /\ \A e : FieldsOf(e)' = FieldsOf(e) \ {n}
      /\ \A m \in Standing : ledger[m].order \in Nat
  BY <1>1, RemoveViews
<1>3. /\ n \in FieldsOf(a)
      /\ \A m \in FieldsOf(a) : m # n => ledger[m].order < ledger[n].order
      /\ \A k \in What("merge") : ledger[n].order < ledger[k].order => a # ledger[k].snap.loser
  BY FieldNotBlocked
<1>4. /\ \A e : \A m \in FieldsOf(e) : m \in Standing /\ ledger[m].what.e = e /\ ledger[m].what.op = "set_field"
      /\ \A k \in What("merge") : k \in Standing /\ ledger[k].what.op = "merge"
      /\ a \in Ent
  BY <1>3, Bases
<1>5. What("merge")' = What("merge") /\ MergedByUser' = MergedByUser
  <2>1. n \notin What("merge")
    BY <1>3, <1>4
  <2>2. What("merge")' = What("merge") \ {n} /\ MergedByUser' = {ledger[k].snap.loser : k \in What("merge") \ {n}}
    BY <1>1, RemoveViews
  <2> QED BY <2>1, <2>2 DEF MergedByUser
<1>6. \A e, c : TakenBack(e, c)' = TakenBack(e, c)
  BY <1>1 DEF TakenBack
<1>7. \A e : e # a => FieldsOf(e)' = FieldsOf(e) /\ n \notin FieldsOf(e)
  BY <1>2, <1>4
<1>8. \A k \in What("merge") : ledger'[k] = ledger[k] /\ k # n
  BY <1>2, <1>3, <1>4
<1>9. /\ s.hadLock => \E m \in FieldsOf(a) : ledger[m].order < ledger[n].order
      /\ \A m \in FieldsOf(a) : ledger[m].order < ledger[n].order => s.hadLock \/ TakenBack(a, "org")
  BY <1>3, <1>4 DEF LockInv, LocksBefore
<1> HIDE DEF a, s
<1>10. LocksNow'
  <2>1. ASSUME NEW e \in graph'.locked PROVE FieldsOf(e)' # {}
    <3>1. CASE e # a
      BY <1>1, <1>7, <2>1, <3>1 DEF LockInv, LocksNow
    <3>2. CASE e = a
      <4>1. s.hadLock
        BY <1>1, <2>1, <3>2
      <4>2. PICK m \in FieldsOf(a) : ledger[m].order < ledger[n].order
        BY <1>9, <4>1
      <4>3. m # n
        BY <1>2, <1>3, <1>4, <4>2
      <4> QED BY <1>2, <3>2, <4>3
    <3> QED BY <3>1, <3>2
  <2>2. ASSUME NEW e \in Ent, NEW m \in FieldsOf(e)'
        PROVE  e \in graph'.locked \/ e \in MergedByUser' \/ TakenBack(e, "org")'
    <3>1. e \in graph.locked \/ e \in MergedByUser \/ TakenBack(e, "org")
      BY <1>2, <2>2 DEF LockInv, LocksNow
    <3>2. CASE e # a
      BY <1>1, <1>5, <1>6, <3>1, <3>2
    <3>3. CASE e = a
      <4>1. s.hadLock \/ TakenBack(a, "org")
        BY <1>2, <1>3, <1>9, <2>2, <3>3
      <4> QED BY <1>1, <1>5, <1>6, <3>1, <3>3, <4>1
    <3> QED BY <3>2, <3>3
  <2> QED BY <2>1, <2>2 DEF LocksNow
<1>11. LocksBefore'
  <2>1. ASSUME NEW e \in Ent, NEW m \in FieldsOf(e)'
        PROVE  /\ ledger'[m].snap.hadLock => \E j \in FieldsOf(e)' : ledger'[j].order < ledger'[m].order
               /\ \A j \in FieldsOf(e)' : ledger'[j].order < ledger'[m].order =>
                    ledger'[m].snap.hadLock \/ TakenBack(e, "org")'
    <3>1. m \in FieldsOf(e) /\ m # n /\ m \in Standing /\ ledger'[m] = ledger[m]
      BY <1>2, <1>4, <2>1
    <3>2. /\ ledger[m].snap.hadLock => \E j \in FieldsOf(e) : ledger[j].order < ledger[m].order
          /\ \A j \in FieldsOf(e) : ledger[j].order < ledger[m].order =>
               ledger[m].snap.hadLock \/ TakenBack(e, "org")
      BY <3>1 DEF LockInv, LocksBefore
    <3>3. ASSUME NEW j \in FieldsOf(e), ledger[j].order < ledger[m].order PROVE j # n
      <4>1. CASE e = a
        BY <1>2, <1>3, <1>4, <3>1, <3>3, <4>1
      <4>2. CASE e # a
        BY <1>7, <4>2
      <4> QED BY <4>1, <4>2
    <3>4. \A j \in FieldsOf(e) : j # n => j \in FieldsOf(e)' /\ ledger'[j] = ledger[j]
      BY <1>2, <1>4
    <3>5. \A j \in FieldsOf(e)' : j \in FieldsOf(e) /\ ledger'[j] = ledger[j]
      BY <1>2, <1>4
    <3> QED BY <1>6, <3>1, <3>2, <3>3, <3>4, <3>5
  <2> QED BY <2>1 DEF LocksBefore
<1>12. LocksMerged'
  <2>1. ASSUME NEW k \in What("merge"), NEW e, e = ledger[k].snap.loser
        PROVE  /\ ledger[k].snap.locked => \E m \in FieldsOf(e)' : ledger'[m].order < ledger[k].order
               /\ \A m \in FieldsOf(e)' :
                    /\ ledger'[m].order < ledger[k].order
                    /\ ledger[k].snap.locked \/ TakenBack(e, "org")'
    <3>1. /\ ledger[k].snap.locked => \E m \in FieldsOf(e) : ledger[m].order < ledger[k].order
          /\ \A m \in FieldsOf(e) :
               /\ ledger[m].order < ledger[k].order
               /\ ledger[k].snap.locked \/ TakenBack(e, "org")
      BY <2>1 DEF LockInv, LocksMerged
    <3>2. \A m \in FieldsOf(e) : ledger[m].order < ledger[k].order => m # n
      BY <1>3, <1>7, <2>1
    <3>3. \A m \in FieldsOf(e) : m # n => m \in FieldsOf(e)' /\ ledger'[m] = ledger[m]
      BY <1>2, <1>4
    <3>4. \A m \in FieldsOf(e)' : m \in FieldsOf(e) /\ ledger'[m] = ledger[m]
      BY <1>2, <1>4
    <3> QED BY <1>6, <3>1, <3>2, <3>3, <3>4
  <2> QED BY <1>5, <1>8, <2>1 DEF LocksMerged
<1> QED BY <1>10, <1>11, <1>12 DEF LockInv

(* A step that leaves the corrections of fields, or the hides, and the merges. *)
SameMerges ==
  /\ What("merge")' = What("merge") /\ MergedByUser' = MergedByUser
  /\ \A k \in What("merge") : ledger'[k] = ledger[k]
SameFields ==
  SameMerges /\ \A e : FieldsOf(e)' = FieldsOf(e) /\ \A n \in FieldsOf(e) : ledger'[n] = ledger[n]
SameHides ==
  SameMerges /\ \A e : HidesOf(e)' = HidesOf(e) /\ \A n \in HidesOf(e) : ledger'[n] = ledger[n]

(* A step that makes and undoes none leaves both. *)
LEMMA StillSame ==
  ASSUME BaseInv, Idle \/ Leaves
  PROVE  SameFields /\ SameHides
<1>1. SameViews
  BY StillViews
<1>2. /\ \A e : FieldsOf(e) \subseteq What("set_field") /\ HidesOf(e) \subseteq What("hide")
  BY Bases
<1> QED BY <1>1, <1>2 DEF SameViews, SameFields, SameHides, SameMerges

(* Making another kind leaves them. *)
LEMMA AddedSame ==
  ASSUME BaseInv, NEW x, NEW p, NEW s, Adds(x, p, s), p.op # "merge"
  PROVE  /\ p.op # "set_field" => SameFields
         /\ p.op # "hide" => SameHides
<1>1. \A n \in Standing : ledger'[n] = ledger[n]
  BY DEF Adds
<1>2. /\ What("merge")' = What("merge") \cup IF p.op = "merge" THEN {x} ELSE {}
      /\ MergedByUser' = MergedByUser \cup IF p.op = "merge" THEN {s.loser} ELSE {}
  BY AddViews
<1>3. SameMerges
  <2>1. What("merge")' = What("merge") /\ MergedByUser' = MergedByUser
    BY <1>2
  <2>2. \A k \in What("merge") : k \in Standing
    BY Bases
  <2> QED BY <1>1, <2>1, <2>2 DEF SameMerges
<1>4. /\ \A e : FieldsOf(e)' = FieldsOf(e) \cup IF p.op = "set_field" /\ p.e = e THEN {x} ELSE {}
      /\ \A e : HidesOf(e)' = HidesOf(e) \cup IF p.op = "hide" /\ p.e = e THEN {x} ELSE {}
  BY AddViews
<1>5. ASSUME p.op # "set_field" PROVE SameFields
  <2>1. \A e : FieldsOf(e)' = FieldsOf(e)
    BY <1>4, <1>5
  <2>2. \A e : FieldsOf(e) \subseteq Standing
    BY Bases
  <2> QED BY <1>1, <1>3, <2>1, <2>2 DEF SameFields
<1>6. ASSUME p.op # "hide" PROVE SameHides
  <2>1. \A e : HidesOf(e)' = HidesOf(e)
    BY <1>4, <1>6
  <2>2. \A e : HidesOf(e) \subseteq Standing
    BY Bases
  <2> QED BY <1>1, <1>3, <2>1, <2>2 DEF SameHides
<1> QED BY <1>5, <1>6

(* So does undoing another kind. *)
LEMMA RemovedSame ==
  ASSUME BaseInv, NEW x, Removes(x), ledger[x].what.op # "merge"
  PROVE  /\ ledger[x].what.op # "set_field" => SameFields
         /\ ledger[x].what.op # "hide" => SameHides
<1>1. \A n \in Standing \ {x} : ledger'[n] = ledger[n]
  BY DEF Removes
<1>2. x \notin What("merge")
  BY DEF What
<1>3. What("merge")' = What("merge") \ {x} /\ MergedByUser' = {ledger[k].snap.loser : k \in What("merge") \ {x}}
  BY RemoveViews
<1>4. SameMerges
  <2>1. What("merge") \ {x} = What("merge")
    BY <1>2
  <2>2. What("merge")' = What("merge") /\ MergedByUser' = MergedByUser
    BY <1>3, <2>1 DEF MergedByUser
  <2> QED BY <1>1, <1>2, <2>2, Bases DEF SameMerges
<1>5. \A e : FieldsOf(e)' = FieldsOf(e) \ {x} /\ HidesOf(e)' = HidesOf(e) \ {x}
  BY RemoveViews
<1>6. ASSUME ledger[x].what.op # "set_field" PROVE SameFields
  <2>1. \A e : x \notin FieldsOf(e) /\ FieldsOf(e) \subseteq Standing
    BY <1>6, Bases
  <2>2. \A e : FieldsOf(e)' = FieldsOf(e)
    BY <1>5, <2>1
  <2>3. \A e : \A n \in FieldsOf(e) : ledger'[n] = ledger[n]
    BY <1>1, <2>1
  <2> QED BY <1>4, <2>2, <2>3 DEF SameFields
<1>7. ASSUME ledger[x].what.op # "hide" PROVE SameHides
  <2>1. \A e : x \notin HidesOf(e) /\ HidesOf(e) \subseteq Standing
    BY <1>7, Bases
  <2>2. \A e : HidesOf(e)' = HidesOf(e)
    BY <1>5, <2>1
  <2>3. \A e : \A n \in HidesOf(e) : ledger'[n] = ledger[n]
    BY <1>1, <2>1
  <2> QED BY <1>4, <2>2, <2>3 DEF SameHides
<1> QED BY <1>6, <1>7

(* An undone merge of the user. *)
LEMMA UnmergedViews ==
  ASSUME BaseInv, MergedOnce, NEW n, DropsMerge(n), NEW l, l = ledger[n].snap.loser
  PROVE  /\ n \in What("merge") /\ l \in Ent
         /\ What("merge")' = What("merge") \ {n} /\ \A k \in What("merge") \ {n} : ledger'[k] = ledger[k]
         /\ \A e \in MergedByUser : e # l => e \in MergedByUser'
         /\ \A e : FieldsOf(e)' = FieldsOf(e) /\ \A m \in FieldsOf(e) : ledger'[m] = ledger[m]
         /\ \A e : HidesOf(e)' = HidesOf(e) /\ \A m \in HidesOf(e) : ledger'[m] = ledger[m]
         /\ UNCHANGED <<userEdited, raced>>
<1>1. Removes(n) /\ n \in What("merge") /\ UNCHANGED <<userEdited, raced>>
  BY MergeNotBlocked DEF DropsMerge
<1>2. \A m \in Standing \ {n} : ledger'[m] = ledger[m]
  BY <1>1, RemoveViews
<1>3. What("merge")' = What("merge") \ {n} /\ MergedByUser' = {ledger[k].snap.loser : k \in What("merge") \ {n}}
  BY <1>1, RemoveViews
<1>4. \A e : FieldsOf(e)' = FieldsOf(e) \ {n} /\ HidesOf(e)' = HidesOf(e) \ {n}
  BY <1>1, RemoveViews
<1>5. /\ \A e : \A m \in FieldsOf(e) : m \in Standing /\ m # n
      /\ \A e : \A m \in HidesOf(e) : m \in Standing /\ m # n
      /\ \A k \in What("merge") : k \in Standing
      /\ l \in Ent
  BY <1>1, Bases
<1>6. \A e : FieldsOf(e)' = FieldsOf(e) /\ HidesOf(e)' = HidesOf(e)
  BY <1>4, <1>5
<1>7. \A e \in MergedByUser : e # l => e \in MergedByUser'
  BY <1>3 DEF MergedByUser
<1>8. \A e : \A m \in FieldsOf(e) \cup HidesOf(e) : ledger'[m] = ledger[m]
  BY <1>2, <1>5
<1>9. \A k \in What("merge") \ {n} : ledger'[k] = ledger[k]
  BY <1>2, <1>5
<1> QED BY <1>1, <1>3, <1>5, <1>6, <1>7, <1>8, <1>9

(* Locks after an undone merge: the loser has its lock again. *)
LEMMA LockUnmerged ==
  ASSUME BaseInv, MergedOnce, LockInv, NEW n, DropsMerge(n)
  PROVE  LockInv'
<1> DEFINE l == ledger[n].snap.loser
           s == ledger[n].snap
<1>1. /\ n \in What("merge") /\ l \in Ent
      /\ What("merge")' = What("merge") \ {n} /\ \A k \in What("merge") \ {n} : ledger'[k] = ledger[k]
      /\ \A e \in MergedByUser : e # l => e \in MergedByUser'
      /\ \A e : FieldsOf(e)' = FieldsOf(e) /\ \A m \in FieldsOf(e) : ledger'[m] = ledger[m]
      /\ UNCHANGED <<userEdited, raced>>
  BY UnmergedViews
<1>2. graph'.locked = IF s.locked THEN graph.locked \cup {l} ELSE graph.locked
  BY DEF DropsMerge
<1>3. \A e, c : TakenBack(e, c)' = TakenBack(e, c)
  BY <1>1 DEF TakenBack
<1>4. /\ s.locked => FieldsOf(l) # {}
      /\ \A m \in FieldsOf(l) : s.locked \/ TakenBack(l, "org")
  BY <1>1 DEF LockInv, LocksMerged
<1> HIDE DEF l, s
<1>5. LocksNow'
  <2>1. \A e \in graph'.locked : FieldsOf(e)' # {}
    BY <1>1, <1>2, <1>4 DEF LockInv, LocksNow
  <2>2. \A e \in Ent : \A m \in FieldsOf(e)' : e \in graph'.locked \/ e \in MergedByUser' \/ TakenBack(e, "org")'
    BY <1>1, <1>2, <1>3, <1>4 DEF LockInv, LocksNow
  <2> QED BY <2>1, <2>2 DEF LocksNow
<1>6. LocksBefore'
  BY <1>1, <1>3 DEF LockInv, LocksBefore
<1>7. LocksMerged'
  BY <1>1, <1>3 DEF LockInv, LocksMerged
<1> QED BY <1>5, <1>6, <1>7 DEF LockInv

(* Locks after any other step: none takes one but a merge, which takes what the user
   overrode, raced or never locked. *)
LEMMA LockStill ==
  ASSUME BaseInv, MergedOnce, LockInv, SameFields, userEdited \subseteq userEdited', raced \subseteq raced',
         \/ graph'.locked = graph.locked
         \/ \E l, w : MergesPair(l, w)
  PROVE  LockInv'
<1>1. \A e, c : TakenBack(e, c) => TakenBack(e, c)'
  BY TakenStays
<1>2. /\ What("merge")' = What("merge") /\ MergedByUser' = MergedByUser
      /\ \A k \in What("merge") : ledger'[k] = ledger[k]
      /\ \A e : FieldsOf(e)' = FieldsOf(e) /\ \A n \in FieldsOf(e) : ledger'[n] = ledger[n]
  BY DEF SameFields, SameMerges
<1>3. LocksNow'
  <2>1. CASE graph'.locked = graph.locked
    BY <1>1, <1>2, <2>1 DEF LockInv, LocksNow
  <2>2. ASSUME NEW l, NEW w, MergesPair(l, w) PROVE LocksNow'
    <3>1. /\ graph'.locked = graph.locked \ {l}
          /\ l \notin graph.locked \/ TakenBack(l, "org")'
      BY <2>2 DEF MergesPair, TakenBack
    <3> QED BY <1>1, <1>2, <3>1 DEF LockInv, LocksNow
  <2> QED BY <2>1, <2>2
<1>4. LocksBefore'
  BY <1>1, <1>2 DEF LockInv, LocksBefore
<1>5. LocksMerged'
  BY <1>1, <1>2 DEF LockInv, LocksMerged
<1> QED BY <1>3, <1>4, <1>5 DEF LockInv

-----------------------------------------------------------------------------
(* Values. *)

(* A claim on a field outlives what leaves its entries and adds candidates. *)
LEMMA FieldAdded ==
  ASSUME BaseInv, MergedOnce, FieldInv, NEW x, NEW s, NEW p \in Request, AddsField(x, p, s)
  PROVE  FieldInv'
<1> DEFINE a == p.e
<1>1. /\ Adds(x, p, s) /\ p.op = "set_field" /\ a \in graph.ents /\ a \in Ent
      /\ s.was = graph.org[a] /\ graph'.org = [graph.org EXCEPT ![a] = p.org]
      /\ graph.org \in [Ent -> Orgs]
      /\ UNCHANGED <<userEdited, raced>>
  BY RequestParts DEF AddsField, BaseInv, WellFormed
<1>2. /\ ledger'[x].snap = s /\ ledger'[x].what = p /\ ledger'[x].order = NextOrder /\ NextOrder \in Nat
      /\ \A n \in Standing : /\ ledger'[n] = ledger[n] /\ n # x /\ ledger[n].order \in Nat
                             /\ ledger[n].order < NextOrder
      /\ FieldsOf(a)' = FieldsOf(a) \cup {x}
      /\ \A e : e # a => FieldsOf(e)' = FieldsOf(e)
      /\ What("merge")' = What("merge") /\ MergedByUser' = MergedByUser
  <2>1. /\ ledger'[x].snap = s /\ ledger'[x].what = p /\ ledger'[x].order = NextOrder /\ NextOrder \in Nat
        /\ \A n \in Standing : /\ ledger'[n] = ledger[n] /\ n # x /\ ledger[n].order \in Nat
                               /\ ledger[n].order < NextOrder
    BY <1>1, AddViews
  <2>2. \A e : FieldsOf(e)' = FieldsOf(e) \cup IF p.op = "set_field" /\ p.e = e THEN {x} ELSE {}
    BY <1>1, AddViews
  <2>3. /\ What("merge")' = What("merge") \cup IF p.op = "merge" THEN {x} ELSE {}
        /\ MergedByUser' = MergedByUser \cup IF p.op = "merge" THEN {s.loser} ELSE {}
    BY <1>1, AddViews
  <2>4. FieldsOf(a)' = FieldsOf(a) \cup {x}
    BY <1>1, <2>2
  <2>5. \A e : e # a => FieldsOf(e)' = FieldsOf(e)
    BY <2>2
  <2>6. What("merge")' = What("merge") /\ MergedByUser' = MergedByUser
    BY <1>1, <2>3
  <2> QED BY <2>1, <2>4, <2>5, <2>6
<1>3. \A e : FieldsOf(e) \subseteq Standing
  BY Bases
<1>4. \A e : \A m \in Standing : FieldsBefore(e, m)' = FieldsBefore(e, m)
  BY <1>1, AddViews
<1>5. FieldsOf(a) \subseteq FieldsBefore(a, x)'
  BY <1>1, AddViews
<1>6. \A e, c : TakenBack(e, c)' = TakenBack(e, c)
  BY <1>1 DEF TakenBack
<1>7. \A k \in What("merge") : k \in Standing /\ ledger[k].snap.loser # a
  BY <1>1, Bases DEF MergedOnce
<1>8. a \notin MergedByUser
  BY <1>7 DEF MergedByUser
<1>9. \A e, m : FieldsBefore(e, m) \subseteq Standing
  BY <1>3 DEF FieldsBefore
<1> HIDE DEF a
<1>10. FieldsNow'
  <2>1. ASSUME NEW e \in Ent, NEW n \in FieldsOf(e)'
        PROVE  e \in MergedByUser' \/ FieldOr(n, e, graph.org[e], FieldsOf(e))'
    <3>1. CASE e = a /\ n = x
      BY <1>1, <1>2, <3>1 DEF FieldOr
    <3>2. CASE e = a /\ n # x
      <4>1. n \in FieldsOf(a) /\ n \in Standing /\ x \in FieldsOf(e)'
        BY <1>2, <1>3, <2>1, <3>2
      <4>2. ledger'[n].order < ledger'[x].order
        BY <1>2, <4>1
      <4> QED BY <4>1, <4>2 DEF FieldOr
    <3>3. CASE e # a
      <4>1. FieldsOf(e)' = FieldsOf(e) /\ graph'.org[e] = graph.org[e]
        BY <1>1, <1>2, <3>3
      <4>2. e \in MergedByUser \/ FieldOr(n, e, graph.org[e], FieldsOf(e))
        BY <2>1, <4>1 DEF FieldInv, FieldsNow
      <4>3. \A m \in FieldsOf(e) : ledger'[m] = ledger[m]
        BY <1>2, <1>3
      <4> QED BY <1>2, <1>6, <2>1, <4>1, <4>2, <4>3 DEF FieldOr
    <3> QED BY <3>1, <3>2, <3>3
  <2> QED BY <2>1 DEF FieldsNow
<1>11. FieldsPrior'
  <2>1. ASSUME NEW e \in Ent, NEW n \in FieldsOf(e)', NEW m \in FieldsOf(e)',
               ledger'[n].order < ledger'[m].order
        PROVE  FieldOr(n, e, ledger[m].snap.was, FieldsBefore(e, m))'
    <3>1. n # x
      <4>1. ledger'[m].order \in Nat /\ ledger'[m].order <= NextOrder
        BY <1>2, <1>3, <2>1
      <4> QED BY <1>2, <2>1, <4>1
    <3>2. n \in FieldsOf(e) /\ n \in Standing /\ ledger'[n] = ledger[n]
      BY <1>2, <1>3, <2>1, <3>1
    <3>3. CASE m = x
      <4>1. e = a
        BY <1>2, <1>3, <2>1, <3>3
      <4>2. FieldOr(n, a, graph.org[a], FieldsOf(a))
        BY <1>1, <1>8, <3>2, <4>1 DEF FieldInv, FieldsNow
      <4>3. \A j \in FieldsOf(a) : j \in FieldsBefore(a, x)' /\ ledger'[j] = ledger[j]
        BY <1>2, <1>3, <1>5
      <4> QED BY <1>1, <1>2, <1>6, <3>2, <3>3, <4>1, <4>2, <4>3 DEF FieldOr
    <3>4. CASE m # x
      <4>1. m \in FieldsOf(e) /\ m \in Standing /\ ledger'[m] = ledger[m]
        BY <1>2, <1>3, <2>1, <3>4
      <4>2. FieldOr(n, e, ledger[m].snap.was, FieldsBefore(e, m))
        BY <2>1, <3>2, <4>1 DEF FieldInv, FieldsPrior
      <4>3. FieldsBefore(e, m)' = FieldsBefore(e, m) /\ \A j \in FieldsBefore(e, m) : ledger'[j] = ledger[j]
        BY <1>2, <1>4, <1>9, <4>1
      <4> QED BY <1>6, <3>2, <4>1, <4>2, <4>3 DEF FieldOr
    <3> QED BY <3>3, <3>4
  <2> QED BY <2>1 DEF FieldsPrior
<1>12. FieldsMerged'
  <2>1. ASSUME NEW k \in What("merge"), NEW l, l = ledger[k].snap.loser, NEW w, w = ledger[k].snap.winner
        PROVE  /\ \A n \in FieldsOf(l)' : FieldOr(n, l, ledger[k].snap.loserOrg, FieldsBefore(l, k))'
               /\ \A n \in FieldsOf(w)' : ledger'[n].order < ledger'[k].order =>
                    FieldOr(n, w, ledger[k].snap.winnerOrg, FieldsBefore(w, k))'
    <3>1. k \in Standing /\ l # a /\ ledger'[k] = ledger[k] /\ ledger[k].order < NextOrder
          /\ ledger[k].order \in Nat
      BY <1>2, <1>7, <2>1
    <3>2. \A e : /\ FieldsBefore(e, k)' = FieldsBefore(e, k)
                 /\ \A j \in FieldsBefore(e, k) : ledger'[j] = ledger[j]
                 /\ \A j \in FieldsOf(e) : ledger'[j] = ledger[j]
      BY <1>2, <1>3, <1>4, <1>9, <3>1
    <3>3. ASSUME NEW n \in FieldsOf(l)' PROVE FieldOr(n, l, ledger[k].snap.loserOrg, FieldsBefore(l, k))'
      <4>1. n \in FieldsOf(l)
        BY <1>2, <3>1, <3>3
      <4>2. FieldOr(n, l, ledger[k].snap.loserOrg, FieldsBefore(l, k))
        BY <2>1, <4>1 DEF FieldInv, FieldsMerged
      <4> QED BY <1>6, <3>1, <3>2, <4>1, <4>2 DEF FieldOr
    <3>4. ASSUME NEW n \in FieldsOf(w)', ledger'[n].order < ledger'[k].order
          PROVE  FieldOr(n, w, ledger[k].snap.winnerOrg, FieldsBefore(w, k))'
      <4>1. n \in FieldsOf(w)
        BY <1>2, <3>1, <3>4
      <4>2. FieldOr(n, w, ledger[k].snap.winnerOrg, FieldsBefore(w, k))
        BY <2>1, <3>1, <3>2, <3>4, <4>1 DEF FieldInv, FieldsMerged
      <4> QED BY <1>6, <3>1, <3>2, <4>1, <4>2 DEF FieldOr
    <3> QED BY <3>3, <3>4
  <2>2. \A k \in What("merge") : ledger'[k] = ledger[k]
    BY <1>2, <1>7
  <2> QED BY <1>2, <2>1, <2>2 DEF FieldsMerged
<1> QED BY <1>10, <1>11, <1>12 DEF FieldInv

(* A value the correction wrote stays when another entity is merged into this one. *)
LEMMA MergedOrgStays ==
  ASSUME NEW g, NEW l, NEW w, NEW n, NEW J, FieldOr(n, w, g.org[w], J)
  PROVE  FieldOr(n, w, MergedOrg(g, l, w), J)
BY DEF FieldOr, MergedOrg

(* ... and after a merge of the user: the survivor keeps its own value. *)
LEMMA FieldMerged ==
  ASSUME BaseInv, MergedOnce, FieldInv, NEW x, NEW s, NEW p \in Request, AddsMerge(x, p, s)
  PROVE  FieldInv'
<1> DEFINE l == s.loser
           w == s.winner
<1>1. /\ Adds(x, p, s) /\ p.op = "merge" /\ l \in graph.ents /\ w \in graph.ents /\ l # w
      /\ l \in Ent /\ w \in Ent /\ graph.org \in [Ent -> Orgs]
      /\ s.loserOrg = graph.org[l] /\ s.winnerOrg = graph.org[w] /\ s.orgAfter = MergedOrg(graph, l, w)
      /\ graph'.org = [[graph.org EXCEPT ![w] = s.orgAfter] EXCEPT ![l] = Blank]
      /\ UNCHANGED <<userEdited, raced>>
  BY DEF AddsMerge, BaseInv, WellFormed
<1>2. /\ ledger'[x].snap = s /\ ledger'[x].order = NextOrder /\ NextOrder \in Nat
      /\ \A n \in Standing : /\ ledger'[n] = ledger[n] /\ n # x /\ ledger[n].order \in Nat
                             /\ ledger[n].order < NextOrder
      /\ What("merge")' = What("merge") \cup {x} /\ MergedByUser' = MergedByUser \cup {l}
  <2>1. /\ ledger'[x].snap = s /\ ledger'[x].order = NextOrder /\ NextOrder \in Nat
        /\ \A n \in Standing : /\ ledger'[n] = ledger[n] /\ n # x /\ ledger[n].order \in Nat
                               /\ ledger[n].order < NextOrder
    BY <1>1, AddViews
  <2>2. /\ What("merge")' = What("merge") \cup IF p.op = "merge" THEN {x} ELSE {}
        /\ MergedByUser' = MergedByUser \cup IF p.op = "merge" THEN {s.loser} ELSE {}
    BY <1>1, AddViews
  <2>3. What("merge")' = What("merge") \cup {x} /\ MergedByUser' = MergedByUser \cup {l}
    BY <1>1, <2>2
  <2> QED BY <2>1, <2>3
<1>3. \A e : FieldsOf(e)' = FieldsOf(e)
  <2>1. \A e : FieldsOf(e)' = FieldsOf(e) \cup IF p.op = "set_field" /\ p.e = e THEN {x} ELSE {}
    BY <1>1, AddViews
  <2> QED BY <1>1, <2>1
<1>4. /\ \A e : FieldsOf(e) \subseteq Standing
      /\ What("merge") \subseteq Standing
  BY Bases
<1>5. \A e : \A m \in Standing : FieldsBefore(e, m)' = FieldsBefore(e, m)
  BY <1>1, AddViews
<1>6. \A e : FieldsOf(e) \subseteq FieldsBefore(e, x)'
  BY <1>1, AddViews
<1>7. \A e, c : TakenBack(e, c)' = TakenBack(e, c)
  BY <1>1 DEF TakenBack
<1>8. l \notin MergedByUser /\ w \notin MergedByUser
  BY <1>1 DEF MergedOnce, MergedByUser
<1>9. \A e, m : FieldsBefore(e, m) \subseteq Standing
  BY <1>4 DEF FieldsBefore
<1>10. /\ \A n \in FieldsOf(l) : FieldOr(n, l, graph.org[l], FieldsOf(l))
       /\ \A n \in FieldsOf(w) : FieldOr(n, w, graph.org[w], FieldsOf(w))
  BY <1>1, <1>8 DEF FieldInv, FieldsNow
<1>11. \A e \in Ent : e # l /\ e # w => graph'.org[e] = graph.org[e]
  BY <1>1
<1>12. graph'.org[w] = MergedOrg(graph, l, w)
  <2>1. [graph.org EXCEPT ![w] = s.orgAfter][w] = s.orgAfter
    BY <1>1
  <2> QED BY <1>1, <2>1
<1>13. \A e : \A n \in FieldsOf(e) : ledger'[n] = ledger[n]
  BY <1>2, <1>4
<1> HIDE DEF l, w
<1>14. FieldsNow'
  <2>1. ASSUME NEW e \in Ent, NEW n \in FieldsOf(e)'
        PROVE  e \in MergedByUser' \/ FieldOr(n, e, graph.org[e], FieldsOf(e))'
    <3>1. CASE e = l
      BY <1>2, <3>1
    <3>2. CASE e = w
      <4>1. n \in FieldsOf(w) /\ ledger'[n] = ledger[n]
        BY <1>3, <1>13, <2>1, <3>2
      <4>2. FieldOr(n, w, MergedOrg(graph, l, w), FieldsOf(w))
        BY <1>10, <4>1, MergedOrgStays
      <4> QED BY <1>3, <1>7, <1>12, <1>13, <3>2, <4>1, <4>2 DEF FieldOr
    <3>3. CASE e # l /\ e # w
      <4>1. n \in FieldsOf(e) /\ ledger'[n] = ledger[n]
        BY <1>3, <1>13, <2>1
      <4>2. e \in MergedByUser \/ FieldOr(n, e, graph.org[e], FieldsOf(e))
        BY <4>1 DEF FieldInv, FieldsNow
      <4> QED BY <1>2, <1>3, <1>7, <1>11, <1>13, <3>3, <4>1, <4>2 DEF FieldOr
    <3> QED BY <3>1, <3>2, <3>3
  <2> QED BY <2>1 DEF FieldsNow
<1>15. FieldsPrior'
  <2>1. ASSUME NEW e \in Ent, NEW n \in FieldsOf(e)', NEW m \in FieldsOf(e)',
               ledger'[n].order < ledger'[m].order
        PROVE  FieldOr(n, e, ledger[m].snap.was, FieldsBefore(e, m))'
    <3>1. /\ n \in FieldsOf(e) /\ m \in FieldsOf(e) /\ m \in Standing
          /\ ledger'[n] = ledger[n] /\ ledger'[m] = ledger[m]
      BY <1>3, <1>4, <1>13, <2>1
    <3>2. FieldOr(n, e, ledger[m].snap.was, FieldsBefore(e, m))
      BY <2>1, <3>1 DEF FieldInv, FieldsPrior
    <3>3. FieldsBefore(e, m)' = FieldsBefore(e, m) /\ \A j \in FieldsBefore(e, m) : ledger'[j] = ledger[j]
      BY <1>2, <1>5, <1>9, <3>1
    <3> QED BY <1>7, <3>1, <3>2, <3>3 DEF FieldOr
  <2> QED BY <2>1 DEF FieldsPrior
<1>18. FieldsMerged'
  <2>1. ASSUME NEW k \in What("merge")
        PROVE  \A a \in {ledger[k].snap.loser}, b \in {ledger[k].snap.winner} :
                 /\ \A n \in FieldsOf(a) : FieldOr(n, a, ledger[k].snap.loserOrg, FieldsBefore(a, k))'
                 /\ \A n \in FieldsOf(b) : ledger[n].order < ledger[k].order =>
                      FieldOr(n, b, ledger[k].snap.winnerOrg, FieldsBefore(b, k))'
    <3>1. ASSUME NEW a, a = ledger[k].snap.loser, NEW n \in FieldsOf(a)
          PROVE  FieldOr(n, a, ledger[k].snap.loserOrg, FieldsBefore(a, k))'
      <4>1. FieldOr(n, a, ledger[k].snap.loserOrg, FieldsBefore(a, k))
        BY <3>1 DEF FieldInv, FieldsMerged
      <4>2. k \in Standing /\ ledger'[k] = ledger[k]
        BY <1>2, <1>4
      <4> QED BY <1>2, <1>5, <1>7, <1>9, <1>13, <4>1, <4>2 DEF FieldOr
    <3>2. ASSUME NEW b, b = ledger[k].snap.winner, NEW n \in FieldsOf(b), ledger[n].order < ledger[k].order
          PROVE  FieldOr(n, b, ledger[k].snap.winnerOrg, FieldsBefore(b, k))'
      <4>1. FieldOr(n, b, ledger[k].snap.winnerOrg, FieldsBefore(b, k))
        BY <3>2 DEF FieldInv, FieldsMerged
      <4>2. k \in Standing /\ ledger'[k] = ledger[k]
        BY <1>2, <1>4
      <4> QED BY <1>2, <1>5, <1>7, <1>9, <1>13, <4>1, <4>2 DEF FieldOr
    <3> QED BY <3>1, <3>2
  <2>2. /\ \A n \in FieldsOf(l) : FieldOr(n, l, s.loserOrg, FieldsBefore(l, x))'
        /\ \A n \in FieldsOf(w) : FieldOr(n, w, s.winnerOrg, FieldsBefore(w, x))'
    BY <1>1, <1>6, <1>7, <1>10, <1>13 DEF FieldOr, l, w
  <2>3. /\ ledger'[x].snap.loser = l /\ ledger'[x].snap.winner = w
        /\ ledger'[x].snap.loserOrg = s.loserOrg /\ ledger'[x].snap.winnerOrg = s.winnerOrg
    BY <1>2 DEF l, w
  <2>4. /\ \A n \in FieldsOf(l) : FieldOr(n, l, ledger[x].snap.loserOrg, FieldsBefore(l, x))'
        /\ \A n \in FieldsOf(w) : FieldOr(n, w, ledger[x].snap.winnerOrg, FieldsBefore(w, x))'
    BY <2>2, <2>3 DEF FieldOr
  <2>5. ASSUME NEW k \in What("merge")', NEW a, a = ledger'[k].snap.loser, NEW b, b = ledger'[k].snap.winner
        PROVE  /\ \A n \in FieldsOf(a)' : FieldOr(n, a, ledger[k].snap.loserOrg, FieldsBefore(a, k))'
               /\ \A n \in FieldsOf(b)' : ledger'[n].order < ledger'[k].order =>
                    FieldOr(n, b, ledger[k].snap.winnerOrg, FieldsBefore(b, k))'
    <3>1. CASE k = x
      BY <1>3, <2>3, <2>4, <2>5, <3>1
    <3>2. CASE k # x
      <4>1. k \in What("merge") /\ ledger'[k] = ledger[k]
        BY <1>2, <1>4, <2>5, <3>2
      <4>2. \A n \in FieldsOf(b) : ledger'[n].order < ledger'[k].order => ledger[n].order < ledger[k].order
        BY <1>13, <4>1
      <4> QED BY <1>3, <2>1, <2>5, <4>1, <4>2
    <3> QED BY <3>1, <3>2
  <2> QED BY <2>5 DEF FieldsMerged
<1> QED BY <1>14, <1>15, <1>18 DEF FieldInv

(* Values after an undone correction: the one before it is there again. *)
LEMMA FieldDropped ==
  ASSUME BaseInv, FieldInv, NEW n, DropsField(n)
  PROVE  FieldInv'
<1> DEFINE a == ledger[n].what.e
           s == ledger[n].snap
<1>1. /\ Removes(n) /\ a \in graph.ents /\ graph.org \in [Ent -> Orgs]
      /\ graph'.org = [graph.org EXCEPT ![a] = s.was]
      /\ UNCHANGED <<userEdited, raced>>
  BY DEF DropsField, BaseInv, WellFormed
<1>2. /\ \A m \in Standing \ {n} : ledger'[m] = ledger[m]
      /\ \A e : FieldsOf(e)' = FieldsOf(e) \ {n}
      /\ \A m \in Standing : ledger[m].order \in Nat
      /\ \A e : \A m \in Standing \ {n} : FieldsBefore(e, m)' = FieldsBefore(e, m) \ {n}
  BY <1>1, RemoveViews
<1>3. /\ n \in FieldsOf(a)
      /\ \A m \in FieldsOf(a) : m # n => ledger[m].order < ledger[n].order
      /\ \A k \in What("merge") : ledger[n].order < ledger[k].order =>
           a # ledger[k].snap.loser /\ a # ledger[k].snap.winner
  BY FieldNotBlocked
<1>4. /\ \A e : \A m \in FieldsOf(e) : m \in Standing /\ ledger[m].what.e = e /\ ledger[m].what.op = "set_field"
      /\ \A k \in What("merge") : k \in Standing /\ ledger[k].what.op = "merge"
      /\ a \in Ent
  BY <1>3, Bases
<1>5. SameMerges
  <2>1. n \notin What("merge")
    BY <1>3, <1>4
  <2>2. What("merge")' = What("merge") \ {n} /\ MergedByUser' = {ledger[k].snap.loser : k \in What("merge") \ {n}}
    BY <1>1, RemoveViews
  <2>3. What("merge")' = What("merge") /\ MergedByUser' = MergedByUser
    BY <2>1, <2>2 DEF MergedByUser
  <2> QED BY <1>2, <1>4, <2>1, <2>3 DEF SameMerges
<1>6. \A e, c : TakenBack(e, c)' = TakenBack(e, c)
  BY <1>1 DEF TakenBack
<1>7. \A e : e # a => n \notin FieldsOf(e)
  BY <1>4
<1>8. \A e : \A m \in FieldsOf(e) : m # n => m \in FieldsOf(e)' /\ ledger'[m] = ledger[m]
  BY <1>2, <1>4
<1>9. \A e, m : FieldsBefore(e, m) \subseteq FieldsOf(e)
  BY DEF FieldsBefore
<1>10. graph'.org[a] = s.was /\ \A e \in Ent : e # a => graph'.org[e] = graph.org[e]
  BY <1>1, <1>4
<1> HIDE DEF a, s
<1>11. FieldsNow'
  <2>1. ASSUME NEW e \in Ent, NEW m \in FieldsOf(e)'
        PROVE  e \in MergedByUser' \/ FieldOr(m, e, graph.org[e], FieldsOf(e))'
    <3>1. m \in FieldsOf(e) /\ m # n /\ ledger'[m] = ledger[m]
      BY <1>2, <1>8, <2>1
    <3>2. CASE e = a
      <4>1. ledger[m].order < ledger[n].order
        BY <1>3, <3>1, <3>2
      <4>2. FieldOr(m, a, s.was, FieldsBefore(a, n))
        BY <1>3, <1>4, <3>1, <3>2, <4>1 DEF FieldInv, FieldsPrior, s
      <4>3. \A j \in FieldsBefore(a, n) : j \in FieldsOf(a) /\ j # n
        BY <1>2, <1>3, <1>4 DEF FieldsBefore
      <4> QED BY <1>6, <1>8, <1>10, <3>1, <3>2, <4>2, <4>3 DEF FieldOr
    <3>3. CASE e # a
      <4>1. e \in MergedByUser \/ FieldOr(m, e, graph.org[e], FieldsOf(e))
        BY <3>1 DEF FieldInv, FieldsNow
      <4> QED BY <1>5, <1>6, <1>7, <1>8, <1>10, <3>1, <3>3, <4>1 DEF FieldOr, SameMerges
    <3> QED BY <3>2, <3>3
  <2> QED BY <2>1 DEF FieldsNow
<1>12. FieldsPrior'
  <2>1. ASSUME NEW e \in Ent, NEW i \in FieldsOf(e)', NEW m \in FieldsOf(e)',
               ledger'[i].order < ledger'[m].order
        PROVE  FieldOr(i, e, ledger[m].snap.was, FieldsBefore(e, m))'
    <3>1. /\ i \in FieldsOf(e) /\ m \in FieldsOf(e) /\ m # n /\ m \in Standing
          /\ ledger'[i] = ledger[i] /\ ledger'[m] = ledger[m]
      BY <1>2, <1>4, <1>8, <2>1
    <3>2. FieldOr(i, e, ledger[m].snap.was, FieldsBefore(e, m))
      BY <2>1, <3>1 DEF FieldInv, FieldsPrior
    <3>3. n \notin FieldsBefore(e, m)
      <4>1. CASE e = a
        BY <1>2, <1>3, <1>4, <3>1, <4>1 DEF FieldsBefore
      <4>2. CASE e # a
        BY <1>7, <1>9, <4>2
      <4> QED BY <4>1, <4>2
    <3>4. \A j \in FieldsBefore(e, m) : j \in FieldsBefore(e, m)' /\ ledger'[j] = ledger[j]
      BY <1>2, <1>8, <1>9, <3>1, <3>3
    <3> QED BY <1>6, <3>1, <3>2, <3>4 DEF FieldOr
  <2> QED BY <2>1 DEF FieldsPrior
<1>13. FieldsMerged'
  <2>1. ASSUME NEW k \in What("merge"), NEW e \in {ledger[k].snap.loser, ledger[k].snap.winner}
        PROVE  /\ \A j \in FieldsBefore(e, k) : j \in FieldsBefore(e, k)' /\ ledger'[j] = ledger[j]
               /\ \A i \in FieldsOf(e)' : i \in FieldsOf(e) /\ ledger'[i] = ledger[i]
    <3>1. k # n /\ k \in Standing
      BY <1>3, <1>4
    <3>2. n \notin FieldsBefore(e, k)
      BY <1>3, <1>7 DEF FieldsBefore
    <3>3. \A j \in FieldsBefore(e, k) : j \in FieldsBefore(e, k)' /\ ledger'[j] = ledger[j]
      BY <1>2, <1>8, <1>9, <3>1, <3>2
    <3> QED BY <1>2, <1>8, <3>3
  <2>2. ASSUME NEW k \in What("merge")', NEW l, l = ledger'[k].snap.loser, NEW w, w = ledger'[k].snap.winner
        PROVE  /\ \A i \in FieldsOf(l)' : FieldOr(i, l, ledger[k].snap.loserOrg, FieldsBefore(l, k))'
               /\ \A i \in FieldsOf(w)' : ledger'[i].order < ledger'[k].order =>
                    FieldOr(i, w, ledger[k].snap.winnerOrg, FieldsBefore(w, k))'
    <3>1. k \in What("merge") /\ ledger'[k] = ledger[k]
      BY <1>5, <2>2 DEF SameMerges
    <3>2. /\ \A i \in FieldsOf(l) : FieldOr(i, l, ledger[k].snap.loserOrg, FieldsBefore(l, k))
          /\ \A i \in FieldsOf(w) : ledger[i].order < ledger[k].order =>
               FieldOr(i, w, ledger[k].snap.winnerOrg, FieldsBefore(w, k))
      BY <2>2, <3>1 DEF FieldInv, FieldsMerged
    <3>3. \A e \in {l, w} :
            /\ \A j \in FieldsBefore(e, k) : j \in FieldsBefore(e, k)' /\ ledger'[j] = ledger[j]
            /\ \A i \in FieldsOf(e)' : i \in FieldsOf(e) /\ ledger'[i] = ledger[i]
      BY <2>1, <2>2, <3>1
    <3> QED BY <1>6, <3>1, <3>2, <3>3 DEF FieldOr
  <2> QED BY <2>2 DEF FieldsMerged
<1> QED BY <1>11, <1>12, <1>13 DEF FieldInv

(* Values after an undone merge, put back only where the merge had written them. *)
LEMMA FieldUnmerged ==
  ASSUME BaseInv, MergedOnce, FieldInv, NEW n, DropsMerge(n)
  PROVE  FieldInv'
<1> DEFINE s == ledger[n].snap
           l == s.loser
           w == s.winner
<1>1. /\ n \in What("merge") /\ l \in Ent
      /\ What("merge")' = What("merge") \ {n} /\ \A k \in What("merge") \ {n} : ledger'[k] = ledger[k]
      /\ \A e \in MergedByUser : e # l => e \in MergedByUser'
      /\ \A e : FieldsOf(e)' = FieldsOf(e) /\ \A m \in FieldsOf(e) : ledger'[m] = ledger[m]
      /\ UNCHANGED <<userEdited, raced>>
  BY UnmergedViews
<1>2. /\ w \in graph.ents /\ w \in Ent /\ l # w /\ graph.org \in [Ent -> Orgs]
      /\ graph'.org = [[graph.org EXCEPT ![w] = IF @ = s.orgAfter THEN s.winnerOrg ELSE @]
                            EXCEPT ![l] = s.loserOrg]
  BY <1>1, Bases DEF DropsMerge, BaseInv, WellFormed
<1>3. \A m \in FieldsOf(w) : ledger[m].order < ledger[n].order
  BY MergeNotBlocked
<1>4. \A e, c : TakenBack(e, c)' = TakenBack(e, c)
  BY <1>1 DEF TakenBack
<1>5. w \notin MergedByUser
  BY <1>2 DEF MergedOnce, MergedByUser
<1>6. /\ graph'.org[l] = s.loserOrg
      /\ \A e \in Ent : e # l /\ e # w => graph'.org[e] = graph.org[e]
  BY <1>1, <1>2
<1>7. graph'.org[w] \in {graph.org[w], s.winnerOrg}
  <2>1. [graph.org EXCEPT ![w] = IF @ = s.orgAfter THEN s.winnerOrg ELSE @][w] \in {graph.org[w], s.winnerOrg}
    BY <1>2
  <2> QED BY <1>2, <2>1
<1>8. /\ \A i \in FieldsOf(l) : FieldOr(i, l, s.loserOrg, FieldsBefore(l, n))
      /\ \A i \in FieldsOf(w) : FieldOr(i, w, s.winnerOrg, FieldsBefore(w, n))
  BY <1>1, <1>3 DEF FieldInv, FieldsMerged
<1>9. \A e, m : FieldsBefore(e, m) \subseteq FieldsOf(e)
  BY DEF FieldsBefore
<1>10. \A e : \A m \in FieldsOf(e) : FieldsBefore(e, m)' = FieldsBefore(e, m)
  BY <1>1 DEF FieldsBefore
<1>11. \A e : \A m \in What("merge") \ {n} : FieldsBefore(e, m)' = FieldsBefore(e, m)
  BY <1>1 DEF FieldsBefore
<1> HIDE DEF l, w, s
<1>12. FieldsNow'
  <2>1. ASSUME NEW e \in Ent, NEW i \in FieldsOf(e)'
        PROVE  e \in MergedByUser' \/ FieldOr(i, e, graph.org[e], FieldsOf(e))'
    <3>1. i \in FieldsOf(e) /\ ledger'[i] = ledger[i]
      BY <1>1, <2>1
    <3>2. e \in MergedByUser \/ FieldOr(i, e, graph.org[e], FieldsOf(e))
      BY <3>1 DEF FieldInv, FieldsNow
    <3>3. CASE e = l
      <4>1. FieldOr(i, l, s.loserOrg, FieldsBefore(l, n))
        BY <1>8, <3>1, <3>3
      <4> QED BY <1>1, <1>4, <1>6, <1>9, <3>1, <3>3, <4>1 DEF FieldOr
    <3>4. CASE e = w
      <4>1. FieldOr(i, w, s.winnerOrg, FieldsBefore(w, n)) /\ FieldOr(i, w, graph.org[w], FieldsOf(w))
        BY <1>5, <1>8, <3>1, <3>2, <3>4
      <4> QED BY <1>1, <1>4, <1>7, <1>9, <3>1, <3>4, <4>1 DEF FieldOr
    <3>5. CASE e # l /\ e # w
      BY <1>1, <1>4, <1>6, <3>1, <3>2, <3>5 DEF FieldOr
    <3> QED BY <3>3, <3>4, <3>5
  <2> QED BY <2>1 DEF FieldsNow
<1>13. FieldsPrior'
  <2>1. ASSUME NEW e \in Ent, NEW i \in FieldsOf(e)', NEW m \in FieldsOf(e)',
               ledger'[i].order < ledger'[m].order
        PROVE  FieldOr(i, e, ledger[m].snap.was, FieldsBefore(e, m))'
    <3>1. i \in FieldsOf(e) /\ m \in FieldsOf(e) /\ ledger'[i] = ledger[i] /\ ledger'[m] = ledger[m]
      BY <1>1, <2>1
    <3>2. FieldOr(i, e, ledger[m].snap.was, FieldsBefore(e, m))
      BY <2>1, <3>1 DEF FieldInv, FieldsPrior
    <3>3. \A j \in FieldsBefore(e, m) : j \in FieldsBefore(e, m)' /\ ledger'[j] = ledger[j]
      BY <1>1, <1>9, <1>10, <3>1
    <3> QED BY <1>4, <3>1, <3>2, <3>3 DEF FieldOr
  <2> QED BY <2>1 DEF FieldsPrior
<1>14. FieldsMerged'
  <2>1. ASSUME NEW k \in What("merge")', NEW a, a = ledger'[k].snap.loser, NEW b, b = ledger'[k].snap.winner
        PROVE  /\ \A i \in FieldsOf(a)' : FieldOr(i, a, ledger[k].snap.loserOrg, FieldsBefore(a, k))'
               /\ \A i \in FieldsOf(b)' : ledger'[i].order < ledger'[k].order =>
                    FieldOr(i, b, ledger[k].snap.winnerOrg, FieldsBefore(b, k))'
    <3>1. k \in What("merge") \ {n} /\ ledger'[k] = ledger[k]
      BY <1>1, <2>1
    <3>2. /\ \A i \in FieldsOf(a) : FieldOr(i, a, ledger[k].snap.loserOrg, FieldsBefore(a, k))
          /\ \A i \in FieldsOf(b) : ledger[i].order < ledger[k].order =>
               FieldOr(i, b, ledger[k].snap.winnerOrg, FieldsBefore(b, k))
      BY <2>1, <3>1 DEF FieldInv, FieldsMerged
    <3>3. \A e : /\ \A j \in FieldsBefore(e, k) : j \in FieldsBefore(e, k)' /\ ledger'[j] = ledger[j]
                 /\ \A i \in FieldsOf(e)' : i \in FieldsOf(e) /\ ledger'[i] = ledger[i]
      BY <1>1, <1>9, <1>11, <3>1
    <3> QED BY <1>4, <3>1, <3>2, <3>3 DEF FieldOr
  <2> QED BY <2>1 DEF FieldsMerged
<1> QED BY <1>12, <1>13, <1>14 DEF FieldInv

(* Where no correction of a field is made or undone, only the values matter. *)
LEMMA FieldKept ==
  ASSUME FieldInv, SameFields, userEdited \subseteq userEdited', raced \subseteq raced', FieldsNow'
  PROVE  FieldInv'
<1>1. \A e, c : TakenBack(e, c) => TakenBack(e, c)'
  BY TakenStays
<1>2. /\ What("merge")' = What("merge") /\ \A k \in What("merge") : ledger'[k] = ledger[k]
      /\ \A e : FieldsOf(e)' = FieldsOf(e) /\ \A n \in FieldsOf(e) : ledger'[n] = ledger[n]
  BY DEF SameFields, SameMerges
<1>3. \A e, m : FieldsBefore(e, m) \subseteq FieldsOf(e)
  BY DEF FieldsBefore
<1>4. /\ \A e : \A m \in FieldsOf(e) : FieldsBefore(e, m)' = FieldsBefore(e, m)
      /\ \A e : \A m \in What("merge") : FieldsBefore(e, m)' = FieldsBefore(e, m)
  BY <1>2 DEF FieldsBefore
<1>5. FieldsPrior'
  <2>1. ASSUME NEW e \in Ent, NEW i \in FieldsOf(e)', NEW m \in FieldsOf(e)',
               ledger'[i].order < ledger'[m].order
        PROVE  FieldOr(i, e, ledger[m].snap.was, FieldsBefore(e, m))'
    <3>1. i \in FieldsOf(e) /\ m \in FieldsOf(e) /\ ledger'[i] = ledger[i] /\ ledger'[m] = ledger[m]
      BY <1>2, <2>1
    <3>2. FieldOr(i, e, ledger[m].snap.was, FieldsBefore(e, m))
      BY <2>1, <3>1 DEF FieldInv, FieldsPrior
    <3>3. \A j \in FieldsBefore(e, m) : j \in FieldsBefore(e, m)' /\ ledger'[j] = ledger[j]
      BY <1>2, <1>3, <1>4, <3>1
    <3> QED BY <1>1, <3>1, <3>2, <3>3 DEF FieldOr
  <2> QED BY <2>1 DEF FieldsPrior
<1>6. FieldsMerged'
  <2>1. ASSUME NEW k \in What("merge")', NEW a, a = ledger'[k].snap.loser, NEW b, b = ledger'[k].snap.winner
        PROVE  /\ \A i \in FieldsOf(a)' : FieldOr(i, a, ledger[k].snap.loserOrg, FieldsBefore(a, k))'
               /\ \A i \in FieldsOf(b)' : ledger'[i].order < ledger'[k].order =>
                    FieldOr(i, b, ledger[k].snap.winnerOrg, FieldsBefore(b, k))'
    <3>1. k \in What("merge") /\ ledger'[k] = ledger[k]
      BY <1>2, <2>1
    <3>2. /\ \A i \in FieldsOf(a) : FieldOr(i, a, ledger[k].snap.loserOrg, FieldsBefore(a, k))
          /\ \A i \in FieldsOf(b) : ledger[i].order < ledger[k].order =>
               FieldOr(i, b, ledger[k].snap.winnerOrg, FieldsBefore(b, k))
      BY <2>1, <3>1 DEF FieldInv, FieldsMerged
    <3>3. \A e : /\ \A j \in FieldsBefore(e, k) : j \in FieldsBefore(e, k)' /\ ledger'[j] = ledger[j]
                 /\ \A i \in FieldsOf(e)' : i \in FieldsOf(e) /\ ledger'[i] = ledger[i]
      BY <1>2, <1>3, <1>4, <3>1
    <3> QED BY <1>1, <3>1, <3>2, <3>3 DEF FieldOr
  <2> QED BY <2>1 DEF FieldsMerged
<1> QED BY <1>5, <1>6 DEF FieldInv

(* Values after any other step: extraction writes what is not locked, the user what
   the user likes, and a merge its survivor only where there was none. *)
LEMMA FieldStill ==
  ASSUME BaseInv, MergedOnce, LockInv, FieldInv, SameFields,
         userEdited \subseteq userEdited', raced \subseteq raced',
         \/ graph'.org = graph.org
         \/ \E e, v : WritesField(e, v) \/ EditsField(e, v)
         \/ \E l, w : MergesPair(l, w)
  PROVE  FieldInv'
<1>1. \A e, c : TakenBack(e, c) => TakenBack(e, c)'
  BY TakenStays
<1>2. /\ MergedByUser' = MergedByUser
      /\ \A e : FieldsOf(e)' = FieldsOf(e) /\ \A n \in FieldsOf(e) : ledger'[n] = ledger[n]
  BY DEF SameFields, SameMerges
<1>3. graph.ents \subseteq Ent /\ graph.org \in [Ent -> Orgs]
  BY DEF BaseInv, WellFormed
<1>4. \A e \in graph.ents : e \notin MergedByUser
  BY DEF MergedOnce, MergedByUser
<1> SUFFICES ASSUME NEW e \in Ent, NEW n \in FieldsOf(e), e \notin MergedByUser
             PROVE  TakenBack(e, "org")' \/ FieldOr(n, e, graph'.org[e], FieldsOf(e))
  <2>1. ASSUME NEW e \in Ent, NEW n \in FieldsOf(e)', e \notin MergedByUser',
               TakenBack(e, "org")' \/ FieldOr(n, e, graph'.org[e], FieldsOf(e))
        PROVE  FieldOr(n, e, graph.org[e], FieldsOf(e))'
    BY <1>1, <1>2, <2>1 DEF FieldOr
  <2>2. FieldsNow'
    BY <1>2, <2>1 DEF FieldsNow
  <2> QED BY <2>2, FieldKept
<1>5. FieldOr(n, e, graph.org[e], FieldsOf(e))
  BY DEF FieldInv, FieldsNow
<1>6. CASE graph'.org[e] = graph.org[e]
  BY <1>5, <1>6
<1>7. ASSUME NEW a, NEW v, WritesField(a, v)
      PROVE  TakenBack(e, "org")' \/ FieldOr(n, e, graph'.org[e], FieldsOf(e))
  <2>1. a \in graph.ents /\ a \notin graph.locked /\ graph'.org = [graph.org EXCEPT ![a] = v]
    BY <1>7 DEF WritesField
  <2>2. e = a => TakenBack(e, "org")
    BY <2>1 DEF LockInv, LocksNow
  <2>3. e # a => graph'.org[e] = graph.org[e]
    BY <1>3, <2>1
  <2> QED BY <1>1, <1>6, <2>2, <2>3
<1>8. ASSUME NEW a, NEW v, EditsField(a, v)
      PROVE  TakenBack(e, "org")' \/ FieldOr(n, e, graph'.org[e], FieldsOf(e))
  <2>1. a \in graph.ents /\ <<a, "org">> \in userEdited' /\ graph'.org = [graph.org EXCEPT ![a] = v]
    BY <1>8 DEF EditsField
  <2>2. e = a => TakenBack(e, "org")'
    BY <2>1 DEF TakenBack
  <2>3. e # a => graph'.org[e] = graph.org[e]
    BY <1>3, <2>1
  <2> QED BY <1>6, <2>2, <2>3
<1>9. ASSUME NEW l, NEW w, MergesPair(l, w)
      PROVE  TakenBack(e, "org")' \/ FieldOr(n, e, graph'.org[e], FieldsOf(e))
  <2>1. /\ l \in graph.ents /\ w \in graph.ents /\ l # w
        /\ graph'.org = [[graph.org EXCEPT ![w] = MergedOrg(graph, l, w)] EXCEPT ![l] = Blank]
        /\ l \notin graph.locked \/ TakenBack(l, "org")'
    BY <1>9 DEF MergesPair, TakenBack
  <2>2. e = l => TakenBack(e, "org")'
    BY <1>1, <2>1 DEF LockInv, LocksNow
  <2>3. graph'.org[w] = MergedOrg(graph, l, w)
    <3>1. [graph.org EXCEPT ![w] = MergedOrg(graph, l, w)][w] = MergedOrg(graph, l, w)
      BY <1>3, <2>1
    <3> QED BY <1>3, <2>1, <3>1
  <2>4. CASE e = w
    BY <1>5, <2>3, <2>4, MergedOrgStays
  <2>5. e # l /\ e # w => graph'.org[e] = graph.org[e]
    BY <1>3, <2>1
  <2> QED BY <1>6, <2>2, <2>4, <2>5
<1>10. CASE graph'.org = graph.org
  BY <1>6, <1>10
<1> QED BY <1>7, <1>8, <1>9, <1>10

-----------------------------------------------------------------------------
(* Hides. *)

(* Hides after another one ... *)
LEMMA HideAdded ==
  ASSUME BaseInv, MergedOnce, HideInv, NEW x, NEW s, NEW p \in Request, AddsHide(x, p, s)
  PROVE  HideInv'
<1> DEFINE a == p.e
<1>1. /\ Adds(x, p, s) /\ p.op = "hide" /\ a \in graph.ents /\ a \in Ent
      /\ s.was = graph.hidden[a] /\ graph'.hidden = [graph.hidden EXCEPT ![a] = NextOrder]
      /\ graph.hidden \in [Ent -> Int]
      /\ UNCHANGED <<userEdited, raced>>
  BY RequestParts DEF AddsHide, BaseInv, WellFormed
<1>2. /\ ledger'[x].snap = s /\ ledger'[x].what = p /\ ledger'[x].order = NextOrder /\ NextOrder \in Nat
      /\ \A n \in Standing : /\ ledger'[n] = ledger[n] /\ n # x /\ ledger[n].order \in Nat
                             /\ ledger[n].order < NextOrder
      /\ HidesOf(a)' = HidesOf(a) \cup {x}
      /\ \A e : e # a => HidesOf(e)' = HidesOf(e)
  <2>1. /\ ledger'[x].snap = s /\ ledger'[x].what = p /\ ledger'[x].order = NextOrder /\ NextOrder \in Nat
        /\ \A n \in Standing : /\ ledger'[n] = ledger[n] /\ n # x /\ ledger[n].order \in Nat
                               /\ ledger[n].order < NextOrder
    BY <1>1, AddViews
  <2>2. \A e : HidesOf(e)' = HidesOf(e) \cup IF p.op = "hide" /\ p.e = e THEN {x} ELSE {}
    BY <1>1, AddViews
  <2>3. HidesOf(a)' = HidesOf(a) \cup {x}
    BY <1>1, <2>2
  <2>4. \A e : e # a => HidesOf(e)' = HidesOf(e)
    BY <2>2
  <2> QED BY <2>1, <2>3, <2>4
<1>3. \A e : HidesOf(e) \subseteq Standing
  BY Bases
<1>4. \A e : \A m \in Standing : HidesBefore(e, m)' = HidesBefore(e, m)
  BY <1>1, AddViews
<1>5. HidesOf(a) \subseteq HidesBefore(a, x)'
  BY <1>1, AddViews
<1>6. \A e, c : TakenBack(e, c)' = TakenBack(e, c)
  BY <1>1 DEF TakenBack
<1>7. \A k \in What("merge") : k \in Standing /\ ledger[k].snap.loser # a
  BY <1>1, Bases DEF MergedOnce
<1>8. a \notin MergedByUser
  BY <1>7 DEF MergedByUser
<1>9. \A e, m : HidesBefore(e, m) \subseteq HidesOf(e)
  BY DEF HidesBefore
<1>10. /\ What("merge")' = What("merge") /\ MergedByUser' = MergedByUser
  <2>1. /\ What("merge")' = What("merge") \cup IF p.op = "merge" THEN {x} ELSE {}
        /\ MergedByUser' = MergedByUser \cup IF p.op = "merge" THEN {s.loser} ELSE {}
    BY <1>1, AddViews
  <2> QED BY <1>1, <2>1
<1>11. \A e : \A n \in HidesOf(e) : n \in HidesOf(e)' /\ ledger'[n] = ledger[n]
  BY <1>2, <1>3
<1>12. \A e, o : HideOf(e, o) => HideOf(e, o)'
  BY <1>11 DEF HideOf
<1>13. graph'.hidden[a] = NextOrder /\ \A e \in Ent : e # a => graph'.hidden[e] = graph.hidden[e]
  BY <1>1
<1> HIDE DEF a
<1>14. HidesNow'
  <2>1. ASSUME NEW e \in Ent, graph'.hidden[e] > 0 PROVE HideOf(e, graph.hidden[e])'
    <3>1. CASE e = a
      BY <1>2, <1>13, <3>1 DEF HideOf
    <3>2. CASE e # a
      <4>1. HideOf(e, graph.hidden[e])
        BY <1>13, <2>1, <3>2 DEF HideInv, HidesNow
      <4> QED BY <1>11, <1>13, <3>2, <4>1 DEF HideOf
    <3> QED BY <3>1, <3>2
  <2>2. ASSUME NEW e \in Ent, NEW n \in HidesOf(e)'
        PROVE  e \in MergedByUser' \/ HideOr(n, e, graph.hidden[e], HidesOf(e))'
    <3>1. CASE e = a /\ n = x
      BY <1>2, <1>13, <3>1 DEF HideOr
    <3>2. CASE e = a /\ n # x
      <4>1. n \in HidesOf(a) /\ n \in Standing /\ x \in HidesOf(e)'
        BY <1>2, <1>3, <2>2, <3>2
      <4>2. ledger'[n].order < ledger'[x].order
        BY <1>2, <4>1
      <4> QED BY <4>1, <4>2 DEF HideOr
    <3>3. CASE e # a
      <4>1. n \in HidesOf(e) /\ graph'.hidden[e] = graph.hidden[e]
        BY <1>2, <1>13, <2>2, <3>3
      <4>2. e \in MergedByUser \/ HideOr(n, e, graph.hidden[e], HidesOf(e))
        BY <4>1 DEF HideInv, HidesNow
      <4> QED BY <1>6, <1>10, <1>11, <4>1, <4>2 DEF HideOr
    <3> QED BY <3>1, <3>2, <3>3
  <2> QED BY <2>1, <2>2 DEF HidesNow
<1>15. HidesPrior'
  <2>1. ASSUME NEW e \in Ent, NEW m \in HidesOf(e)', ledger'[m].snap.was > 0
        PROVE  HideOf(e, ledger[m].snap.was)' /\ ledger'[m].snap.was < ledger'[m].order
    <3>1. CASE m = x
      <4>1. e = a
        BY <1>2, <1>3, <3>1
      <4>2. HideOf(a, graph.hidden[a])
        BY <1>1, <1>2, <2>1, <3>1 DEF HideInv, HidesNow
      <4>3. PICK n \in HidesOf(a) : ledger[n].order = graph.hidden[a]
        BY <4>2 DEF HideOf
      <4>4. ledger[n].order < NextOrder /\ n \in HidesOf(a)' /\ ledger'[n] = ledger[n]
        BY <1>2, <1>3, <1>11
      <4> QED BY <1>1, <1>2, <3>1, <4>1, <4>3, <4>4 DEF HideOf
    <3>2. CASE m # x
      <4>1. m \in HidesOf(e) /\ ledger'[m] = ledger[m]
        BY <1>2, <1>11, <2>1, <3>2
      <4>2. HideOf(e, ledger[m].snap.was) /\ ledger[m].snap.was < ledger[m].order
        BY <2>1, <4>1 DEF HideInv, HidesPrior
      <4> QED BY <1>11, <4>1, <4>2 DEF HideOf
    <3> QED BY <3>1, <3>2
  <2>2. ASSUME NEW e \in Ent, NEW n \in HidesOf(e)', NEW m \in HidesOf(e)',
               ledger'[n].order < ledger'[m].order
        PROVE  HideOr(n, e, ledger[m].snap.was, HidesBefore(e, m))'
    <3>1. n # x
      <4>1. ledger'[m].order \in Nat /\ ledger'[m].order <= NextOrder
        BY <1>2, <1>3, <2>2
      <4> QED BY <1>2, <2>2, <4>1
    <3>2. n \in HidesOf(e) /\ ledger'[n] = ledger[n]
      BY <1>2, <1>11, <2>2, <3>1
    <3>3. CASE m = x
      <4>1. e = a
        BY <1>2, <1>3, <2>2, <3>3
      <4>2. HideOr(n, a, graph.hidden[a], HidesOf(a))
        BY <1>1, <1>8, <3>2, <4>1 DEF HideInv, HidesNow
      <4>3. \A j \in HidesOf(a) : j \in HidesBefore(a, x)' /\ ledger'[j] = ledger[j]
        BY <1>5, <1>11
      <4> QED BY <1>1, <1>2, <1>6, <3>2, <3>3, <4>1, <4>2, <4>3 DEF HideOr
    <3>4. CASE m # x
      <4>1. m \in HidesOf(e) /\ m \in Standing /\ ledger'[m] = ledger[m]
        BY <1>2, <1>3, <2>2, <3>4
      <4>2. HideOr(n, e, ledger[m].snap.was, HidesBefore(e, m))
        BY <2>2, <3>2, <4>1 DEF HideInv, HidesPrior
      <4>3. HidesBefore(e, m)' = HidesBefore(e, m) /\ \A j \in HidesBefore(e, m) : ledger'[j] = ledger[j]
        BY <1>4, <1>9, <1>11, <4>1
      <4> QED BY <1>6, <3>2, <4>1, <4>2, <4>3 DEF HideOr
    <3> QED BY <3>3, <3>4
  <2> QED BY <2>1, <2>2 DEF HidesPrior
<1>16. HidesMerged'
  <2>1. ASSUME NEW k \in What("merge")', NEW l, l = ledger'[k].snap.loser
        PROVE  /\ ledger'[k].snap.hidden > 0 =>
                    HideOf(l, ledger[k].snap.hidden)' /\ ledger'[k].snap.hidden < ledger'[k].order
               /\ \A n \in HidesOf(l)' :
                    ledger'[n].order < ledger'[k].order /\ HideOr(n, l, ledger[k].snap.hidden, HidesBefore(l, k))'
    <3>1. k \in What("merge") /\ k \in Standing /\ ledger'[k] = ledger[k] /\ l # a
      BY <1>2, <1>7, <1>10, <2>1
    <3>2. /\ ledger[k].snap.hidden > 0 =>
               HideOf(l, ledger[k].snap.hidden) /\ ledger[k].snap.hidden < ledger[k].order
          /\ \A n \in HidesOf(l) :
               ledger[n].order < ledger[k].order /\ HideOr(n, l, ledger[k].snap.hidden, HidesBefore(l, k))
      BY <2>1, <3>1 DEF HideInv, HidesMerged
    <3>3. /\ HidesOf(l)' = HidesOf(l) /\ \A n \in HidesOf(l) : ledger'[n] = ledger[n]
          /\ HidesBefore(l, k)' = HidesBefore(l, k) /\ HidesBefore(l, k) \subseteq HidesOf(l)
      BY <1>2, <1>4, <1>9, <1>11, <3>1
    <3>4. HideOf(l, ledger[k].snap.hidden) => HideOf(l, ledger[k].snap.hidden)'
      BY <3>1, <3>3 DEF HideOf
    <3> QED BY <1>6, <3>1, <3>2, <3>3, <3>4 DEF HideOr
  <2> QED BY <2>1 DEF HidesMerged
<1> QED BY <1>14, <1>15, <1>16 DEF HideInv

(* ... after a merge of the user, which takes the hide of the loser ... *)
LEMMA HideMerged ==
  ASSUME BaseInv, MergedOnce, HideInv, NEW x, NEW s, NEW p \in Request, AddsMerge(x, p, s)
  PROVE  HideInv'
<1> DEFINE l == s.loser
<1>1. /\ Adds(x, p, s) /\ p.op = "merge" /\ l \in graph.ents /\ l \in Ent
      /\ graph.hidden \in [Ent -> Int] /\ s.hidden = graph.hidden[l]
      /\ graph'.hidden = [graph.hidden EXCEPT ![l] = 0]
      /\ UNCHANGED <<userEdited, raced>>
  BY DEF AddsMerge, BaseInv, WellFormed
<1>2. /\ ledger'[x].snap = s /\ ledger'[x].order = NextOrder /\ NextOrder \in Nat
      /\ \A n \in Standing : /\ ledger'[n] = ledger[n] /\ n # x /\ ledger[n].order \in Nat
                             /\ ledger[n].order < NextOrder
      /\ What("merge")' = What("merge") \cup {x} /\ MergedByUser' = MergedByUser \cup {l}
  <2>1. /\ ledger'[x].snap = s /\ ledger'[x].order = NextOrder /\ NextOrder \in Nat
        /\ \A n \in Standing : /\ ledger'[n] = ledger[n] /\ n # x /\ ledger[n].order \in Nat
                               /\ ledger[n].order < NextOrder
    BY <1>1, AddViews
  <2>2. /\ What("merge")' = What("merge") \cup IF p.op = "merge" THEN {x} ELSE {}
        /\ MergedByUser' = MergedByUser \cup IF p.op = "merge" THEN {s.loser} ELSE {}
    BY <1>1, AddViews
  <2>3. What("merge")' = What("merge") \cup {x} /\ MergedByUser' = MergedByUser \cup {l}
    BY <1>1, <2>2
  <2> QED BY <2>1, <2>3
<1>3. \A e : HidesOf(e)' = HidesOf(e)
  <2>1. \A e : HidesOf(e)' = HidesOf(e) \cup IF p.op = "hide" /\ p.e = e THEN {x} ELSE {}
    BY <1>1, AddViews
  <2> QED BY <1>1, <2>1
<1>4. /\ \A e : HidesOf(e) \subseteq Standing
      /\ What("merge") \subseteq Standing
  BY Bases
<1>5. \A e : \A m \in Standing : HidesBefore(e, m)' = HidesBefore(e, m)
  BY <1>1, AddViews
<1>6. \A e : HidesOf(e) \subseteq HidesBefore(e, x)'
  BY <1>1, AddViews
<1>7. \A e, c : TakenBack(e, c)' = TakenBack(e, c)
  BY <1>1 DEF TakenBack
<1>8. l \notin MergedByUser
  BY <1>1 DEF MergedOnce, MergedByUser
<1>9. \A e, m : HidesBefore(e, m) \subseteq HidesOf(e)
  BY DEF HidesBefore
<1>10. \A e : \A n \in HidesOf(e) : n \in HidesOf(e)' /\ ledger'[n] = ledger[n]
  BY <1>2, <1>3, <1>4
<1>11. graph'.hidden[l] = 0 /\ \A e \in Ent : e # l => graph'.hidden[e] = graph.hidden[e]
  BY <1>1
<1>12. s.hidden > 0 => HideOf(l, s.hidden) /\ s.hidden < NextOrder
  <2>1. ASSUME s.hidden > 0 PROVE HideOf(l, s.hidden) /\ s.hidden < NextOrder
    <3>1. HideOf(l, s.hidden)
      BY <1>1, <2>1 DEF HideInv, HidesNow
    <3>2. PICK n \in HidesOf(l) : ledger[n].order = s.hidden
      BY <3>1 DEF HideOf
    <3> QED BY <1>2, <1>4, <3>1, <3>2
  <2> QED BY <2>1
<1>13. \A n \in HidesOf(l) : ledger[n].order < NextOrder /\ HideOr(n, l, s.hidden, HidesOf(l))
  BY <1>1, <1>2, <1>4, <1>8 DEF HideInv, HidesNow
<1> HIDE DEF l
<1>14. HidesNow'
  <2>1. ASSUME NEW e \in Ent, graph'.hidden[e] > 0 PROVE HideOf(e, graph.hidden[e])'
    <3>1. e # l /\ graph'.hidden[e] = graph.hidden[e]
      BY <1>11, <2>1
    <3>2. HideOf(e, graph.hidden[e])
      BY <2>1, <3>1 DEF HideInv, HidesNow
    <3> QED BY <1>10, <3>1, <3>2 DEF HideOf
  <2>2. ASSUME NEW e \in Ent, NEW n \in HidesOf(e)'
        PROVE  e \in MergedByUser' \/ HideOr(n, e, graph.hidden[e], HidesOf(e))'
    <3>1. CASE e = l
      BY <1>2, <3>1
    <3>2. CASE e # l
      <4>1. n \in HidesOf(e) /\ graph'.hidden[e] = graph.hidden[e]
        BY <1>3, <1>11, <2>2, <3>2
      <4>2. e \in MergedByUser \/ HideOr(n, e, graph.hidden[e], HidesOf(e))
        BY <4>1 DEF HideInv, HidesNow
      <4> QED BY <1>2, <1>7, <1>10, <4>1, <4>2 DEF HideOr
    <3> QED BY <3>1, <3>2
  <2> QED BY <2>1, <2>2 DEF HidesNow
<1>15. HidesPrior'
  <2>1. ASSUME NEW e \in Ent, NEW m \in HidesOf(e)', ledger'[m].snap.was > 0
        PROVE  HideOf(e, ledger[m].snap.was)' /\ ledger'[m].snap.was < ledger'[m].order
    <3>1. m \in HidesOf(e) /\ ledger'[m] = ledger[m]
      BY <1>3, <1>10, <2>1
    <3>2. HideOf(e, ledger[m].snap.was) /\ ledger[m].snap.was < ledger[m].order
      BY <2>1, <3>1 DEF HideInv, HidesPrior
    <3> QED BY <1>10, <3>1, <3>2 DEF HideOf
  <2>2. ASSUME NEW e \in Ent, NEW n \in HidesOf(e)', NEW m \in HidesOf(e)',
               ledger'[n].order < ledger'[m].order
        PROVE  HideOr(n, e, ledger[m].snap.was, HidesBefore(e, m))'
    <3>1. /\ n \in HidesOf(e) /\ m \in HidesOf(e) /\ m \in Standing
          /\ ledger'[n] = ledger[n] /\ ledger'[m] = ledger[m]
      BY <1>3, <1>4, <1>10, <2>2
    <3>2. HideOr(n, e, ledger[m].snap.was, HidesBefore(e, m))
      BY <2>2, <3>1 DEF HideInv, HidesPrior
    <3>3. HidesBefore(e, m)' = HidesBefore(e, m) /\ \A j \in HidesBefore(e, m) : ledger'[j] = ledger[j]
      BY <1>5, <1>9, <1>10, <3>1
    <3> QED BY <1>7, <3>1, <3>2, <3>3 DEF HideOr
  <2> QED BY <2>1, <2>2 DEF HidesPrior
<1>16. HidesMerged'
  <2>1. ASSUME NEW k \in What("merge")', NEW a, a = ledger'[k].snap.loser
        PROVE  /\ ledger'[k].snap.hidden > 0 =>
                    HideOf(a, ledger[k].snap.hidden)' /\ ledger'[k].snap.hidden < ledger'[k].order
               /\ \A n \in HidesOf(a)' :
                    ledger'[n].order < ledger'[k].order /\ HideOr(n, a, ledger[k].snap.hidden, HidesBefore(a, k))'
    <3>1. CASE k = x
      <4>1. a = l /\ ledger'[k].snap.hidden = s.hidden /\ ledger'[k].order = NextOrder
        BY <1>2, <2>1, <3>1 DEF l
      <4>2. HideOf(l, s.hidden) => HideOf(l, s.hidden)'
        BY <1>10 DEF HideOf
      <4>3. s.hidden > 0 => HideOf(a, ledger[k].snap.hidden)'
        BY <1>12, <4>1, <4>2 DEF HideOf
      <4>4. \A n \in HidesOf(l)' : ledger'[n].order < NextOrder /\ HideOr(n, a, ledger[k].snap.hidden, HidesBefore(a, k))'
        BY <1>3, <1>6, <1>7, <1>10, <1>13, <3>1, <4>1 DEF HideOr
      <4> QED BY <1>12, <4>1, <4>3, <4>4
    <3>2. CASE k # x
      <4>1. k \in What("merge") /\ k \in Standing /\ ledger'[k] = ledger[k]
        BY <1>2, <1>4, <2>1, <3>2
      <4>2. /\ ledger[k].snap.hidden > 0 =>
                 HideOf(a, ledger[k].snap.hidden) /\ ledger[k].snap.hidden < ledger[k].order
            /\ \A n \in HidesOf(a) :
                 ledger[n].order < ledger[k].order /\ HideOr(n, a, ledger[k].snap.hidden, HidesBefore(a, k))
        BY <2>1, <4>1 DEF HideInv, HidesMerged
      <4>3. HidesBefore(a, k)' = HidesBefore(a, k) /\ HidesBefore(a, k) \subseteq HidesOf(a)
        BY <1>5, <1>9, <4>1
      <4>4. HideOf(a, ledger[k].snap.hidden) => HideOf(a, ledger[k].snap.hidden)'
        BY <1>10, <4>1 DEF HideOf
      <4> QED BY <1>3, <1>7, <1>10, <4>1, <4>2, <4>3, <4>4 DEF HideOr
    <3> QED BY <3>1, <3>2
  <2> QED BY <2>1 DEF HidesMerged
<1> QED BY <1>14, <1>15, <1>16 DEF HideInv

(* ... after an undone hide: the one before it is there again ... *)
LEMMA HideDropped ==
  ASSUME BaseInv, HideInv, NEW n, DropsHide(n)
  PROVE  HideInv'
<1> DEFINE a == ledger[n].what.e
           s == ledger[n].snap
<1>1. /\ Removes(n) /\ graph.hidden \in [Ent -> Int]
      /\ graph'.hidden = [graph.hidden EXCEPT ![a] = s.was]
      /\ UNCHANGED <<userEdited, raced>> /\ ledger[n].what.op = "hide"
  BY DEF DropsHide, BaseInv, WellFormed
<1>2. /\ \A m \in Standing \ {n} : ledger'[m] = ledger[m]
      /\ \A e : HidesOf(e)' = HidesOf(e) \ {n}
      /\ \A m \in Standing : ledger[m].order \in Nat
      /\ \A e : \A m \in Standing \ {n} : HidesBefore(e, m)' = HidesBefore(e, m) \ {n}
  BY <1>1, RemoveViews
<1>3. /\ n \in HidesOf(a)
      /\ \A m \in HidesOf(a) : m # n => ledger[m].order < ledger[n].order
      /\ \A k \in What("merge") : ledger[n].order < ledger[k].order =>
           a # ledger[k].snap.loser /\ a # ledger[k].snap.winner
  BY HideNotBlocked
<1>4. /\ \A e : \A m \in HidesOf(e) : m \in Standing /\ ledger[m].what.e = e /\ ledger[m].what.op = "hide"
      /\ \A k \in What("merge") : k \in Standing /\ ledger[k].what.op = "merge"
      /\ a \in Ent
  BY <1>3, Bases
<1>5. SameMerges
  <2>1. ledger[n].what.op # "merge" /\ ledger[n].what.op # "set_field"
    BY <1>1
  <2> QED BY <1>1, <2>1, RemovedSame DEF SameFields
<1>6. \A e, c : TakenBack(e, c)' = TakenBack(e, c)
  BY <1>1 DEF TakenBack
<1>7. \A e : e # a => n \notin HidesOf(e)
  BY <1>4
<1>8. \A e : \A m \in HidesOf(e) : m # n => m \in HidesOf(e)' /\ ledger'[m] = ledger[m]
  BY <1>2, <1>4
<1>9. \A e, m : HidesBefore(e, m) \subseteq HidesOf(e)
  BY DEF HidesBefore
<1>10. graph'.hidden[a] = s.was /\ \A e \in Ent : e # a => graph'.hidden[e] = graph.hidden[e]
  BY <1>1, <1>4
<1>11. ASSUME NEW e, NEW m \in HidesOf(e), m # n, NEW j \in HidesOf(e), ledger[j].order < ledger[m].order
       PROVE  j # n
  <2>1. CASE e = a
    BY <1>2, <1>3, <1>4, <1>11, <2>1
  <2>2. CASE e # a
    BY <1>7, <2>2
  <2> QED BY <2>1, <2>2
<1>12. ASSUME s.was > 0 PROVE \E j \in HidesOf(a) : j # n /\ ledger[j].order = s.was
  <2>1. HideOf(a, s.was) /\ s.was < ledger[n].order
    BY <1>3, <1>4, <1>12 DEF HideInv, HidesPrior
  <2>2. PICK j \in HidesOf(a) : ledger[j].order = s.was
    BY <2>1 DEF HideOf
  <2>3. j # n
    BY <1>2, <1>3, <1>4, <2>1, <2>2
  <2> QED BY <2>2, <2>3
<1> HIDE DEF a
<1>13. HidesNow'
  <2>1. ASSUME NEW e \in Ent, graph'.hidden[e] > 0 PROVE HideOf(e, graph.hidden[e])'
    <3>1. CASE e = a
      BY <1>8, <1>10, <1>12, <2>1, <3>1 DEF HideOf
    <3>2. CASE e # a
      <4>1. HideOf(e, graph.hidden[e])
        BY <1>10, <2>1, <3>2 DEF HideInv, HidesNow
      <4> QED BY <1>7, <1>8, <1>10, <3>2, <4>1 DEF HideOf
    <3> QED BY <3>1, <3>2
  <2>2. ASSUME NEW e \in Ent, NEW m \in HidesOf(e)'
        PROVE  e \in MergedByUser' \/ HideOr(m, e, graph.hidden[e], HidesOf(e))'
    <3>1. m \in HidesOf(e) /\ m # n /\ ledger'[m] = ledger[m]
      BY <1>2, <1>8, <2>2
    <3>2. CASE e = a
      <4>1. ledger[m].order < ledger[n].order
        BY <1>3, <3>1, <3>2
      <4>2. HideOr(m, a, s.was, HidesBefore(a, n))
        BY <1>3, <1>4, <3>1, <3>2, <4>1 DEF HideInv, HidesPrior
      <4>3. \A j \in HidesBefore(a, n) : j \in HidesOf(a) /\ j # n
        BY <1>2, <1>3, <1>4 DEF HidesBefore
      <4> QED BY <1>6, <1>8, <1>10, <3>1, <3>2, <4>2, <4>3 DEF HideOr
    <3>3. CASE e # a
      <4>1. e \in MergedByUser \/ HideOr(m, e, graph.hidden[e], HidesOf(e))
        BY <3>1 DEF HideInv, HidesNow
      <4> QED BY <1>5, <1>6, <1>7, <1>8, <1>10, <3>1, <3>3, <4>1 DEF HideOr, SameMerges
    <3> QED BY <3>2, <3>3
  <2> QED BY <2>1, <2>2 DEF HidesNow
<1>14. HidesPrior'
  <2>1. ASSUME NEW e \in Ent, NEW m \in HidesOf(e)', ledger'[m].snap.was > 0
        PROVE  HideOf(e, ledger[m].snap.was)' /\ ledger'[m].snap.was < ledger'[m].order
    <3>1. m \in HidesOf(e) /\ m # n /\ ledger'[m] = ledger[m]
      BY <1>2, <1>8, <2>1
    <3>2. HideOf(e, ledger[m].snap.was) /\ ledger[m].snap.was < ledger[m].order
      BY <2>1, <3>1 DEF HideInv, HidesPrior
    <3>3. PICK j \in HidesOf(e) : ledger[j].order = ledger[m].snap.was
      BY <3>2 DEF HideOf
    <3>4. j # n
      BY <1>11, <3>1, <3>2, <3>3
    <3> QED BY <1>8, <3>1, <3>2, <3>3, <3>4 DEF HideOf
  <2>2. ASSUME NEW e \in Ent, NEW i \in HidesOf(e)', NEW m \in HidesOf(e)',
               ledger'[i].order < ledger'[m].order
        PROVE  HideOr(i, e, ledger[m].snap.was, HidesBefore(e, m))'
    <3>1. /\ i \in HidesOf(e) /\ m \in HidesOf(e) /\ m # n /\ m \in Standing
          /\ ledger'[i] = ledger[i] /\ ledger'[m] = ledger[m]
      BY <1>2, <1>4, <1>8, <2>2
    <3>2. HideOr(i, e, ledger[m].snap.was, HidesBefore(e, m))
      BY <2>2, <3>1 DEF HideInv, HidesPrior
    <3>3. \A j \in HidesBefore(e, m) : j # n
      BY <1>11, <3>1 DEF HidesBefore
    <3>4. \A j \in HidesBefore(e, m) : j \in HidesBefore(e, m)' /\ ledger'[j] = ledger[j]
      BY <1>2, <1>8, <1>9, <3>1, <3>3
    <3> QED BY <1>6, <3>1, <3>2, <3>4 DEF HideOr
  <2> QED BY <2>1, <2>2 DEF HidesPrior
<1>15. HidesMerged'
  <2>1. ASSUME NEW k \in What("merge")', NEW l, l = ledger'[k].snap.loser
        PROVE  /\ ledger'[k].snap.hidden > 0 =>
                    HideOf(l, ledger[k].snap.hidden)' /\ ledger'[k].snap.hidden < ledger'[k].order
               /\ \A i \in HidesOf(l)' :
                    ledger'[i].order < ledger'[k].order /\ HideOr(i, l, ledger[k].snap.hidden, HidesBefore(l, k))'
    <3>1. k \in What("merge") /\ k \in Standing /\ k # n /\ ledger'[k] = ledger[k]
      BY <1>3, <1>4, <1>5, <2>1 DEF SameMerges
    <3>2. /\ ledger[k].snap.hidden > 0 =>
               HideOf(l, ledger[k].snap.hidden) /\ ledger[k].snap.hidden < ledger[k].order
          /\ \A i \in HidesOf(l) :
               ledger[i].order < ledger[k].order /\ HideOr(i, l, ledger[k].snap.hidden, HidesBefore(l, k))
      BY <2>1, <3>1 DEF HideInv, HidesMerged
    <3>3. \A j \in HidesOf(l) : ledger[j].order < ledger[k].order => j # n
      BY <1>3, <1>7, <2>1, <3>1
    <3>4. \A j \in HidesBefore(l, k) : j \in HidesBefore(l, k)' /\ ledger'[j] = ledger[j]
      BY <1>2, <1>8, <1>9, <3>1, <3>3 DEF HidesBefore
    <3>5. ASSUME ledger[k].snap.hidden > 0 PROVE HideOf(l, ledger[k].snap.hidden)'
      <4>1. PICK j \in HidesOf(l) : ledger[j].order = ledger[k].snap.hidden
        BY <3>2, <3>5 DEF HideOf
      <4>2. j # n
        BY <3>2, <3>3, <3>5, <4>1
      <4> QED BY <1>8, <3>1, <4>1, <4>2 DEF HideOf
    <3>6. \A i \in HidesOf(l)' : i \in HidesOf(l) /\ ledger'[i] = ledger[i]
      BY <1>2, <1>8
    <3> QED BY <1>6, <3>1, <3>2, <3>4, <3>5, <3>6 DEF HideOr
  <2> QED BY <2>1 DEF HidesMerged
<1> QED BY <1>13, <1>14, <1>15 DEF HideInv

(* ... and after an undone merge. *)
LEMMA HideUnmerged ==
  ASSUME BaseInv, MergedOnce, HideInv, NEW n, DropsMerge(n)
  PROVE  HideInv'
<1> DEFINE s == ledger[n].snap
           l == s.loser
<1>1. /\ n \in What("merge") /\ l \in Ent
      /\ What("merge")' = What("merge") \ {n} /\ \A k \in What("merge") \ {n} : ledger'[k] = ledger[k]
      /\ \A e \in MergedByUser : e # l => e \in MergedByUser'
      /\ \A e : HidesOf(e)' = HidesOf(e) /\ \A m \in HidesOf(e) : ledger'[m] = ledger[m]
      /\ UNCHANGED <<userEdited, raced>>
  BY UnmergedViews
<1>2. graph.hidden \in [Ent -> Int] /\ graph'.hidden = [graph.hidden EXCEPT ![l] = s.hidden]
  BY DEF DropsMerge, BaseInv, WellFormed
<1>3. graph'.hidden[l] = s.hidden /\ \A e \in Ent : e # l => graph'.hidden[e] = graph.hidden[e]
  BY <1>1, <1>2
<1>4. \A e, c : TakenBack(e, c)' = TakenBack(e, c)
  BY <1>1 DEF TakenBack
<1>5. /\ s.hidden > 0 => HideOf(l, s.hidden)
      /\ \A i \in HidesOf(l) : HideOr(i, l, s.hidden, HidesBefore(l, n))
  BY <1>1 DEF HideInv, HidesMerged
<1>6. \A e, m : HidesBefore(e, m) \subseteq HidesOf(e)
  BY DEF HidesBefore
<1>7. \A e : \A m \in HidesOf(e) : HidesBefore(e, m)' = HidesBefore(e, m)
  BY <1>1 DEF HidesBefore
<1>8. \A e : \A m \in What("merge") \ {n} : HidesBefore(e, m)' = HidesBefore(e, m)
  BY <1>1 DEF HidesBefore
<1> HIDE DEF l, s
<1>9. HidesNow'
  <2>1. ASSUME NEW e \in Ent, graph'.hidden[e] > 0 PROVE HideOf(e, graph.hidden[e])'
    <3>1. CASE e = l
      BY <1>1, <1>3, <1>5, <2>1, <3>1 DEF HideOf
    <3>2. CASE e # l
      <4>1. HideOf(e, graph.hidden[e])
        BY <1>3, <2>1, <3>2 DEF HideInv, HidesNow
      <4> QED BY <1>1, <1>3, <3>2, <4>1 DEF HideOf
    <3> QED BY <3>1, <3>2
  <2>2. ASSUME NEW e \in Ent, NEW i \in HidesOf(e)'
        PROVE  e \in MergedByUser' \/ HideOr(i, e, graph.hidden[e], HidesOf(e))'
    <3>1. i \in HidesOf(e) /\ ledger'[i] = ledger[i]
      BY <1>1, <2>2
    <3>2. CASE e = l
      <4>1. HideOr(i, l, s.hidden, HidesBefore(l, n))
        BY <1>5, <3>1, <3>2
      <4> QED BY <1>1, <1>3, <1>4, <1>6, <3>1, <3>2, <4>1 DEF HideOr
    <3>3. CASE e # l
      <4>1. e \in MergedByUser \/ HideOr(i, e, graph.hidden[e], HidesOf(e))
        BY <3>1 DEF HideInv, HidesNow
      <4> QED BY <1>1, <1>3, <1>4, <3>1, <3>3, <4>1 DEF HideOr
    <3> QED BY <3>2, <3>3
  <2> QED BY <2>1, <2>2 DEF HidesNow
<1>10. HidesPrior'
  <2>1. ASSUME NEW e \in Ent, NEW m \in HidesOf(e)', ledger'[m].snap.was > 0
        PROVE  HideOf(e, ledger[m].snap.was)' /\ ledger'[m].snap.was < ledger'[m].order
    BY <1>1, <2>1 DEF HideInv, HidesPrior, HideOf
  <2>2. ASSUME NEW e \in Ent, NEW i \in HidesOf(e)', NEW m \in HidesOf(e)',
               ledger'[i].order < ledger'[m].order
        PROVE  HideOr(i, e, ledger[m].snap.was, HidesBefore(e, m))'
    <3>1. i \in HidesOf(e) /\ m \in HidesOf(e) /\ ledger'[i] = ledger[i] /\ ledger'[m] = ledger[m]
      BY <1>1, <2>2
    <3>2. HideOr(i, e, ledger[m].snap.was, HidesBefore(e, m))
      BY <2>2, <3>1 DEF HideInv, HidesPrior
    <3>3. \A j \in HidesBefore(e, m) : j \in HidesBefore(e, m)' /\ ledger'[j] = ledger[j]
      BY <1>1, <1>6, <1>7, <3>1
    <3> QED BY <1>4, <3>1, <3>2, <3>3 DEF HideOr
  <2> QED BY <2>1, <2>2 DEF HidesPrior
<1>11. HidesMerged'
  <2>1. ASSUME NEW k \in What("merge")', NEW a, a = ledger'[k].snap.loser
        PROVE  /\ ledger'[k].snap.hidden > 0 =>
                    HideOf(a, ledger[k].snap.hidden)' /\ ledger'[k].snap.hidden < ledger'[k].order
               /\ \A i \in HidesOf(a)' :
                    ledger'[i].order < ledger'[k].order /\ HideOr(i, a, ledger[k].snap.hidden, HidesBefore(a, k))'
    <3>1. k \in What("merge") \ {n} /\ ledger'[k] = ledger[k]
      BY <1>1, <2>1
    <3>2. /\ ledger[k].snap.hidden > 0 =>
               HideOf(a, ledger[k].snap.hidden) /\ ledger[k].snap.hidden < ledger[k].order
          /\ \A i \in HidesOf(a) :
               ledger[i].order < ledger[k].order /\ HideOr(i, a, ledger[k].snap.hidden, HidesBefore(a, k))
      BY <2>1, <3>1 DEF HideInv, HidesMerged
    <3>3. \A j \in HidesBefore(a, k) : j \in HidesBefore(a, k)' /\ ledger'[j] = ledger[j]
      BY <1>1, <1>6, <1>8, <3>1
    <3>4. HideOf(a, ledger[k].snap.hidden) => HideOf(a, ledger[k].snap.hidden)'
      BY <1>1, <3>1 DEF HideOf
    <3>5. \A i \in HidesOf(a)' : i \in HidesOf(a) /\ ledger'[i] = ledger[i]
      BY <1>1
    <3> QED BY <1>4, <3>1, <3>2, <3>3, <3>4, <3>5 DEF HideOr
  <2> QED BY <2>1 DEF HidesMerged
<1> QED BY <1>9, <1>10, <1>11 DEF HideInv

(* Where no hide is made or undone, only what hides the entities now matters. *)
LEMMA HideKept ==
  ASSUME HideInv, SameHides, userEdited \subseteq userEdited', raced \subseteq raced', HidesNow'
  PROVE  HideInv'
<1>1. \A e, c : TakenBack(e, c) => TakenBack(e, c)'
  BY TakenStays
<1>2. /\ What("merge")' = What("merge") /\ \A k \in What("merge") : ledger'[k] = ledger[k]
      /\ \A e : HidesOf(e)' = HidesOf(e) /\ \A n \in HidesOf(e) : ledger'[n] = ledger[n]
  BY DEF SameHides, SameMerges
<1>3. \A e, m : HidesBefore(e, m) \subseteq HidesOf(e)
  BY DEF HidesBefore
<1>4. /\ \A e : \A m \in HidesOf(e) : HidesBefore(e, m)' = HidesBefore(e, m)
      /\ \A e : \A m \in What("merge") : HidesBefore(e, m)' = HidesBefore(e, m)
  BY <1>2 DEF HidesBefore
<1>5. HidesPrior'
  <2>1. ASSUME NEW e \in Ent, NEW m \in HidesOf(e)', ledger'[m].snap.was > 0
        PROVE  HideOf(e, ledger[m].snap.was)' /\ ledger'[m].snap.was < ledger'[m].order
    BY <1>2, <2>1 DEF HideInv, HidesPrior, HideOf
  <2>2. ASSUME NEW e \in Ent, NEW i \in HidesOf(e)', NEW m \in HidesOf(e)',
               ledger'[i].order < ledger'[m].order
        PROVE  HideOr(i, e, ledger[m].snap.was, HidesBefore(e, m))'
    <3>1. i \in HidesOf(e) /\ m \in HidesOf(e) /\ ledger'[i] = ledger[i] /\ ledger'[m] = ledger[m]
      BY <1>2, <2>2
    <3>2. HideOr(i, e, ledger[m].snap.was, HidesBefore(e, m))
      BY <2>2, <3>1 DEF HideInv, HidesPrior
    <3>3. \A j \in HidesBefore(e, m) : j \in HidesBefore(e, m)' /\ ledger'[j] = ledger[j]
      BY <1>2, <1>3, <1>4, <3>1
    <3> QED BY <1>1, <3>1, <3>2, <3>3 DEF HideOr
  <2> QED BY <2>1, <2>2 DEF HidesPrior
<1>6. HidesMerged'
  <2>1. ASSUME NEW k \in What("merge")', NEW a, a = ledger'[k].snap.loser
        PROVE  /\ ledger'[k].snap.hidden > 0 =>
                    HideOf(a, ledger[k].snap.hidden)' /\ ledger'[k].snap.hidden < ledger'[k].order
               /\ \A i \in HidesOf(a)' :
                    ledger'[i].order < ledger'[k].order /\ HideOr(i, a, ledger[k].snap.hidden, HidesBefore(a, k))'
    <3>1. k \in What("merge") /\ ledger'[k] = ledger[k]
      BY <1>2, <2>1
    <3>2. /\ ledger[k].snap.hidden > 0 =>
               HideOf(a, ledger[k].snap.hidden) /\ ledger[k].snap.hidden < ledger[k].order
          /\ \A i \in HidesOf(a) :
               ledger[i].order < ledger[k].order /\ HideOr(i, a, ledger[k].snap.hidden, HidesBefore(a, k))
      BY <2>1, <3>1 DEF HideInv, HidesMerged
    <3>3. \A j \in HidesBefore(a, k) : j \in HidesBefore(a, k)' /\ ledger'[j] = ledger[j]
      BY <1>2, <1>3, <1>4, <3>1
    <3>4. HideOf(a, ledger[k].snap.hidden) => HideOf(a, ledger[k].snap.hidden)'
      BY <1>2, <3>1 DEF HideOf
    <3>5. \A i \in HidesOf(a)' : i \in HidesOf(a) /\ ledger'[i] = ledger[i]
      BY <1>2
    <3> QED BY <1>1, <3>1, <3>2, <3>3, <3>4, <3>5 DEF HideOr
  <2> QED BY <2>1 DEF HidesMerged
<1> QED BY <1>5, <1>6 DEF HideInv

(* Hides after any other step: the user hides in the UI, or a merge takes a hide. *)
LEMMA HideStill ==
  ASSUME BaseInv, HideInv, SameHides, userEdited \subseteq userEdited', raced \subseteq raced',
         \/ graph'.hidden = graph.hidden
         \/ \E e : EditsHide(e)
         \/ \E l, w : MergesPair(l, w)
  PROVE  HideInv'
<1>1. \A e, c : TakenBack(e, c) => TakenBack(e, c)'
  BY TakenStays
<1>2. /\ MergedByUser' = MergedByUser
      /\ \A e : HidesOf(e)' = HidesOf(e) /\ \A n \in HidesOf(e) : ledger'[n] = ledger[n]
  BY DEF SameHides, SameMerges
<1>3. graph.ents \subseteq Ent /\ graph.hidden \in [Ent -> Int]
  BY DEF BaseInv, WellFormed
<1>4. \A e : \A n \in HidesOf(e) : ledger[n].order \in Nat /\ 0 < ledger[n].order
  BY Bases
<1>5. \A e : \A order : HideOf(e, order)' = HideOf(e, order)
  BY <1>2 DEF HideOf
<1>6. \A e \in Ent :
        /\ graph.hidden[e] > 0 => HideOf(e, graph.hidden[e])
        /\ \A n \in HidesOf(e) : e \in MergedByUser \/ HideOr(n, e, graph.hidden[e], HidesOf(e))
  BY DEF HideInv, HidesNow
<1> SUFFICES ASSUME NEW e \in Ent
             PROVE  /\ graph'.hidden[e] > 0 => HideOf(e, graph'.hidden[e])
                    /\ \A n \in HidesOf(e) : \/ e \in MergedByUser \/ TakenBack(e, "hidden")'
                                             \/ HideOr(n, e, graph'.hidden[e], HidesOf(e))
  <2>1. ASSUME NEW e \in Ent, graph'.hidden[e] > 0, HideOf(e, graph'.hidden[e])
        PROVE  HideOf(e, graph.hidden[e])'
    BY <1>2, <2>1 DEF HideOf
  <2>2. ASSUME NEW e \in Ent, NEW n \in HidesOf(e)', e \notin MergedByUser',
               TakenBack(e, "hidden")' \/ HideOr(n, e, graph'.hidden[e], HidesOf(e))
        PROVE  HideOr(n, e, graph.hidden[e], HidesOf(e))'
    BY <1>1, <1>2, <2>2 DEF HideOr
  <2>3. HidesNow'
    BY <1>2, <2>1, <2>2 DEF HidesNow
  <2> QED BY <2>3, HideKept
<1>7. CASE graph'.hidden[e] = graph.hidden[e]
  BY <1>6, <1>7
<1>8. ASSUME NEW a, EditsHide(a), e = a
      PROVE  ~(graph'.hidden[e] > 0) /\ TakenBack(e, "hidden")'
  <2>1. <<a, "hidden">> \in userEdited' /\ graph'.hidden = [graph.hidden EXCEPT ![a] = OnGraph]
    BY <1>8 DEF EditsHide
  <2>2. graph'.hidden[e] = -1
    BY <1>3, <1>8, <2>1 DEF OnGraph
  <2> QED BY <1>8, <2>1, <2>2 DEF TakenBack
<1>9. ASSUME NEW a, EditsHide(a), e # a
      PROVE  graph'.hidden[e] = graph.hidden[e]
  BY <1>3, <1>9 DEF EditsHide
<1>10. ASSUME NEW l, NEW w, MergesPair(l, w), e = l
       PROVE  /\ ~(graph'.hidden[e] > 0)
              /\ TakenBack(e, "hidden")' \/ graph.hidden[e] <= 0
  <2>1. /\ graph'.hidden = [graph.hidden EXCEPT ![l] = 0]
        /\ \/ l \in raced' \/ <<l, "hidden">> \in userEdited'
           \/ graph.hidden[l] <= 0
    BY <1>10 DEF MergesPair
  <2>2. graph'.hidden[e] = 0
    BY <1>3, <1>10, <2>1
  <2> QED BY <1>10, <2>1, <2>2 DEF TakenBack
<1>11. ASSUME NEW l, NEW w, MergesPair(l, w), e # l
       PROVE  graph'.hidden[e] = graph.hidden[e]
  BY <1>3, <1>11 DEF MergesPair
<1>12. ASSUME graph.hidden[e] <= 0, NEW n \in HidesOf(e)
       PROVE  e \in MergedByUser \/ HideOr(n, e, graph'.hidden[e], HidesOf(e))
  <2>1. graph.hidden[e] # ledger[n].order
    BY <1>3, <1>4, <1>12
  <2> QED BY <1>6, <1>12, <2>1 DEF HideOr
<1>13. CASE graph'.hidden = graph.hidden
  BY <1>7, <1>13
<1>14. CASE \E a : EditsHide(a)
  BY <1>7, <1>8, <1>9, <1>14
<1>15. ASSUME NEW l, NEW w, MergesPair(l, w)
       PROVE  /\ graph'.hidden[e] > 0 => HideOf(e, graph'.hidden[e])
              /\ \A n \in HidesOf(e) : \/ e \in MergedByUser \/ TakenBack(e, "hidden")'
                                       \/ HideOr(n, e, graph'.hidden[e], HidesOf(e))
  BY <1>7, <1>10, <1>11, <1>12, <1>15
<1> QED BY <1>13, <1>14, <1>15

-----------------------------------------------------------------------------
(* The invariant and the theorem. *)

(* The inductive invariant. *)
CorrInv == BaseInv /\ MergedOnce /\ LockInv /\ FieldInv /\ HideInv

(* Every step keeps the part about locks ... *)
LEMMA LockKept ==
  ASSUME BaseInv, MergedOnce, LockInv, Effect
  PROVE  LockInv'
<1>1. CASE Idle
  <2>1. SameFields /\ graph'.locked = graph.locked /\ UNCHANGED <<userEdited, raced>>
    BY <1>1, StillSame DEF Idle, SettingsKept
  <2> QED BY <2>1, LockStill
<1>2. ASSUME NEW x, NEW s, NEW p \in Request, AddsField(x, p, s) \/ AddsHide(x, p, s) \/ AddsMerge(x, p, s)
      PROVE  LockInv'
  <2>1. CASE AddsHide(x, p, s)
    <3>1. Adds(x, p, s) /\ p.op = "hide" /\ graph'.locked = graph.locked /\ UNCHANGED <<userEdited, raced>>
      BY <2>1 DEF AddsHide
    <3>2. SameFields
      BY <3>1, AddedSame
    <3> QED BY <3>1, <3>2, LockStill
  <2> QED BY <1>2, <2>1, LockAdded, LockMerged
<1>3. ASSUME NEW n \in Standing, DropsField(n) \/ DropsHide(n) \/ DropsMerge(n)
      PROVE  LockInv'
  <2>1. CASE DropsHide(n)
    <3>1. Removes(n) /\ ledger[n].what.op = "hide" /\ graph'.locked = graph.locked /\ UNCHANGED <<userEdited, raced>>
      BY <2>1 DEF DropsHide
    <3>2. SameFields
      BY <3>1, RemovedSame
    <3> QED BY <3>1, <3>2, LockStill
  <2> QED BY <1>3, <2>1, LockDropped, LockUnmerged
<1>4. ASSUME NEW e, NEW v, WritesField(e, v) \/ EditsField(e, v) \/ EditsHide(e)
      PROVE  LockInv'
  <2>1. /\ Leaves /\ graph'.locked = graph.locked
        /\ userEdited \subseteq userEdited' /\ raced \subseteq raced'
    BY <1>4 DEF WritesField, EditsField, EditsHide
  <2> QED BY <2>1, StillSame, LockStill
<1>5. ASSUME NEW l, NEW w, MergesPair(l, w)
      PROVE  LockInv'
  <2>1. Leaves /\ userEdited \subseteq userEdited' /\ raced \subseteq raced'
    BY <1>5 DEF MergesPair
  <2> QED BY <1>5, <2>1, StillSame, LockStill
<1> QED BY <1>1, <1>2, <1>3, <1>4, <1>5 DEF Effect

(* ... the part about values ... *)
LEMMA FieldsKept ==
  ASSUME BaseInv, MergedOnce, LockInv, FieldInv, Effect
  PROVE  FieldInv'
<1>1. CASE Idle
  <2>1. SameFields /\ graph'.org = graph.org /\ UNCHANGED <<userEdited, raced>>
    BY <1>1, StillSame DEF Idle, SettingsKept
  <2> QED BY <2>1, FieldStill
<1>2. ASSUME NEW x, NEW s, NEW p \in Request, AddsField(x, p, s) \/ AddsHide(x, p, s) \/ AddsMerge(x, p, s)
      PROVE  FieldInv'
  <2>1. CASE AddsHide(x, p, s)
    <3>1. Adds(x, p, s) /\ p.op = "hide" /\ graph'.org = graph.org /\ UNCHANGED <<userEdited, raced>>
      BY <2>1 DEF AddsHide
    <3>2. SameFields
      BY <3>1, AddedSame
    <3> QED BY <3>1, <3>2, FieldStill
  <2> QED BY <1>2, <2>1, FieldAdded, FieldMerged
<1>3. ASSUME NEW n \in Standing, DropsField(n) \/ DropsHide(n) \/ DropsMerge(n)
      PROVE  FieldInv'
  <2>1. CASE DropsHide(n)
    <3>1. Removes(n) /\ ledger[n].what.op = "hide" /\ graph'.org = graph.org /\ UNCHANGED <<userEdited, raced>>
      BY <2>1 DEF DropsHide
    <3>2. SameFields
      BY <3>1, RemovedSame
    <3> QED BY <3>1, <3>2, FieldStill
  <2> QED BY <1>3, <2>1, FieldDropped, FieldUnmerged
<1>4. ASSUME NEW e, NEW v, WritesField(e, v) \/ EditsField(e, v)
      PROVE  FieldInv'
  <2>1. Leaves /\ userEdited \subseteq userEdited' /\ raced \subseteq raced'
    BY <1>4 DEF WritesField, EditsField
  <2> QED BY <1>4, <2>1, StillSame, FieldStill
<1>5. ASSUME NEW e, EditsHide(e)
      PROVE  FieldInv'
  <2>1. /\ Leaves /\ graph'.org = graph.org
        /\ userEdited \subseteq userEdited' /\ raced \subseteq raced'
    BY <1>5 DEF EditsHide
  <2> QED BY <2>1, StillSame, FieldStill
<1>6. ASSUME NEW l, NEW w, MergesPair(l, w)
      PROVE  FieldInv'
  <2>1. Leaves /\ userEdited \subseteq userEdited' /\ raced \subseteq raced'
    BY <1>6 DEF MergesPair
  <2> QED BY <1>6, <2>1, StillSame, FieldStill
<1> QED BY <1>1, <1>2, <1>3, <1>4, <1>5, <1>6 DEF Effect

(* ... and the part about hides. *)
LEMMA HidesKept ==
  ASSUME BaseInv, MergedOnce, HideInv, Effect
  PROVE  HideInv'
<1>1. CASE Idle
  <2>1. SameHides /\ graph'.hidden = graph.hidden /\ UNCHANGED <<userEdited, raced>>
    BY <1>1, StillSame DEF Idle, SettingsKept
  <2> QED BY <2>1, HideStill
<1>2. ASSUME NEW x, NEW s, NEW p \in Request, AddsField(x, p, s) \/ AddsHide(x, p, s) \/ AddsMerge(x, p, s)
      PROVE  HideInv'
  <2>1. CASE AddsField(x, p, s)
    <3>1. Adds(x, p, s) /\ p.op = "set_field" /\ graph'.hidden = graph.hidden /\ UNCHANGED <<userEdited, raced>>
      BY <2>1 DEF AddsField
    <3>2. SameHides
      BY <3>1, AddedSame
    <3> QED BY <3>1, <3>2, HideStill
  <2> QED BY <1>2, <2>1, HideAdded, HideMerged
<1>3. ASSUME NEW n \in Standing, DropsField(n) \/ DropsHide(n) \/ DropsMerge(n)
      PROVE  HideInv'
  <2>1. CASE DropsField(n)
    <3>1. Removes(n) /\ ledger[n].what.op = "set_field" /\ graph'.hidden = graph.hidden /\ UNCHANGED <<userEdited, raced>>
      BY <2>1 DEF DropsField
    <3>2. SameHides
      BY <3>1, RemovedSame
    <3> QED BY <3>1, <3>2, HideStill
  <2> QED BY <1>3, <2>1, HideDropped, HideUnmerged
<1>4. ASSUME NEW e, NEW v, WritesField(e, v) \/ EditsField(e, v)
      PROVE  HideInv'
  <2>1. /\ Leaves /\ graph'.hidden = graph.hidden
        /\ userEdited \subseteq userEdited' /\ raced \subseteq raced'
    BY <1>4 DEF WritesField, EditsField
  <2> QED BY <2>1, StillSame, HideStill
<1>5. ASSUME NEW e, EditsHide(e)
      PROVE  HideInv'
  <2>1. Leaves /\ userEdited \subseteq userEdited' /\ raced \subseteq raced'
    BY <1>5 DEF EditsHide
  <2> QED BY <1>5, <2>1, StillSame, HideStill
<1>6. ASSUME NEW l, NEW w, MergesPair(l, w)
      PROVE  HideInv'
  <2>1. Leaves /\ userEdited \subseteq userEdited' /\ raced \subseteq raced'
    BY <1>6 DEF MergesPair
  <2> QED BY <1>6, <2>1, StillSame, HideStill
<1> QED BY <1>1, <1>2, <1>3, <1>4, <1>5, <1>6 DEF Effect

(* The inductive invariant holds at the start ... *)
LEMMA CorrStart ==
  ASSUME CorrectionsAssumption, Init
  PROVE  CorrInv
<1>1. graph = Initial /\ DOMAIN ledger = {}
  BY DEF Init
<1>2. /\ \A op : What(op) = {}
      /\ \A e : FieldsOf(e) = {} /\ HidesOf(e) = {}
  BY <1>1 DEF What, Standing, FieldsOf, HidesOf
<1>3. graph.locked = {} /\ \A e \in Ent : graph.hidden[e] \in Int /\ graph.hidden[e] <= 0
  BY <1>1 DEF CorrectionsAssumption, WellFormed
<1>4. MergedOnce
  BY <1>2 DEF MergedOnce
<1>5. LockInv
  BY <1>2, <1>3 DEF LockInv, LocksNow, LocksBefore, LocksMerged
<1>6. FieldInv
  BY <1>2 DEF FieldInv, FieldsNow, FieldsPrior, FieldsMerged
<1>7. HideInv
  BY <1>2, <1>3 DEF HideInv, HidesNow, HidesPrior, HidesMerged
<1> QED BY <1>4, <1>5, <1>6, <1>7, BaseStart DEF CorrInv

(* ... every step keeps it ... *)
LEMMA CorrStep ==
  ASSUME CorrectionsAssumption, CorrInv, [Next]_vars
  PROVE  CorrInv'
<1>1. CASE Next
  BY <1>1, StepEffect, MergedOnceKept, LockKept, FieldsKept, HidesKept DEF CorrInv
<1>2. CASE UNCHANGED vars
  <2>1. UNCHANGED <<graph, ledger, checked, userEdited, raced>>
    BY <1>2 DEF vars
  <2>2. BaseInv'
    <3>1. WellFormed(graph') /\ LedgerShape' /\ ChecksShape'
      BY <2>1 DEF CorrInv, BaseInv, LedgerShape, ChecksShape
    <3>2. Leaves
      BY <2>1 DEF Leaves, Standing
    <3>3. SnapsFit'
      <4>1. graph.next \in Nat
        BY DEF CorrInv, BaseInv, WellFormed
      <4> QED BY <2>1, <3>1, <3>2, <4>1, SameSnaps DEF CorrInv
    <3>4. OrdersTell'
      BY <2>1 DEF CorrInv, BaseInv, OrdersTell, NextOrder, Numbered
    <3> QED BY <3>1, <3>3, <3>4 DEF BaseInv
  <2>3. Effect
    <3>1. Leaves /\ graph.next \in Nat
      BY <2>1 DEF Leaves, Standing, CorrInv, BaseInv, WellFormed
    <3> QED BY <2>1, <3>1, LeavesIdle DEF SettingsKept, Effect
  <2> QED BY <2>2, <2>3, MergedOnceKept, LockKept, FieldsKept, HidesKept DEF CorrInv
<1> QED BY <1>1, <1>2

(* ... and it says that the entities are as corrected. *)
LEMMA CorrTells ==
  ASSUME CorrInv
  PROVE  EntitiesAsCorrected
<1>1. /\ \A n \in What("set_field") : ledger[n].what.e \in Ent /\ n \in FieldsOf(ledger[n].what.e)
      /\ \A n \in What("hide") : ledger[n].what.e \in Ent /\ n \in HidesOf(ledger[n].what.e)
      /\ WellFormed(graph) /\ graph.ents \subseteq Ent
  <2>1. /\ \A n \in What("set_field") : n \in FieldsOf(ledger[n].what.e)
        /\ \A n \in What("hide") : n \in HidesOf(ledger[n].what.e)
    BY DEF FieldsOf, HidesOf
  <2> QED BY <2>1, Bases DEF CorrInv, BaseInv, WellFormed
<1>2. /\ \A e : \A j \in FieldsOf(e) : j \in Standing /\ ledger[j].what.op = "set_field" /\ ledger[j].what.e = e
      /\ \A e : \A j \in HidesOf(e) : j \in Standing /\ ledger[j].what.op = "hide" /\ ledger[j].what.e = e
      /\ \A op : \A n \in What(op) : ledger[n].what.op = op /\ n \in Standing
  BY DEF FieldsOf, HidesOf, What
<1>3. \A n \in Standing : ledger[n].order \in Nat
  BY Bases DEF CorrInv
<1>4. ASSUME NEW n \in What("set_field") PROVE FieldHolds(n)
  <2> DEFINE e == ledger[n].what.e
  <2>1. e \in Ent /\ n \in FieldsOf(e) /\ ledger[n].what.op = "set_field" /\ n \in Standing
    BY <1>1, <1>2
  <2>2. e \in graph.locked \/ e \in MergedByUser \/ TakenBack(e, "org")
    BY <2>1 DEF CorrInv, LockInv, LocksNow
  <2>3. e \in MergedByUser \/ FieldOr(n, e, graph.org[e], FieldsOf(e))
    BY <2>1 DEF CorrInv, FieldInv, FieldsNow
  <2>4. e \in MergedByUser \/ TakenBack(e, "org") => Overridden(n, "org")
    BY DEF Overridden, TakenBack
  <2>5. (\E j \in FieldsOf(e) : ledger[n].order < ledger[j].order) => Overridden(n, "org")
    <3>1. ASSUME NEW j \in FieldsOf(e), ledger[n].order < ledger[j].order PROVE j \in LaterThan(n)
      BY <1>2, <1>3, <2>1, <3>1 DEF LaterThan
    <3> QED BY <1>2, <2>1, <3>1 DEF Overridden
  <2> QED BY <2>2, <2>3, <2>4, <2>5 DEF FieldHolds, FieldOr
<1>5. ASSUME NEW n \in What("hide") PROVE HideHolds(n)
  <2> DEFINE e == ledger[n].what.e
  <2>1. e \in Ent /\ n \in HidesOf(e) /\ ledger[n].what.op = "hide" /\ n \in Standing
    BY <1>1, <1>2
  <2>2. e \in MergedByUser \/ HideOr(n, e, graph.hidden[e], HidesOf(e))
    BY <2>1 DEF CorrInv, HideInv, HidesNow
  <2>3. e \in MergedByUser \/ TakenBack(e, "hidden") => Overridden(n, "hidden")
    BY DEF Overridden, TakenBack
  <2>4. (\E j \in HidesOf(e) : ledger[n].order < ledger[j].order) => Overridden(n, "hidden")
    <3>1. ASSUME NEW j \in HidesOf(e), ledger[n].order < ledger[j].order PROVE j \in LaterThan(n)
      BY <1>2, <1>3, <2>1, <3>1 DEF LaterThan
    <3> QED BY <1>2, <2>1, <3>1 DEF Overridden
  <2> QED BY <2>2, <2>3, <2>4 DEF HideHolds, HideOr
<1>6. MergesHold
  BY DEF MergesHold, MergedByUser, CorrInv, MergedOnce
<1>7. LocksStated
  BY <1>2 DEF LocksStated, CorrInv, LockInv, LocksNow, FieldsOf
<1>8. HidesStated
  <2>1. ASSUME NEW e \in graph.ents, graph.hidden[e] > 0
        PROVE  \E n \in What("hide") : ledger[n].what.e = e /\ ledger[n].order = graph.hidden[e]
    <3>1. HideOf(e, graph.hidden[e])
      BY <1>1, <2>1 DEF CorrInv, HideInv, HidesNow
    <3> QED BY <3>1 DEF HideOf, HidesOf
  <2> QED BY <2>1 DEF HidesStated
<1> QED BY <1>1, <1>4, <1>5, <1>6, <1>7, <1>8 DEF EntitiesAsCorrected, FieldsHold, HidesHold

(* The entities of the graph are as the user's standing corrections say, whatever
   is written, merged and undone in whatever order; and the graph stays well-formed. *)
THEOREM EntitiesStayCorrected == Spec => []EntitiesAsCorrected
<1>1. Init => CorrInv
  BY CorrectionsAssumption, CorrStart
<1>2. CorrInv /\ [Next]_vars => CorrInv'
  BY CorrectionsAssumption, CorrStep
<1>3. CorrInv => EntitiesAsCorrected
  BY CorrTells
<1> QED BY <1>1, <1>2, <1>3, PTL DEF Spec

-----------------------------------------------------------------------------
(* What the writers do to the facts the rows tell. *)

(* A row inserted under the next id, and one replaced by another of its triple. *)
LEMMA RowInserted ==
  ASSUME NEW g, WellFormed(g), NEW r \in Rows, r.t[1] # r.t[3], r.t[1] \in g.ents, r.t[3] \in g.ents,
         r.by = NoRow, \A j \in DOMAIN g.rows : g.rows[j].t # r.t, NEW h, h = WithRow(g, g.next, r)
  PROVE  /\ WellFormed(h) /\ DOMAIN h.rows = DOMAIN g.rows \cup {g.next} /\ g.next \notin DOMAIN g.rows
         /\ h.rows[g.next] = r /\ \A j \in DOMAIN g.rows : h.rows[j] = g.rows[j]
<1>1. g.next \in Nat /\ g.next \notin DOMAIN g.rows
  BY DEF WellFormed
<1>2. /\ WellFormed(h) /\ OnlyRows(g, h) /\ DOMAIN h.rows = DOMAIN g.rows \cup {g.next}
      /\ h.rows[g.next] = r /\ \A j \in DOMAIN g.rows \ {g.next} : h.rows[j] = g.rows[j]
  BY <1>1, RowWritten
<1> QED BY <1>1, <1>2

(* One of the rows replaced by another of its triple. *)
LEMMA RowReplaced ==
  ASSUME NEW g, WellFormed(g), NEW i \in DOMAIN g.rows, NEW r \in Rows, r.t = g.rows[i].t,
         r.by \in {NoRow} \cup DOMAIN g.rows, NEW h, h = WithRow(g, i, r)
  PROVE  /\ WellFormed(h) /\ DOMAIN h.rows = DOMAIN g.rows
         /\ h.rows[i] = r /\ \A j \in DOMAIN g.rows \ {i} : h.rows[j] = g.rows[j]
<1>1. /\ r.t[1] # r.t[3] /\ r.t[1] \in g.ents /\ r.t[3] \in g.ents
  BY TripleParts
<1>2. \A j \in DOMAIN g.rows \ {i} : g.rows[j].t # r.t
  BY DEF WellFormed
<1>3. /\ WellFormed(h) /\ OnlyRows(g, h) /\ DOMAIN h.rows = DOMAIN g.rows \cup {i}
      /\ h.rows[i] = r /\ \A j \in DOMAIN g.rows \ {i} : h.rows[j] = g.rows[j]
  BY <1>1, <1>2, RowWritten
<1> QED BY <1>3

(* A row still tells what it told: the same triple and verdict, with a rejected one
   as ended and an asserted one, that no other may supersede, as current as it was. *)
SameFact(r, q) ==
  /\ q.t = r.t /\ q.verdict = r.verdict
  /\ r.verdict = "rejected" /\ r.ended => q.ended
  /\ r.verdict = "asserted" /\ r.t[2] \in Accumulating /\ ~r.ended => ~q.ended
RowsStay(g, h) ==
  /\ \A i \in DOMAIN g.rows : i \in DOMAIN h.rows /\ SameFact(g.rows[i], h.rows[i])
  /\ \A i \in DOMAIN h.rows \ DOMAIN g.rows : i = g.next /\ h.rows[i].verdict = ""

(* Facts stay from graph to graph. *)
LEMMA FactsTrans ==
  ASSUME NEW r, NEW q, NEW u, SameFact(r, q), SameFact(q, u)
  PROVE  SameFact(r, u)
BY DEF SameFact

(* A competition writes no triple and no verdict, and of the other relations
   nothing; and it ends rows but revives none. *)
LEMMA CompetedFacts ==
  ASSUME NEW g, WellFormed(g), NEW t, NEW id \in DOMAIN g.rows, g.rows[id].t = t
  PROVE  LET h == Competed(g, t, id)
         IN /\ DOMAIN h.rows = DOMAIN g.rows
            /\ \A i \in DOMAIN g.rows : SameFact(g.rows[i], h.rows[i])
            /\ t[2] \in Accumulating => h = g
<1> DEFINE h == Competed(g, t, id)
           top == Newest(g, t)
<1>1. OfParts(g) /\ \A i \in DOMAIN g.rows : g.rows[i] \in Rows
  BY GraphParts DEF GoodRows
<1>2. t[2] \in Accumulating => t[2] \notin Singletons
  BY GraphAssumption
<1>3. CASE t[2] \notin Singletons
  <2>1. h = g
    BY <1>3 DEF Competed
  <2> QED BY <2>1 DEF SameFact
<1>4. CASE t[2] \in Singletons /\ top # NoRow /\ g.rows[id].from < g.rows[top].from
  <2> DEFINE R == [g.rows EXCEPT ![id] = [[@ EXCEPT !.ended = TRUE] EXCEPT !.by = top]]
  <2>1. h = [g EXCEPT !.rows = R]
    BY <1>1, <1>4 DEF Competed, OfParts
  <2>2. HasRows(h, g, R, g.next)
    <3> HIDE DEF R, h
    <3> QED BY <1>1, <2>1, SetRows, Zenon
  <2>3. R[id] = [[g.rows[id] EXCEPT !.ended = TRUE] EXCEPT !.by = top]
    OBVIOUS
  <2>4. DOMAIN R = DOMAIN g.rows /\ \A i \in DOMAIN g.rows \ {id} : R[i] = g.rows[i]
    OBVIOUS
  <2> HIDE DEF R, h, top
  <2>5. R[id].t = t /\ R[id].verdict = g.rows[id].verdict /\ R[id].ended
    BY <1>1, <2>3 DEF Rows
  <2>6. SameFact(g.rows[id], R[id])
    BY <1>2, <1>4, <2>5 DEF SameFact
  <2>7. \A i \in DOMAIN g.rows : SameFact(g.rows[i], R[i])
    BY <2>4, <2>6 DEF SameFact
  <2> QED BY <1>2, <1>4, <2>2, <2>4, <2>7 DEF HasRows, h
<1>5. CASE t[2] \in Singletons /\ ~(top # NoRow /\ g.rows[id].from < g.rows[top].from)
  <2> DEFINE R == [i \in DOMAIN g.rows |->
             IF i \in Rivals(g, t) THEN [g.rows[i] EXCEPT !.ended = TRUE, !.by = id] ELSE g.rows[i]]
  <2>1. h = [g EXCEPT !.rows = R]
    BY <1>5 DEF Competed
  <2>2. HasRows(h, g, R, g.next)
    <3> HIDE DEF R, h
    <3> QED BY <1>1, <2>1, SetRows, Zenon
  <2>3. ASSUME NEW i \in DOMAIN g.rows PROVE SameFact(g.rows[i], R[i])
    <3>1. CASE i \in Rivals(g, t)
      <4>1. R[i] = [g.rows[i] EXCEPT !.ended = TRUE, !.by = id]
        BY <3>1
      <4> HIDE DEF R
      <4>2. R[i].t = g.rows[i].t /\ R[i].verdict = g.rows[i].verdict /\ R[i].ended
        BY <1>1, <4>1 DEF Rows
      <4>3. g.rows[i].t[2] \notin Accumulating
        BY <1>2, <1>5, <3>1 DEF Rivals
      <4> QED BY <4>2, <4>3 DEF SameFact
    <3>2. CASE i \notin Rivals(g, t)
      BY <3>2 DEF SameFact
    <3> QED BY <3>1, <3>2
  <2>4. DOMAIN R = DOMAIN g.rows
    OBVIOUS
  <2> HIDE DEF R, h
  <2> QED BY <1>2, <1>5, <2>2, <2>3, <2>4 DEF HasRows, h
<1> QED BY <1>3, <1>4, <1>5

(* A sighting changes no fact but what it adds, and a triple that no other may
   supersede and the user has not rejected is current after it. *)
LEMMA UpsertFacts ==
  ASSUME NEW g, WellFormed(g), NEW t \in Relations, NEW from \in Nat, t[1] \in g.ents, t[3] \in g.ents
  PROVE  LET h == Upserted(g, t, from)
             id == IdOf(g, t)
             new == IF id = NoRow THEN g.next ELSE id
         IN /\ RowsStay(g, h) /\ DOMAIN h.rows = DOMAIN g.rows \cup {new}
            /\ h.rows[new].t = t
            /\ t[2] \in Accumulating /\ (id # NoRow => g.rows[id].verdict # "rejected") =>
                 ~h.rows[new].ended
<1> DEFINE id == IdOf(g, t)
           old == g.rows[id]
           fresh == [t |-> t, from |-> from, ended |-> FALSE, verdict |-> "",
                     by |-> NoRow, derived |-> FALSE]
           h == Upserted(g, t, from)
<1>1. /\ t \in Ent \X (Singletons \cup Accumulating) \X Ent /\ t[1] # t[3]
      /\ g.next \in Nat /\ g.next \notin DOMAIN g.rows
  BY DEF Relations, WellFormed
<1>2. fresh \in Rows /\ fresh.t = t /\ fresh.by = NoRow
  BY <1>1 DEF Rows, NoRow
<1>3. ~fresh.ended /\ fresh.verdict = ""
  OBVIOUS
<1>4. id # NoRow => /\ id \in DOMAIN g.rows /\ old \in Rows /\ old.t = t
                    /\ old.by \in {NoRow} \cup DOMAIN g.rows
  BY RowOfTriple, GraphParts DEF GoodRows
<1>5. \A j \in DOMAIN g.rows : g.rows[j].t = t => j = id
  BY RowOfTriple
<1>6. CASE id = NoRow
  <2>1. \A j \in DOMAIN g.rows : g.rows[j].t # t
    BY <1>6, RowOfTriple
  <2> DEFINE f == WithRow(g, g.next, fresh)
  <2>2. h = Competed(f, t, g.next)
    BY <1>6 DEF Upserted
  <2>3. f = WithRow(g, g.next, fresh)
    OBVIOUS
  <2> HIDE DEF f, h, fresh
  <2>4. /\ WellFormed(f) /\ DOMAIN f.rows = DOMAIN g.rows \cup {g.next} /\ g.next \notin DOMAIN g.rows
        /\ f.rows[g.next] = fresh /\ \A j \in DOMAIN g.rows : f.rows[j] = g.rows[j]
    BY <1>1, <1>2, <2>1, <2>3, RowInserted
  <2>5. /\ DOMAIN h.rows = DOMAIN f.rows
        /\ \A i \in DOMAIN f.rows : SameFact(f.rows[i], h.rows[i])
        /\ t[2] \in Accumulating => h = f
    BY <1>2, <2>2, <2>4, CompetedFacts
  <2>6. \A i \in DOMAIN g.rows : i \in DOMAIN h.rows /\ SameFact(g.rows[i], h.rows[i])
    BY <1>1, <2>4, <2>5
  <2>7. h.rows[g.next].t = t /\ h.rows[g.next].verdict = ""
    BY <1>2, <1>3, <2>4, <2>5 DEF SameFact
  <2>8. t[2] \in Accumulating => ~h.rows[g.next].ended
    BY <1>3, <2>4, <2>5
  <2> QED BY <1>6, <1>3, <2>4, <2>5, <2>6, <2>7, <2>8 DEF RowsStay, h
<1>7. CASE id # NoRow /\ ~old.ended
  <2> DEFINE r == [old EXCEPT !.derived = FALSE]
  <2>1. h = WithRow(g, id, r)
    BY <1>7 DEF Upserted
  <2>2. /\ r \in Rows /\ r.t = t /\ r.by = old.by /\ r.ended = old.ended /\ r.verdict = old.verdict
    BY <1>4, <1>7 DEF Rows
  <2> HIDE DEF r, h
  <2>3. DOMAIN h.rows = DOMAIN g.rows /\ h.rows[id] = r /\ \A j \in DOMAIN g.rows \ {id} : h.rows[j] = g.rows[j]
    BY <1>4, <1>7, <2>1, <2>2, RowReplaced
  <2>4. \A i \in DOMAIN g.rows : SameFact(g.rows[i], h.rows[i])
    BY <1>4, <1>7, <2>2, <2>3 DEF SameFact
  <2> QED BY <1>4, <1>7, <2>2, <2>3, <2>4 DEF RowsStay, h
<1>8. CASE id # NoRow /\ old.ended /\ old.verdict = "rejected"
  <2>1. h = g
    BY <1>8 DEF Upserted
  <2> QED BY <1>4, <1>8, <2>1 DEF RowsStay, SameFact
<1>9. CASE id # NoRow /\ old.ended /\ old.verdict # "rejected"
  <2> DEFINE r == [fresh EXCEPT !.verdict = old.verdict]
             f == WithRow(g, id, r)
  <2>1. h = Competed(f, t, id)
    BY <1>9 DEF Upserted
  <2>2. old.verdict \in {"", "asserted", "rejected"}
    BY <1>4, <1>9, ARow
  <2>3. r \in Rows /\ r.t = t /\ r.by = NoRow /\ ~r.ended /\ r.verdict = old.verdict
    BY <1>1, <2>2 DEF Rows, NoRow
  <2> HIDE DEF r
  <2>4. /\ WellFormed(f) /\ DOMAIN f.rows = DOMAIN g.rows
        /\ f.rows[id] = r /\ \A j \in DOMAIN g.rows \ {id} : f.rows[j] = g.rows[j]
    BY <1>1, <1>4, <1>9, <2>3, RowReplaced
  <2> HIDE DEF f, h
  <2>5. /\ DOMAIN h.rows = DOMAIN f.rows
        /\ \A i \in DOMAIN f.rows : SameFact(f.rows[i], h.rows[i])
        /\ t[2] \in Accumulating => h = f
    BY <1>4, <1>9, <2>1, <2>3, <2>4, CompetedFacts
  <2>6. SameFact(old, r)
    BY <1>4, <1>9, <2>3 DEF SameFact
  <2>7. \A i \in DOMAIN g.rows : SameFact(g.rows[i], f.rows[i])
    BY <2>4, <2>6 DEF SameFact
  <2>8. \A i \in DOMAIN g.rows : SameFact(g.rows[i], h.rows[i])
    BY <2>4, <2>5, <2>7, FactsTrans
  <2>9. h.rows[id].t = t
    BY <1>4, <1>9, <2>8 DEF SameFact
  <2>10. t[2] \in Accumulating => ~h.rows[id].ended
    BY <1>3, <2>3, <2>4, <2>5
  <2> QED BY <1>4, <1>9, <2>4, <2>5, <2>8, <2>9, <2>10 DEF RowsStay, h
<1> QED BY <1>6, <1>7, <1>8, <1>9

(* Nor does derived content. *)
LEMMA DerivedFacts ==
  ASSUME NEW g, WellFormed(g), NEW t \in Relations, NEW from \in Nat, t[1] \in g.ents, t[3] \in g.ents
  PROVE  RowsStay(g, Derived(g, t, from))
<1> DEFINE r == [t |-> t, from |-> from, ended |-> FALSE, verdict |-> "", by |-> NoRow, derived |-> TRUE]
           h == Derived(g, t, from)
<1>1. /\ t \in Ent \X (Singletons \cup Accumulating) \X Ent /\ t[1] # t[3]
      /\ g.next \notin DOMAIN g.rows
  BY DEF Relations, WellFormed
<1>2. r \in Rows /\ r.t = t /\ r.by = NoRow
  BY <1>1 DEF Rows, NoRow
<1>3. r.verdict = ""
  OBVIOUS
<1>4. CASE IdOf(g, t) # NoRow
  BY <1>4 DEF Derived, RowsStay, SameFact
<1>5. CASE IdOf(g, t) = NoRow
  <2>1. \A j \in DOMAIN g.rows : g.rows[j].t # t
    BY <1>5, RowOfTriple
  <2>2. h = WithRow(g, g.next, r)
    BY <1>5 DEF Derived
  <2> HIDE DEF r, h
  <2>3. /\ DOMAIN h.rows = DOMAIN g.rows \cup {g.next}
        /\ h.rows[g.next] = r /\ \A j \in DOMAIN g.rows : h.rows[j] = g.rows[j]
    BY <1>1, <1>2, <2>1, <2>2, RowInserted
  <2>4. \A i \in DOMAIN g.rows : i \in DOMAIN h.rows /\ SameFact(g.rows[i], h.rows[i])
    BY <2>3 DEF SameFact
  <2> QED BY <1>3, <2>3, <2>4 DEF RowsStay, h
<1> QED BY <1>4, <1>5

-----------------------------------------------------------------------------
(* The facts of entities outside a set. *)

(* The triple is of none of these entities. *)
Off(t, E) == {t[1], t[3]} \cap E = {}

(* The rows of other entities tell what they told, and a new one tells nothing. *)
KeptOff(g, h, E) ==
  /\ g.next <= h.next
  /\ \A i \in DOMAIN g.rows : Off(g.rows[i].t, E) => i \in DOMAIN h.rows /\ SameFact(g.rows[i], h.rows[i])
  /\ \A i \in DOMAIN h.rows : Off(h.rows[i].t, E) =>
       \/ i \in DOMAIN g.rows /\ g.rows[i].t = h.rows[i].t
       \/ i = g.next /\ h.rows[i].verdict = ""
PairsOff(g, h, E) == \A p : p \cap E = {} => (p \in g.pairs <=> p \in h.pairs)

(* They do where all rows stay, or none changes. *)
LEMMA StayOff ==
  ASSUME NEW g, NEW h, NEW E, g.next <= h.next, RowsStay(g, h)
  PROVE  KeptOff(g, h, E)
BY DEF RowsStay, KeptOff, SameFact

(* They do where no row changes. *)
LEMMA SameOff ==
  ASSUME NEW g, WellFormed(g), NEW h, NEW E, h.rows = g.rows, h.next = g.next
  PROVE  KeptOff(g, h, E)
<1>1. g.next <= h.next
  BY DEF WellFormed
<1> QED BY <1>1 DEF KeptOff, SameFact

(* They do when two entities of the set are merged ... *)
LEMMA MergeOff ==
  ASSUME NEW g, WellFormed(g), NEW l \in g.ents, NEW w \in g.ents, l # w, NEW h, h = Merged(g, l, w),
         NEW E, l \in E, w \in E
  PROVE  KeptOff(g, h, E) /\ PairsOff(g, h, E)
<1>1. g.next \in Nat /\ w \in Ent
  BY DEF WellFormed
<1>2. h.next = g.next /\ h.pairs = MergedPairs(g, l, w)
  <2> DEFINE pairs == MergedPairs(g, l, w)
             org == [[g.org EXCEPT ![w] = MergedOrg(g, l, w)] EXCEPT ![l] = Blank]
             hidden == [g.hidden EXCEPT ![l] = 0]
  <2>1. h = [ents |-> g.ents \ {l}, rows |-> h.rows, next |-> g.next, pairs |-> pairs,
             org |-> org, locked |-> g.locked \ {l}, hidden |-> hidden]
    BY MergedParts
  <2> HIDE DEF pairs, org, hidden
  <2> QED BY <2>1 DEF pairs
<1>3. h.rows = [i \in DOMAIN g.rows \ Dropped(g, l, w) |-> MergedRow(g, l, w, i)]
  BY DEF Merged
<1>4. ASSUME NEW i \in DOMAIN g.rows, Off(g.rows[i].t, E)
      PROVE  i \in DOMAIN h.rows /\ SameFact(g.rows[i], h.rows[i])
  <2>1. i \notin RowsOf(g, l)
    BY <1>4 DEF RowsOf, Off
  <2>2. i \notin Copies(g, l, w)
    <3>1. SUFFICES ASSUME NEW j \in RowsOf(g, l), g.rows[i].t = Moved(l, w, g.rows[j].t)
                   PROVE  FALSE
      BY DEF Copies
    <3>2. j \in DOMAIN g.rows /\ l \in {g.rows[j].t[1], g.rows[j].t[3]}
      BY DEF RowsOf
    <3>3. /\ Moved(l, w, g.rows[j].t)[1] = Sub(l, w, g.rows[j].t[1])
          /\ Moved(l, w, g.rows[j].t)[3] = Sub(l, w, g.rows[j].t[3])
      BY <3>2, MovedTriple
    <3>4. w \in {Moved(l, w, g.rows[j].t)[1], Moved(l, w, g.rows[j].t)[3]}
      BY <3>2, <3>3 DEF Sub
    <3>5. w \in {g.rows[i].t[1], g.rows[i].t[3]}
      BY <3>1, <3>4, Zenon
    <3> QED BY <1>4, <3>5 DEF Off
  <2>3. i \in DOMAIN h.rows /\ h.rows[i] = MergedRow(g, l, w, i)
    BY <1>3, <2>1, DroppedOfLoser
  <2>4. LET n == MergedRow(g, l, w, i)
            r == g.rows[i]
        IN n.t = r.t /\ n.verdict = r.verdict /\ n.ended = r.ended
    BY <1>1, <2>1, <2>2, OtherRowKept
  <2> QED BY <2>3, <2>4 DEF SameFact
<1>5. ASSUME NEW i \in DOMAIN h.rows, Off(h.rows[i].t, E)
      PROVE  i \in DOMAIN g.rows /\ g.rows[i].t = h.rows[i].t
  <2>1. i \in DOMAIN g.rows /\ h.rows[i] = MergedRow(g, l, w, i)
    BY <1>3
  <2>2. h.rows[i].t = Moved(l, w, g.rows[i].t)
    BY <1>1, <2>1, MergedTriple
  <2>3. i \notin RowsOf(g, l)
    <3>1. SUFFICES ASSUME i \in RowsOf(g, l)
                   PROVE  FALSE
      OBVIOUS
    <3>2. w \in {Moved(l, w, g.rows[i].t)[1], Moved(l, w, g.rows[i].t)[3]}
      BY <2>1, <3>1, MovedTriple DEF Sub, RowsOf
    <3> QED BY <1>5, <2>2, <3>2 DEF Off
  <2>4. Moved(l, w, g.rows[i].t) = g.rows[i].t
    BY <2>1, <2>3, MovedTriple
  <2> QED BY <2>1, <2>2, <2>4
<1>6. ASSUME NEW p, p \cap E = {}
      PROVE  p \in g.pairs <=> p \in h.pairs
  <2>1. ASSUME NEW q \in g.pairs
        PROVE  /\ l \notin q => Repointed(l, w, q) = q /\ Cardinality(q) = 2
               /\ l \in q => w \in Repointed(l, w, q)
    <3>1. IsPair(q)
      BY DEF WellFormed, IsPair
    <3> QED BY <3>1, RepointedPair
  <2>2. l \notin p /\ w \notin p
    BY <1>6
  <2> QED BY <1>2, <2>1, <2>2 DEF MergedPairs
<1>7. g.next <= h.next
  BY <1>1, <1>2
<1> QED BY <1>4, <1>5, <1>6, <1>7 DEF KeptOff, PairsOff

(* ... and when a merge of them is undone. *)
LEMMA UnmergeOff ==
  ASSUME NEW g, WellFormed(g), NEW s, MergeSnap(s, g.next), NEW h \in UndoMerge(g, s),
         NEW E, s.loser \in E, s.winner \in E
  PROVE  KeptOff(g, h, E) /\ PairsOff(g, h, E)
<1> DEFINE R == Restored(g, s)
           l == s.loser
           w == s.winner
           pairs == (g.pairs \ AddedPairs(l, w, s.pairs, s.winnerPairs)) \cup s.pairs
<1>1. Unmergeable(g, s) /\ h = Unmerged(g, s)
  BY DEF UndoMerge
<1>2. h.rows = R /\ h.next = g.next /\ h.pairs = pairs
  <2> DEFINE org == [[g.org EXCEPT ![s.winner] = IF @ = s.orgAfter THEN s.winnerOrg ELSE @]
                         EXCEPT ![s.loser] = s.loserOrg]
             locked == IF s.locked THEN g.locked \cup {s.loser} ELSE g.locked
             hidden == [g.hidden EXCEPT ![s.loser] = s.hidden]
  <2>1. g = [ents |-> g.ents, rows |-> g.rows, next |-> g.next, pairs |-> g.pairs,
             org |-> g.org, locked |-> g.locked, hidden |-> g.hidden]
    BY GraphParts DEF OfParts
  <2>2. h = [ents |-> g.ents \cup {s.loser}, rows |-> R, next |-> g.next, pairs |-> pairs,
             org |-> org, locked |-> locked, hidden |-> hidden]
    BY <1>1, <2>1, UnmergedParts, Zenon
  <2> HIDE DEF R, pairs, org, locked, hidden
  <2> QED BY <2>2
<1>3. /\ DOMAIN R = DOMAIN g.rows \cup DOMAIN s.rows
      /\ \A i \in DOMAIN s.rows : R[i].t = s.rows[i].t
      /\ \A i \in DOMAIN R \ DOMAIN s.rows : R[i].t = g.rows[i].t
      /\ \A i \in DOMAIN R \ (DOMAIN s.rows \cup DOMAIN s.copies) :
           R[i].verdict = g.rows[i].verdict /\ R[i].ended = g.rows[i].ended
  BY <1>1, RestoredRows
<1> HIDE DEF R
<1>4. ASSUME NEW i \in DOMAIN g.rows, Off(g.rows[i].t, E)
      PROVE  i \notin DOMAIN s.rows /\ i \notin DOMAIN s.copies
  <2>1. ASSUME i \in DOMAIN s.rows PROVE FALSE
    <3>1. g.rows[i].t = Moved(l, w, s.rows[i].t)
      BY <1>1, <2>1 DEF Unmergeable
    <3>2. l \in {s.rows[i].t[1], s.rows[i].t[3]}
      BY <2>1 DEF MergeSnap
    <3>3. w \in {Moved(l, w, s.rows[i].t)[1], Moved(l, w, s.rows[i].t)[3]}
      BY <3>2 DEF Moved, Sub
    <3> QED BY <1>4, <3>1, <3>3 DEF Off
  <2>2. ASSUME i \in DOMAIN s.copies PROVE FALSE
    <3>1. g.rows[i].t = s.copies[i].t /\ w \in {s.copies[i].t[1], s.copies[i].t[3]}
      BY <1>1, <2>2 DEF Unmergeable, MergeSnap
    <3> QED BY <1>4, <3>1 DEF Off
  <2> QED BY <2>1, <2>2
<1>5. ASSUME NEW i \in DOMAIN g.rows, Off(g.rows[i].t, E)
      PROVE  i \in DOMAIN h.rows /\ SameFact(g.rows[i], h.rows[i])
  BY <1>2, <1>3, <1>4, <1>5 DEF SameFact
<1>6. ASSUME NEW i \in DOMAIN h.rows, Off(h.rows[i].t, E)
      PROVE  i \in DOMAIN g.rows /\ g.rows[i].t = h.rows[i].t
  <2>1. i \notin DOMAIN s.rows
    BY <1>2, <1>3, <1>6 DEF MergeSnap, Off
  <2> QED BY <1>2, <1>3, <2>1
<1>7. ASSUME NEW p, p \cap E = {}
      PROVE  p \in g.pairs <=> p \in h.pairs
  <2>1. l \notin p /\ w \notin p
    BY <1>7
  <2>2. p \notin s.pairs
    BY <2>1 DEF MergeSnap
  <2>3. p \notin AddedPairs(l, w, s.pairs, s.winnerPairs)
    <3>1. SUFFICES ASSUME NEW q \in s.pairs, p = Repointed(l, w, q)
                   PROVE  FALSE
      BY DEF AddedPairs
    <3>2. l \in q
      BY DEF MergeSnap
    <3>3. w \in p
      BY <3>1, <3>2 DEF Repointed, Sub
    <3> QED BY <2>1, <3>3
  <2> QED BY <1>2, <2>2, <2>3
<1>8. g.next <= h.next
  BY <1>2 DEF WellFormed
<1> QED BY <1>5, <1>6, <1>7, <1>8 DEF KeptOff, PairsOff

-----------------------------------------------------------------------------
(* Verdicts on rows. *)

(* A verdict on t is stated on the row under id, found or inserted; what the other
   rows tell stays. *)
VerdictMade(g, h, t, op, id) ==
  /\ g.next <= h.next /\ h.pairs = g.pairs
  /\ DOMAIN h.rows = DOMAIN g.rows \cup {id} /\ h.rows[id].t = t /\ Stated(op, h.rows[id])
  /\ IF id \in DOMAIN g.rows THEN g.rows[id].t = t ELSE id = g.next
  /\ \A i \in DOMAIN g.rows \ {id} : SameFact(g.rows[i], h.rows[i])

(* One row gets another standing. *)
SetRow(g, id, q) == [g EXCEPT !.rows = [g.rows EXCEPT ![id] = q]]

(* Such a graph is well-formed, and no other row changes. *)
LEMMA OneRowGets ==
  ASSUME NEW g, WellFormed(g), NEW id \in DOMAIN g.rows, NEW q \in Rows, q.t = g.rows[id].t,
         q.by \in {NoRow} \cup DOMAIN g.rows, NEW h, h = SetRow(g, id, q)
  PROVE  /\ WellFormed(h) /\ OnlyRows(g, h) /\ DOMAIN h.rows = DOMAIN g.rows
         /\ h.rows[id] = q /\ \A i \in DOMAIN g.rows \ {id} : h.rows[i] = g.rows[i]
<1> DEFINE R == [g.rows EXCEPT ![id] = q]
<1>1. OfParts(g) /\ GoodRows(g.rows, g.ents, g.next)
  BY GraphParts
<1>2. HasRows(h, g, R, g.next)
  <2> HIDE DEF R
  <2> QED BY <1>1, SetRows, Zenon DEF R, SetRow
<1>3. /\ DOMAIN R = DOMAIN g.rows /\ R = [i \in DOMAIN R |-> R[i]]
      /\ R[id] = q /\ \A i \in DOMAIN g.rows \ {id} : R[i] = g.rows[i]
  OBVIOUS
<1> HIDE DEF R
<1>4. \A i \in DOMAIN g.rows : R[i] \in Rows /\ R[i].t = g.rows[i].t /\ R[i].by \in {NoRow} \cup DOMAIN g.rows
  BY <1>1, <1>3 DEF GoodRows
<1>5. R \in [DOMAIN g.rows -> Rows]
  BY <1>3, <1>4
<1>6. WellFormed(h) /\ OnlyRows(g, h)
  BY <1>2, <1>4, <1>5, RowsEdited
<1> QED BY <1>2, <1>3, <1>6 DEF HasRows

(* A rejection does that to the row of its triple. *)
LEMMA RejectFacts ==
  ASSUME NEW g, WellFormed(g), NEW p, NEW done \in ApplyReject(g, p)
  PROVE  /\ VerdictMade(g, done.graph, p.t, "reject", done.snap.id)
         /\ done.snap.id \in DOMAIN g.rows /\ done.snap.was = g.rows[done.snap.id]
<1> DEFINE id == IdOf(g, p.t)
           q == [[g.rows[id] EXCEPT !.ended = TRUE] EXCEPT !.verdict = "rejected"]
           h == SetRow(g, id, q)
<1>1. id # NoRow /\ done = [graph |-> [g EXCEPT !.rows[id].ended = TRUE, !.rows[id].verdict = "rejected"],
                            snap |-> [id |-> id, was |-> g.rows[id]]]
  BY DEF ApplyReject
<1>2. /\ id \in DOMAIN g.rows /\ g.rows[id] \in Rows /\ g.rows[id].by \in {NoRow} \cup DOMAIN g.rows
      /\ g.rows[id].t = p.t
  BY <1>1, RowOfTriple, TripleParts
<1>3. OfParts(g)
  BY GraphParts
<1>4. [g EXCEPT !.rows[id].ended = TRUE, !.rows[id].verdict = "rejected"] = h
  BY <1>2, <1>3 DEF OfParts, SetRow
<1>5. q \in Rows /\ q.t = p.t /\ q.by = g.rows[id].by /\ q.verdict = "rejected" /\ q.ended
  BY <1>2 DEF Rows
<1>6. /\ OnlyRows(g, h) /\ DOMAIN h.rows = DOMAIN g.rows
      /\ h.rows[id] = q /\ \A i \in DOMAIN g.rows \ {id} : h.rows[i] = g.rows[i]
  <2>1. h = SetRow(g, id, q)
    OBVIOUS
  <2> HIDE DEF q, id, h
  <2> QED BY <1>2, <1>5, <2>1, OneRowGets
<1>7. done.graph = h /\ done.snap.was = g.rows[id] /\ done.snap.id = id
  BY <1>1, <1>4, Zenon
<1> HIDE DEF h, q, id
<1>8. Stated("reject", q)
  BY <1>5 DEF Stated
<1>9. \A i \in DOMAIN g.rows \ {id} : SameFact(g.rows[i], h.rows[i])
  BY <1>6 DEF SameFact
<1> QED BY <1>2, <1>5, <1>6, <1>7, <1>8, <1>9 DEF VerdictMade, OnlyRows

(* A rejection is lifted: the row loses its verdict. *)
Lifted(g, id) == [g EXCEPT !.rows[id].verdict = ""]

(* Lifting leaves the other rows, and the triple of this one. *)
LEMMA VerdictLifted ==
  ASSUME NEW g, WellFormed(g), NEW id \in DOMAIN g.rows, NEW h, h = Lifted(g, id)
  PROVE  /\ WellFormed(h) /\ OnlyRows(g, h) /\ DOMAIN h.rows = DOMAIN g.rows
         /\ h.rows[id].t = g.rows[id].t /\ h.rows[id].verdict # "rejected"
         /\ \A i \in DOMAIN g.rows \ {id} : h.rows[i] = g.rows[i]
<1> DEFINE q == [g.rows[id] EXCEPT !.verdict = ""]
<1>1. OfParts(g)
  BY GraphParts
<1>2. h = SetRow(g, id, q)
  BY <1>1 DEF OfParts, SetRow, Lifted
<1>3. g.rows[id] \in Rows /\ g.rows[id].by \in {NoRow} \cup DOMAIN g.rows
  BY TripleParts
<1>4. q \in Rows /\ q.t = g.rows[id].t /\ q.by = g.rows[id].by
  BY <1>3 DEF Rows
<1>5. q.verdict # "rejected"
  BY <1>3, Zenon DEF Rows
<1> HIDE DEF q
<1>6. /\ WellFormed(h) /\ OnlyRows(g, h) /\ DOMAIN h.rows = DOMAIN g.rows
      /\ h.rows[id] = q /\ \A i \in DOMAIN g.rows \ {id} : h.rows[i] = g.rows[i]
  BY <1>2, <1>3, <1>4, OneRowGets
<1> QED BY <1>4, <1>6, <1>5

(* So does an assertion, which revives or inserts it. *)
LEMMA AssertFacts ==
  ASSUME NEW g, WellFormed(g), NEW p, p.op = "assert", p.t \in Ent \X (Singletons \cup Accumulating) \X Ent,
         p.from \in Nat, NEW done \in ApplyAssert(g, p)
  PROVE  LET s == done.snap
         IN /\ VerdictMade(g, done.graph, p.t, "assert", s.id)
            /\ IF s.prior = <<>> THEN s.id \notin DOMAIN g.rows
               ELSE s.id \in DOMAIN g.rows /\ Head(s.prior) = g.rows[s.id]
            /\ \A i \in DOMAIN s.rivals : /\ i \in DOMAIN g.rows /\ s.rivals[i] = g.rows[i]
                                          /\ i # s.id /\ ~g.rows[i].ended
<1> DEFINE prior == IdOf(g, p.t)
           lifted == IF prior # NoRow /\ g.rows[prior].verdict = "rejected"
                     THEN Lifted(g, prior) ELSE g
           up == Upserted(lifted, p.t, p.from)
           id == IdOf(up, p.t)
           retired == {i \in Rivals(g, p.t) : up.rows[i].by = id}
           h == [up EXCEPT !.rows[id].verdict = "asserted", !.rows[id].derived = FALSE]
           seen == IF prior = NoRow THEN <<>> ELSE <<g.rows[prior]>>
           rivals == [i \in retired |-> g.rows[i]]
<1>1. EntitiesOf(p) \subseteq g.ents /\ p.t[1] # p.t[3]
  BY DEF ApplyAssert
<1>2. done = [graph |-> h, snap |-> [id |-> id, prior |-> seen, rivals |-> rivals]]
  BY Zenon DEF ApplyAssert, Lifted
<1>3. p.t \in Relations /\ p.t[1] \in g.ents /\ p.t[3] \in g.ents
  BY <1>1 DEF Relations, EntitiesOf
<1>4. prior # NoRow => /\ prior \in DOMAIN g.rows /\ g.rows[prior] \in Rows /\ g.rows[prior].t = p.t
                       /\ g.rows[prior].by \in {NoRow} \cup DOMAIN g.rows
  BY RowOfTriple, TripleParts
<1>5. \A i \in DOMAIN g.rows : g.rows[i].t = p.t => i = prior /\ prior # NoRow
  BY RowOfTriple
<1>6. /\ WellFormed(lifted) /\ OnlyRows(g, lifted) /\ DOMAIN lifted.rows = DOMAIN g.rows
      /\ \A i \in DOMAIN g.rows \ {prior} : lifted.rows[i] = g.rows[i]
      /\ prior # NoRow => lifted.rows[prior].t = p.t /\ lifted.rows[prior].verdict # "rejected"
      /\ prior = NoRow => lifted = g
  <2>1. CASE prior # NoRow /\ g.rows[prior].verdict = "rejected"
    <3>1. prior \in DOMAIN g.rows /\ lifted = Lifted(g, prior)
      BY <1>4, <2>1
    <3> HIDE DEF prior, lifted
    <3>2. /\ WellFormed(lifted) /\ OnlyRows(g, lifted) /\ DOMAIN lifted.rows = DOMAIN g.rows
          /\ lifted.rows[prior].t = g.rows[prior].t /\ lifted.rows[prior].verdict # "rejected"
          /\ \A i \in DOMAIN g.rows \ {prior} : lifted.rows[i] = g.rows[i]
      BY <3>1, VerdictLifted
    <3> QED BY <1>4, <2>1, <3>2
  <2>2. CASE ~(prior # NoRow /\ g.rows[prior].verdict = "rejected")
    <3>1. lifted = g
      BY <2>2
    <3> QED BY <1>4, <2>2, <3>1, OnlyRowsSame
  <2> QED BY <2>1, <2>2
<1> HIDE DEF lifted
<1>7. lifted.ents = g.ents /\ lifted.pairs = g.pairs /\ g.next <= lifted.next
  BY <1>6 DEF OnlyRows
<1>8. IdOf(lifted, p.t) = prior
  <2>1. CASE prior = NoRow
    BY <1>6, <2>1
  <2>2. CASE prior # NoRow
    BY <1>4, <1>6, <2>2, RowOfTriple
  <2> QED BY <2>1, <2>2
<1> DEFINE new == IF prior = NoRow THEN lifted.next ELSE prior
<1>9. WellFormed(up) /\ OnlyRows(lifted, up)
  BY <1>3, <1>6, <1>7, UpsertKeeps
<1>10. /\ RowsStay(lifted, up) /\ DOMAIN up.rows = DOMAIN lifted.rows \cup {new}
       /\ up.rows[new].t = p.t
       /\ p.t[2] \in Accumulating => ~up.rows[new].ended
  <2> HIDE DEF prior
  <2> QED BY <1>3, <1>6, <1>7, <1>8, UpsertFacts
<1> HIDE DEF up
<1>11. id = new /\ new \in DOMAIN up.rows
  BY <1>9, <1>10, RowOfTriple
<1>12. new \in DOMAIN g.rows => g.rows[new].t = p.t
  <2>1. g.next \notin DOMAIN g.rows
    BY DEF WellFormed
  <2> QED BY <1>4, <1>6, <2>1
<1>13. new \notin DOMAIN g.rows => new = g.next
  BY <1>4, <1>6
<1>14. prior # NoRow <=> new \in DOMAIN g.rows
  <2>1. g.next \notin DOMAIN g.rows
    BY DEF WellFormed
  <2> QED BY <1>4, <1>6, <2>1
<1> HIDE DEF new, id
<1>15. /\ WellFormed(h) /\ OnlyRows(up, h) /\ DOMAIN h.rows = DOMAIN up.rows
       /\ \A i \in DOMAIN up.rows \ {new} : h.rows[i] = up.rows[i]
       /\ h.rows[new].t = p.t /\ h.rows[new].verdict = "asserted" /\ h.rows[new].ended = up.rows[new].ended
  <2> DEFINE q == [[up.rows[id] EXCEPT !.verdict = "asserted"] EXCEPT !.derived = FALSE]
  <2>1. OfParts(up)
    BY <1>9, GraphParts
  <2>2. h = SetRow(up, id, q)
    BY <2>1 DEF OfParts, SetRow
  <2>3. up.rows[id] \in Rows /\ up.rows[id].by \in {NoRow} \cup DOMAIN up.rows
    BY <1>9, <1>11, TripleParts
  <2>4. /\ q \in Rows /\ q.t = up.rows[id].t /\ q.by = up.rows[id].by
        /\ q.verdict = "asserted" /\ q.ended = up.rows[id].ended
    BY <2>3 DEF Rows
  <2> HIDE DEF q, h
  <2>5. /\ WellFormed(h) /\ OnlyRows(up, h) /\ DOMAIN h.rows = DOMAIN up.rows
        /\ h.rows[id] = q /\ \A i \in DOMAIN up.rows \ {id} : h.rows[i] = up.rows[i]
    BY <1>9, <1>11, <2>2, <2>3, <2>4, OneRowGets
  <2> QED BY <1>10, <1>11, <2>4, <2>5
<1> HIDE DEF h
<1>16. Stated("assert", h.rows[new])
  BY <1>10, <1>15 DEF Stated
<1>17. \A i \in DOMAIN g.rows \ {new} : SameFact(g.rows[i], h.rows[i])
  <2>1. SUFFICES ASSUME NEW i \in DOMAIN g.rows, i # new
                 PROVE  SameFact(g.rows[i], h.rows[i])
    OBVIOUS
  <2>2. i # prior
    BY <2>1, TripleParts DEF new
  <2>3. lifted.rows[i] = g.rows[i] /\ i \in DOMAIN lifted.rows
    BY <1>6, <2>2
  <2>4. i \in DOMAIN up.rows /\ SameFact(lifted.rows[i], up.rows[i])
    BY <1>10, <2>3 DEF RowsStay
  <2> QED BY <1>15, <2>1, <2>3, <2>4
<1>18. g.next <= h.next /\ h.pairs = g.pairs
  <2>1. g.next \in Int /\ lifted.next \in Int /\ up.next \in Int /\ h.next \in Int
    BY <1>6, <1>9, <1>15 DEF WellFormed
  <2> QED BY <1>6, <1>9, <1>15, <2>1 DEF OnlyRows
<1>19. DOMAIN h.rows = DOMAIN g.rows \cup {new}
  BY <1>6, <1>10, <1>15
<1>20. VerdictMade(g, h, p.t, "assert", new)
  BY <1>12, <1>13, <1>15, <1>16, <1>17, <1>18, <1>19 DEF VerdictMade
<1>21. IF seen = <<>> THEN new \notin DOMAIN g.rows
       ELSE new \in DOMAIN g.rows /\ Head(seen) = g.rows[new]
  BY <1>14 DEF new
<1>22. \A i \in DOMAIN rivals : i \in DOMAIN g.rows /\ rivals[i] = g.rows[i] /\ i # new /\ ~g.rows[i].ended
  BY <1>12 DEF Rivals
<1> HIDE DEF seen, rivals
<1>23. done.graph = h /\ done.snap.id = new /\ done.snap.prior = seen /\ done.snap.rivals = rivals
  BY <1>2, <1>11
<1> QED BY <1>20, <1>21, <1>22, <1>23

(* A verdict is undone: its row is gone or stands as it was seen, rivals may be
   current again, and all else tells what it told. *)
VerdictUndone(g, h, id, seen, rivals) ==
  /\ h.next = g.next /\ h.pairs = g.pairs
  /\ DOMAIN h.rows = IF seen = <<>> THEN DOMAIN g.rows \ {id} ELSE DOMAIN g.rows
  /\ \A i \in DOMAIN h.rows : h.rows[i].t = g.rows[i].t
  /\ id \in DOMAIN h.rows =>
       h.rows[id].verdict = Head(seen).verdict /\ h.rows[id].ended = Head(seen).ended
  /\ \A i \in DOMAIN h.rows \ {id} :
       /\ h.rows[i].verdict = g.rows[i].verdict
       /\ h.rows[i].ended = g.rows[i].ended \/ (i \in rivals /\ ~h.rows[i].ended)

(* Undoing a rejection undoes its verdict, and no rivals come back. *)
LEMMA RejectUndone ==
  ASSUME NEW g, WellFormed(g), NEW s, s.was \in Rows, NEW h \in UndoReject(g, s)
  PROVE  VerdictUndone(g, h, s.id, <<s.was>>, {})
<1> DEFINE q == [[g.rows[s.id] EXCEPT !.ended = s.was.ended] EXCEPT !.verdict = s.was.verdict]
<1>1. OfParts(g) /\ GoodRows(g.rows, g.ents, g.next)
  BY GraphParts
<1>2. s.id \in DOMAIN g.rows /\ h = [g EXCEPT !.rows[s.id].ended = s.was.ended,
                                              !.rows[s.id].verdict = s.was.verdict]
  BY DEF UndoReject
<1>3. h = SetRow(g, s.id, q)
  BY <1>1, <1>2 DEF OfParts, SetRow
<1>4. s.id \in DOMAIN g.rows /\ g.rows[s.id].by \in {NoRow} \cup DOMAIN g.rows
  BY <1>2, TripleParts
<1>5. g.rows[s.id] \in Rows /\ s.was.ended \in BOOLEAN /\ s.was.verdict \in {"", "asserted", "rejected"}
  BY <1>2, TripleParts, ARow
<1>6. q \in Rows /\ q.t = g.rows[s.id].t /\ q.by = g.rows[s.id].by
  BY <1>5 DEF Rows
<1>7. q.verdict = s.was.verdict /\ q.ended = s.was.ended
  BY <1>5 DEF Rows
<1> HIDE DEF q
<1>8. /\ OnlyRows(g, h) /\ DOMAIN h.rows = DOMAIN g.rows
      /\ h.rows[s.id] = q /\ \A i \in DOMAIN g.rows \ {s.id} : h.rows[i] = g.rows[i]
  BY <1>3, <1>6, <1>4, OneRowGets
<1>9. h.next = g.next
  <2> DEFINE R == [g.rows EXCEPT ![s.id] = q]
  <2> HIDE DEF R
  <2>1. HasRows(h, g, R, g.next)
    BY <1>1, <1>3, SetRows, Zenon DEF R, SetRow
  <2> QED BY <2>1 DEF HasRows
<1> QED BY <1>6, <1>7, <1>8, <1>9 DEF VerdictUndone, OnlyRows

(* What putting an assertion's own row back writes. *)
LEMMA OwnRows ==
  ASSUME NEW g, WellFormed(g), NEW s, s.prior # <<>> => Head(s.prior) \in Rows
  PROVE  LET own == Own(g, s)
         IN /\ DOMAIN own.rows = IF s.prior = <<>> THEN DOMAIN g.rows \ {s.id} ELSE DOMAIN g.rows
            /\ s.id \in DOMAIN own.rows =>
                 own.rows[s.id].verdict = Head(s.prior).verdict /\ own.rows[s.id].ended = Head(s.prior).ended
            /\ \A i \in DOMAIN own.rows \ {s.id} :
                 own.rows[i].verdict = g.rows[i].verdict /\ own.rows[i].ended = g.rows[i].ended
<1> DEFINE own == Own(g, s)
<1>1. /\ OfParts(g) /\ \A i \in DOMAIN g.rows : /\ g.rows[i] \in Rows
                                                /\ g.rows[i].by \in {NoRow} \cup DOMAIN g.rows
  BY GraphParts DEF GoodRows
<1>2. CASE s.prior = <<>>
  <2> DEFINE R == [i \in DOMAIN g.rows \ {s.id} |->
                     [g.rows[i] EXCEPT !.by = IF @ \in {s.id} THEN NoRow ELSE @]]
  <2>1. own = [g EXCEPT !.rows = R]
    BY <1>2 DEF Own, WithoutRows
  <2>2. HasRows(own, g, R, g.next)
    <3> HIDE DEF R, own
    <3> QED BY <1>1, <2>1, SetRows, Zenon
  <2>3. ASSUME NEW i \in DOMAIN g.rows \ {s.id}
        PROVE  R[i].verdict = g.rows[i].verdict /\ R[i].ended = g.rows[i].ended
    <3> DEFINE b == IF g.rows[i].by \in {s.id} THEN NoRow ELSE g.rows[i].by
    <3>1. R[i] = [g.rows[i] EXCEPT !.by = b]
      OBVIOUS
    <3> HIDE DEF R, b
    <3> QED BY <1>1, <3>1 DEF Rows
  <2>4. DOMAIN R = DOMAIN g.rows \ {s.id}
    OBVIOUS
  <2> HIDE DEF R, own
  <2> QED BY <1>2, <2>2, <2>3, <2>4 DEF HasRows, own
<1>3. CASE s.prior # <<>> /\ s.id \in DOMAIN g.rows
  <2> DEFINE d == Head(s.prior).derived \/ g.rows[s.id].derived
             q == [[Head(s.prior) EXCEPT !.t = g.rows[s.id].t] EXCEPT !.derived = d]
  <2>1. [Head(s.prior) EXCEPT !.t = g.rows[s.id].t, !.derived = @ \/ g.rows[s.id].derived] = q
    BY <1>3 DEF Rows
  <2>2. own = WithRow(g, s.id, q)
    BY <1>3, <2>1 DEF Own
  <2>3. q.verdict = Head(s.prior).verdict /\ q.ended = Head(s.prior).ended
    BY <1>3 DEF Rows
  <2> HIDE DEF q, own
  <2>4. DOMAIN own.rows = DOMAIN g.rows /\ own.rows[s.id] = q
        /\ \A i \in DOMAIN g.rows \ {s.id} : own.rows[i] = g.rows[i]
    <3> DEFINE R == [j \in DOMAIN g.rows \cup {s.id} |-> IF j = s.id THEN q ELSE g.rows[j]]
               nx == IF s.id = g.next THEN s.id + 1 ELSE g.next
    <3>1. own = [g EXCEPT !.rows = R, !.next = nx]
      BY <2>2, Zenon DEF WithRow
    <3>2. DOMAIN R = DOMAIN g.rows /\ R[s.id] = q /\ \A i \in DOMAIN g.rows \ {s.id} : R[i] = g.rows[i]
      BY <1>3
    <3> HIDE DEF R, nx
    <3>3. HasRows(own, g, R, nx)
      BY <1>1, <3>1, NewRows, Zenon
    <3> QED BY <3>2, <3>3 DEF HasRows
  <2> QED BY <1>3, <2>3, <2>4 DEF own
<1>4. CASE s.prior # <<>> /\ s.id \notin DOMAIN g.rows
  <2>1. own = g
    BY <1>4 DEF Own
  <2> QED BY <1>4, <2>1
<1> QED BY <1>2, <1>3, <1>4

(* Undoing an assertion undoes its verdict, and only its rivals come back. *)
LEMMA AssertUndone ==
  ASSUME NEW g, WellFormed(g), NEW s, s.prior # <<>> => Head(s.prior) \in Rows,
         \A i \in DOMAIN s.rivals : s.rivals[i] \in Rows /\ i # s.id /\ ~s.rivals[i].ended,
         NEW h \in UndoAssert(g, s)
  PROVE  VerdictUndone(g, h, s.id, s.prior, DOMAIN s.rivals)
<1> DEFINE mine == {i \in DOMAIN s.rivals \cap DOMAIN g.rows : g.rows[i].by = s.id}
           own == Own(g, s)
           R == [i \in DOMAIN own.rows |->
                   IF i \in mine THEN [own.rows[i] EXCEPT !.ended = s.rivals[i].ended, !.by = s.rivals[i].by]
                   ELSE own.rows[i]]
<1>1. h = [own EXCEPT !.rows = R]
  BY DEF UndoAssert, Own
<1>2. HasRows(own, g, own.rows, g.next) /\ Restood(own.rows, g)
  BY OwnRestood
<1>3. /\ DOMAIN own.rows = IF s.prior = <<>> THEN DOMAIN g.rows \ {s.id} ELSE DOMAIN g.rows
      /\ s.id \in DOMAIN own.rows =>
           own.rows[s.id].verdict = Head(s.prior).verdict /\ own.rows[s.id].ended = Head(s.prior).ended
      /\ \A i \in DOMAIN own.rows \ {s.id} :
           own.rows[i].verdict = g.rows[i].verdict /\ own.rows[i].ended = g.rows[i].ended
  BY OwnRows
<1> HIDE DEF own
<1>4. HasRows(h, own, R, own.next)
  <2> HIDE DEF R
  <2>1. OfParts(own)
    BY <1>2 DEF HasRows
  <2> QED BY <1>1, <2>1, SetRows, Zenon
<1>5. /\ DOMAIN R = DOMAIN own.rows
      /\ \A i \in DOMAIN own.rows \ mine : R[i] = own.rows[i]
      /\ \A i \in mine \cap DOMAIN own.rows :
           R[i] = [own.rows[i] EXCEPT !.ended = s.rivals[i].ended, !.by = s.rivals[i].by]
  OBVIOUS
<1> HIDE DEF R
<1>6. ASSUME NEW i \in mine \cap DOMAIN own.rows
      PROVE  /\ R[i].t = own.rows[i].t /\ R[i].verdict = own.rows[i].verdict
             /\ R[i].ended = s.rivals[i].ended
  <2>1. own.rows[i] \in Rows
    BY <1>2 DEF Restood
  <2>2. R[i] = [own.rows[i] EXCEPT !.ended = s.rivals[i].ended, !.by = s.rivals[i].by]
    BY <1>5
  <2> QED BY <2>1, <2>2 DEF Rows
<1>7. \A i \in mine : i \in DOMAIN s.rivals /\ i # s.id /\ ~s.rivals[i].ended
  OBVIOUS
<1> HIDE DEF mine
<1>8. \A i \in DOMAIN own.rows : own.rows[i].t = g.rows[i].t
  BY <1>2 DEF Restood
<1>9. h.rows = R /\ h.next = g.next /\ h.pairs = g.pairs
  BY <1>2, <1>4 DEF HasRows
<1>10. \A i \in DOMAIN R : R[i].t = g.rows[i].t
  BY <1>5, <1>6, <1>8
<1>11. s.id \in DOMAIN R =>
         R[s.id].verdict = Head(s.prior).verdict /\ R[s.id].ended = Head(s.prior).ended
  BY <1>3, <1>5, <1>7
<1>12. ASSUME NEW i \in DOMAIN R \ {s.id}
       PROVE  /\ R[i].verdict = g.rows[i].verdict
              /\ R[i].ended = g.rows[i].ended \/ (i \in DOMAIN s.rivals /\ ~R[i].ended)
  <2>1. CASE i \in mine
    BY <1>3, <1>5, <1>6, <1>7, <2>1
  <2>2. CASE i \notin mine
    BY <1>3, <1>5, <2>2
  <2> QED BY <2>1, <2>2
<1> QED BY <1>3, <1>5, <1>9, <1>10, <1>11, <1>12 DEF VerdictUndone

-----------------------------------------------------------------------------
(* The inductive invariant of the facts of entities that no merge has been about.
   A row tells what the last standing verdict on its triple states; and what an
   undo would put back tells what the last one before the entry did. *)

Ruled == What("reject") \cup What("assert")
VerdictsBefore(t, n) == {m \in Verdicts(t) : ledger[m].order < ledger[n].order}
TellsIn(L, S, r) ==
  /\ S = {} => r.verdict = ""
  /\ \A n \in S : (\A m \in S : L[m].order <= L[n].order) => Stated(L[n].what.op, r)

(* The row an entry found, if any, and the rows its undo may revive. *)
Seen(n) == IF ledger[n].what.op = "reject" THEN <<ledger[n].snap.was>> ELSE ledger[n].snap.prior
RivalsOf(n) == IF ledger[n].what.op = "assert" THEN DOMAIN ledger[n].snap.rivals ELSE {}

(* An id is of one triple for good, but for those a merge moves. *)
KeepsTriple(i, t) ==
  /\ i \in Nat /\ i < graph.next
  /\ i \in DOMAIN graph.rows => graph.rows[i].t = t \/ ~Apart(graph.rows[i].t)

RowsTell ==
  \A i \in DOMAIN graph.rows :
    Apart(graph.rows[i].t) => TellsIn(ledger, Verdicts(graph.rows[i].t), graph.rows[i])
VerdictRows ==
  \A n \in Ruled : Apart(ledger[n].what.t) =>
    ledger[n].snap.id \in DOMAIN graph.rows /\ graph.rows[ledger[n].snap.id].t = ledger[n].what.t
SeenTell ==
  \A n \in Ruled :
    IF Seen(n) = <<>> THEN Apart(ledger[n].what.t) => VerdictsBefore(ledger[n].what.t, n) = {}
    ELSE /\ Head(Seen(n)).t = ledger[n].what.t
         /\ Apart(ledger[n].what.t) =>
              TellsIn(ledger, VerdictsBefore(ledger[n].what.t, n), Head(Seen(n)))
RivalTells(n, i, r) ==
  /\ i # ledger[n].snap.id /\ ~r.ended
  /\ Apart(r.t) => TellsIn(ledger, VerdictsBefore(r.t, n), r)
RivalsTell == \A n \in Ruled : \A i \in RivalsOf(n) : RivalTells(n, i, ledger[n].snap.rivals[i])
IdsKeep ==
  \A n \in Ruled : /\ KeepsTriple(ledger[n].snap.id, ledger[n].what.t)
                   /\ \A i \in RivalsOf(n) : KeepsTriple(i, ledger[n].snap.rivals[i].t)
FactInv == RowsTell /\ VerdictRows /\ SeenTell /\ RivalsTell /\ IdsKeep

(* A pair is told apart by one correction. *)
PairInv ==
  \A pair \in Pairs : pair \cap EverMerged = {} =>
    /\ pair \in graph.pairs <=> \E n \in What("not_same") : ledger[n].what.pair = pair
    /\ \A m, n \in What("not_same") : ledger[m].what.pair = pair /\ ledger[n].what.pair = pair => m = n

(* An entity that is there was not merged, and one the user merged is in its winner. *)
HomeInv ==
  /\ mergedInto \in [Ent -> Ent]
  /\ \A e \in graph.ents : mergedInto[e] = e
  /\ \A k \in What("merge") : mergedInto[ledger[k].snap.loser] = ledger[k].snap.winner

-----------------------------------------------------------------------------
(* What rows tell, carried from one to another. *)
LEMMA TellsSame ==
  ASSUME NEW L, NEW M, NEW S, \A n \in S : M[n] = L[n], NEW r, NEW q, SameFact(r, q), TellsIn(L, S, r)
  PROVE  TellsIn(M, S, q)
<1>1. ASSUME NEW op, Stated(op, r) PROVE Stated(op, q)
  BY <1>1 DEF SameFact, Stated
<1>2. q.verdict = r.verdict
  BY DEF SameFact
<1>3. S = {} => q.verdict = ""
  BY <1>2 DEF TellsIn
<1>4. ASSUME NEW n \in S, \A m \in S : M[m].order <= M[n].order
      PROVE  Stated(M[n].what.op, q)
  <2>1. \A m \in S : L[m].order <= L[n].order
    BY <1>4
  <2>2. Stated(L[n].what.op, r)
    BY <2>1 DEF TellsIn
  <2> QED BY <1>1, <2>2
<1> QED BY <1>3, <1>4 DEF TellsIn

(* A rival that was current may be so again. *)
LEMMA TellsBoth ==
  ASSUME NEW L, NEW M, NEW S, \A n \in S : M[n] = L[n] /\ L[n].what.op \in {"reject", "assert"},
         NEW r, TellsIn(L, S, r), NEW u, TellsIn(L, S, u), ~u.ended,
         NEW q, q.verdict = r.verdict, ~q.ended
  PROVE  TellsIn(M, S, q)
<1>1. S = {} => q.verdict = ""
  BY DEF TellsIn
<1>2. ASSUME NEW n \in S, \A m \in S : M[m].order <= M[n].order
      PROVE  Stated(M[n].what.op, q)
  <2>1. \A m \in S : L[m].order <= L[n].order
    BY <1>2
  <2>2. Stated(L[n].what.op, r) /\ Stated(L[n].what.op, u)
    BY <2>1 DEF TellsIn
  <2>3. L[n].what.op = "assert"
    BY <2>2 DEF Stated
  <2> QED BY <2>2, <2>3 DEF Stated
<1> QED BY <1>1, <1>2 DEF TellsIn

(* A new verdict is the last one. *)
LEMMA TellsNew ==
  ASSUME NEW M, NEW S, NEW x, M[x].order \in Nat,
         \A n \in S : M[n].order \in Nat /\ M[n].order < M[x].order,
         NEW q, Stated(M[x].what.op, q)
  PROVE  TellsIn(M, S \cup {x}, q)
<1>1. ASSUME NEW n \in S \cup {x}, \A m \in S \cup {x} : M[m].order <= M[n].order
      PROVE  n = x
  <2>1. M[x].order <= M[n].order
    BY <1>1
  <2> QED BY <2>1
<1> QED BY <1>1 DEF TellsIn

(* The standing verdicts, and what they say of triples. *)
LEMMA RuledParts ==
  ASSUME BaseInv
  PROVE  /\ \A n \in Ruled : /\ n \in Standing /\ ledger[n].what \in Request
                             /\ ledger[n].what.op \in {"reject", "assert"}
                             /\ ledger[n].order \in Nat /\ 0 < ledger[n].order
                             /\ ledger[n].order < NextOrder
         /\ \A t : Verdicts(t) = {n \in Ruled : ledger[n].what.t = t}
         /\ NextOrder \in Nat
BY OrderOfStanding DEF BaseInv, Ruled, What, Verdicts

(* Triples of entities no merge has been about. *)
LEMMA ApartOff ==
  /\ \A t : Apart(t) <=> Off(t, EverMerged)
  /\ \A t : Apart(t)' <=> Off(t, EverMerged')
BY DEF Apart, Off

(* No triple becomes apart again. *)
LEMMA ApartStays ==
  ASSUME EverMerged \subseteq EverMerged'
  PROVE  \A t : Apart(t)' => Apart(t)
BY DEF Apart

(* The facts of other entities stay in a step that makes and undoes no verdict. *)
LEMMA FactsStill ==
  ASSUME BaseInv, FactInv, WellFormed(graph'), EverMerged \subseteq EverMerged',
         KeptOff(graph, graph', EverMerged'),
         Ruled' = Ruled, \A n \in Ruled : ledger'[n] = ledger[n]
  PROVE  FactInv'
<1>1. /\ \A t : Apart(t)' => Apart(t) /\ Off(t, EverMerged')
      /\ \A t : Off(t, EverMerged') => Apart(t)'
      /\ \A t : Off(t, EverMerged') => Apart(t)
  BY ApartOff, ApartStays
<1>2. /\ \A t : Verdicts(t)' = Verdicts(t) /\ Verdicts(t) \subseteq Ruled
      /\ \A t : \A n \in Ruled : VerdictsBefore(t, n)' = VerdictsBefore(t, n)
      /\ \A n \in Ruled : Seen(n)' = Seen(n) /\ RivalsOf(n)' = RivalsOf(n)
  <2>1. \A t : Verdicts(t)' = Verdicts(t) /\ Verdicts(t) \subseteq Ruled
    BY DEF Verdicts, Ruled
  <2>2. \A t : \A n \in Ruled : VerdictsBefore(t, n)' = VerdictsBefore(t, n)
    BY <2>1 DEF VerdictsBefore
  <2>3. \A n \in Ruled : Seen(n)' = Seen(n) /\ RivalsOf(n)' = RivalsOf(n)
    BY DEF Seen, RivalsOf
  <2> QED BY <2>1, <2>2, <2>3
<1>3. /\ graph.next \in Nat /\ graph'.next \in Nat /\ graph.next \notin DOMAIN graph.rows
      /\ graph.next <= graph'.next
  <2>1. graph.next \in Nat /\ graph'.next \in Nat /\ graph.next \notin DOMAIN graph.rows
    BY DEF BaseInv, WellFormed
  <2> QED BY <2>1 DEF KeptOff
<1>4. \A r : SameFact(r, r)
  BY DEF SameFact
<1>5. \A t : \A n \in Ruled : VerdictsBefore(t, n) \subseteq Ruled
  BY <1>2 DEF VerdictsBefore
<1>6. VerdictRows'
  <2>1. SUFFICES ASSUME NEW n \in Ruled, Off(ledger[n].what.t, EverMerged')
                 PROVE  /\ ledger[n].snap.id \in DOMAIN graph'.rows
                        /\ graph'.rows[ledger[n].snap.id].t = ledger[n].what.t
    BY <1>1 DEF VerdictRows
  <2>2. /\ ledger[n].snap.id \in DOMAIN graph.rows
        /\ graph.rows[ledger[n].snap.id].t = ledger[n].what.t
    BY <1>1, <2>1 DEF FactInv, VerdictRows
  <2> QED BY <2>1, <2>2 DEF KeptOff, SameFact
<1>7. RowsTell'
  <2>1. SUFFICES ASSUME NEW i \in DOMAIN graph'.rows, Off(graph'.rows[i].t, EverMerged')
                 PROVE  TellsIn(ledger', Verdicts(graph'.rows[i].t), graph'.rows[i])
    BY <1>1, <1>2 DEF RowsTell
  <2> DEFINE t == graph'.rows[i].t
  <2>2. CASE i \in DOMAIN graph.rows /\ graph.rows[i].t = t
    <3>1. SameFact(graph.rows[i], graph'.rows[i])
      BY <2>1, <2>2 DEF KeptOff
    <3>2. TellsIn(ledger, Verdicts(t), graph.rows[i])
      BY <1>1, <2>1, <2>2 DEF FactInv, RowsTell
    <3>3. \A n \in Verdicts(t) : ledger'[n] = ledger[n]
      BY <1>2
    <3> QED BY <3>1, <3>2, <3>3, TellsSame
  <2>3. CASE i = graph.next /\ graph'.rows[i].verdict = ""
    <3>1. Verdicts(t) = {}
      <4>1. SUFFICES ASSUME NEW n \in Verdicts(t) PROVE FALSE
        OBVIOUS
      <4>2. n \in Ruled /\ ledger[n].what.t = t
        BY RuledParts
      <4> DEFINE id == ledger[n].snap.id
      <4>3. id \in DOMAIN graph.rows /\ graph.rows[id].t = t
        BY <1>1, <2>1, <4>2 DEF FactInv, VerdictRows
      <4> HIDE DEF id
      <4>4. id \in DOMAIN graph'.rows /\ graph'.rows[id].t = t
        BY <2>1, <4>3 DEF KeptOff, SameFact
      <4>5. id = i
        BY <4>4 DEF WellFormed
      <4> QED BY <1>3, <2>3, <4>3, <4>5
    <3> HIDE DEF t
    <3> QED BY <2>3, <3>1 DEF TellsIn, t
  <2> QED BY <2>1, <2>2, <2>3 DEF KeptOff
<1>8. SeenTell'
  <2>1. SUFFICES ASSUME NEW n \in Ruled
                 PROVE  IF Seen(n) = <<>> THEN Apart(ledger[n].what.t)' => VerdictsBefore(ledger[n].what.t, n) = {}
                        ELSE /\ Head(Seen(n)).t = ledger[n].what.t
                             /\ Off(ledger[n].what.t, EverMerged') =>
                                  TellsIn(ledger', VerdictsBefore(ledger[n].what.t, n), Head(Seen(n)))
    BY <1>1, <1>2 DEF SeenTell
  <2> DEFINE t == ledger[n].what.t
  <2>2. IF Seen(n) = <<>> THEN Apart(t) => VerdictsBefore(t, n) = {}
        ELSE /\ Head(Seen(n)).t = t
             /\ Apart(t) => TellsIn(ledger, VerdictsBefore(t, n), Head(Seen(n)))
    BY DEF FactInv, SeenTell
  <2>3. \A m \in VerdictsBefore(t, n) : ledger'[m] = ledger[m]
    BY <1>5
  <2> HIDE DEF t
  <2>4. Off(t, EverMerged') /\ Seen(n) # <<>> => TellsIn(ledger', VerdictsBefore(t, n), Head(Seen(n)))
    BY <1>1, <1>4, <2>2, <2>3, TellsSame
  <2> QED BY <1>1, <2>2, <2>4 DEF t
<1>9. RivalsTell'
  <2>1. SUFFICES ASSUME NEW n \in Ruled, NEW i \in RivalsOf(n)
                 PROVE  RivalTells(n, i, ledger[n].snap.rivals[i])'
    BY <1>2 DEF RivalsTell
  <2> DEFINE r == ledger[n].snap.rivals[i]
  <2>2. RivalTells(n, i, r)
    BY DEF FactInv, RivalsTell
  <2>3. \A m \in VerdictsBefore(r.t, n) : ledger'[m] = ledger[m]
    BY <1>5
  <2>4. ledger'[n].snap.rivals[i] = r /\ ledger'[n].snap.id = ledger[n].snap.id
    BY <2>1
  <2> HIDE DEF r
  <2>5. Off(r.t, EverMerged') => TellsIn(ledger', VerdictsBefore(r.t, n), r)
    BY <1>1, <1>4, <2>2, <2>3, TellsSame DEF RivalTells
  <2> QED BY <1>1, <1>2, <2>2, <2>4, <2>5 DEF RivalTells
<1>10. ASSUME NEW i, NEW t, KeepsTriple(i, t)
       PROVE  KeepsTriple(i, t)'
  <2>1. i \in Nat /\ i < graph.next
    BY <1>10 DEF KeepsTriple
  <2>2. i < graph'.next /\ i # graph.next
    BY <1>3, <2>1
  <2>3. ASSUME i \in DOMAIN graph'.rows, Off(graph'.rows[i].t, EverMerged')
        PROVE  graph'.rows[i].t = t
    <3>1. i \in DOMAIN graph.rows /\ graph.rows[i].t = graph'.rows[i].t
      BY <2>2, <2>3 DEF KeptOff
    <3>2. Apart(graph.rows[i].t)
      BY <1>1, <2>3, <3>1
    <3> QED BY <1>10, <3>1, <3>2 DEF KeepsTriple
  <2> QED BY <1>1, <2>1, <2>2, <2>3 DEF KeepsTriple
<1>11. IdsKeep'
  <2>1. \A n \in Ruled : /\ KeepsTriple(ledger[n].snap.id, ledger[n].what.t)
                         /\ \A i \in RivalsOf(n) : KeepsTriple(i, ledger[n].snap.rivals[i].t)
    BY DEF FactInv, IdsKeep
  <2> QED BY <1>2, <1>10, <2>1 DEF IdsKeep
<1> QED BY <1>6, <1>7, <1>8, <1>9, <1>11 DEF FactInv

(* The standing verdicts after one is made ... *)
LEMMA RuledAdded ==
  ASSUME BaseInv, NEW x, NEW p, NEW s, p.op \in {"reject", "assert"}, Adds(x, p, s)
  PROVE  /\ x \notin Ruled /\ Ruled' = Ruled \cup {x} /\ \A n \in Ruled : ledger'[n] = ledger[n]
         /\ ledger'[x].what = p /\ ledger'[x].snap = s /\ ledger'[x].order = NextOrder
         /\ NextOrder \in Nat /\ \A n \in Ruled : ledger[n].order \in Nat /\ ledger[n].order < NextOrder
         /\ \A t : Verdicts(t)' = IF t = p.t THEN Verdicts(t) \cup {x} ELSE Verdicts(t)
         /\ \A t : \A n \in Ruled : VerdictsBefore(t, n)' = VerdictsBefore(t, n)
         /\ \A t : VerdictsBefore(t, x)' = Verdicts(t)
         /\ \A n \in Ruled : Seen(n)' = Seen(n) /\ RivalsOf(n)' = RivalsOf(n)
<1>1. /\ x \notin Standing /\ Standing' = Standing \cup {x}
      /\ \A n \in Standing : ledger'[n] = ledger[n]
  BY DEF Adds
<1>2. /\ \A n \in Ruled : n \in Standing /\ ledger[n].order \in Nat /\ ledger[n].order < NextOrder
      /\ \A t : Verdicts(t) = {n \in Ruled : ledger[n].what.t = t}
      /\ NextOrder \in Nat
  BY RuledParts
<1>3. /\ ledger'[x].what = p /\ ledger'[x].snap = s /\ ledger'[x].order = NextOrder
  BY EntryFields DEF Adds
<1>4. /\ \A op : What(op)' = IF op = p.op THEN What(op) \cup {x} ELSE What(op)
      /\ What("reject")' \cup What("assert")' = What("reject") \cup What("assert") \cup {x}
  BY WhatAdded
<1>5. Ruled' = Ruled \cup {x} /\ x \notin Ruled
  BY <1>1, <1>2, <1>4 DEF Ruled
<1>6. \A n \in Ruled : ledger'[n] = ledger[n]
  BY <1>1, <1>2
<1>7. \A t : Verdicts(t)' = {n \in Ruled' : ledger'[n].what.t = t}
  BY DEF Verdicts, Ruled
<1>8. \A t : Verdicts(t)' = IF t = p.t THEN Verdicts(t) \cup {x} ELSE Verdicts(t)
  BY <1>2, <1>3, <1>5, <1>6, <1>7
<1>9. ASSUME NEW t
      PROVE  /\ \A n \in Ruled : VerdictsBefore(t, n)' = VerdictsBefore(t, n)
             /\ VerdictsBefore(t, x)' = Verdicts(t)
  <2>1. /\ Verdicts(t) \subseteq Ruled /\ Verdicts(t) \subseteq Verdicts(t)'
        /\ Verdicts(t)' \subseteq Verdicts(t) \cup {x}
    BY <1>2, <1>8
  <2>2. \A n : VerdictsBefore(t, n)' = {m \in Verdicts(t)' : ledger'[m].order < ledger'[n].order}
    BY DEF VerdictsBefore
  <2>3. \A n \in Ruled : ~(NextOrder < ledger[n].order)
    BY <1>2
  <2>4. ~(NextOrder < NextOrder)
    BY <1>2
  <2> QED BY <1>2, <1>3, <1>6, <2>1, <2>2, <2>3, <2>4 DEF VerdictsBefore
<1>10. \A n \in Ruled : Seen(n)' = Seen(n) /\ RivalsOf(n)' = RivalsOf(n)
  BY <1>6 DEF Seen, RivalsOf
<1> QED BY <1>2, <1>3, <1>5, <1>6, <1>8, <1>9, <1>10

(* What a verdict that is made does: the row it saw, if any, and those it retired. *)
SaysMore(x, p, s, seen, V) ==
  /\ p.op \in {"reject", "assert"} /\ Adds(x, p, s) /\ VerdictMade(graph, graph', p.t, p.op, s.id)
  /\ seen = IF p.op = "reject" THEN <<s.was>> ELSE s.prior
  /\ IF seen = <<>> THEN s.id \notin DOMAIN graph.rows
     ELSE s.id \in DOMAIN graph.rows /\ Head(seen) = graph.rows[s.id]
  /\ V = IF p.op = "assert" THEN DOMAIN s.rivals ELSE {}
  /\ \A i \in V : /\ i \in DOMAIN graph.rows /\ s.rivals[i] = graph.rows[i]
                  /\ i # s.id /\ ~graph.rows[i].ended

(* ... whose facts hold then too. *)
LEMMA FactsAdded ==
  ASSUME BaseInv, FactInv, WellFormed(graph'), EverMerged \subseteq EverMerged',
         NEW x, NEW p, NEW s, NEW seen, NEW V, SaysMore(x, p, s, seen, V)
  PROVE  FactInv'
<1>1. /\ p.op \in {"reject", "assert"} /\ Adds(x, p, s) /\ VerdictMade(graph, graph', p.t, p.op, s.id)
      /\ seen = IF p.op = "reject" THEN <<s.was>> ELSE s.prior
      /\ IF seen = <<>> THEN s.id \notin DOMAIN graph.rows
         ELSE s.id \in DOMAIN graph.rows /\ Head(seen) = graph.rows[s.id]
      /\ V = IF p.op = "assert" THEN DOMAIN s.rivals ELSE {}
      /\ \A i \in V : /\ i \in DOMAIN graph.rows /\ s.rivals[i] = graph.rows[i]
                      /\ i # s.id /\ ~graph.rows[i].ended
  BY DEF SaysMore
<1> USE <1>1
<1> DEFINE id == s.id
<1>2. /\ x \notin Ruled /\ Ruled' = Ruled \cup {x} /\ \A n \in Ruled : ledger'[n] = ledger[n]
      /\ ledger'[x].what = p /\ ledger'[x].snap = s /\ ledger'[x].order = NextOrder
      /\ NextOrder \in Nat /\ \A n \in Ruled : ledger[n].order \in Nat /\ ledger[n].order < NextOrder
      /\ \A t : Verdicts(t)' = IF t = p.t THEN Verdicts(t) \cup {x} ELSE Verdicts(t)
      /\ \A t : \A n \in Ruled : VerdictsBefore(t, n)' = VerdictsBefore(t, n)
      /\ \A t : VerdictsBefore(t, x)' = Verdicts(t)
      /\ \A n \in Ruled : Seen(n)' = Seen(n) /\ RivalsOf(n)' = RivalsOf(n)
  BY RuledAdded
<1>3. \A t : Apart(t)' => Apart(t)
  BY ApartStays
<1>4. \A t : Verdicts(t) \subseteq Ruled /\ \A n \in Verdicts(t) : ledger[n].what.t = t
  BY RuledParts
<1>5. \A t : \A n \in Ruled : VerdictsBefore(t, n) \subseteq Ruled
  BY <1>4 DEF VerdictsBefore
<1>6. /\ graph.next \in Nat /\ graph'.next \in Nat /\ graph.next \notin DOMAIN graph.rows
      /\ graph.next <= graph'.next
  <2>1. graph.next \in Nat /\ graph'.next \in Nat /\ graph.next \notin DOMAIN graph.rows
    BY DEF BaseInv, WellFormed
  <2> QED BY <2>1 DEF VerdictMade
<1>7. /\ DOMAIN graph'.rows = DOMAIN graph.rows \cup {id}
      /\ graph'.rows[id].t = p.t /\ Stated(p.op, graph'.rows[id])
      /\ id \in DOMAIN graph.rows => graph.rows[id].t = p.t
      /\ id \notin DOMAIN graph.rows => id = graph.next
      /\ \A i \in DOMAIN graph.rows \ {id} : SameFact(graph.rows[i], graph'.rows[i])
  BY DEF VerdictMade
<1>8. \A i \in DOMAIN graph.rows : graph'.rows[i].t = graph.rows[i].t /\ i \in DOMAIN graph'.rows
  BY <1>7 DEF SameFact
<1>9. \A i \in DOMAIN graph'.rows : graph'.rows[i].t = p.t => i = id
  BY <1>7 DEF WellFormed
<1>10. Seen(x)' = seen /\ RivalsOf(x)' = V
  BY <1>2 DEF Seen, RivalsOf
<1>11. \A r : SameFact(r, r)
  BY DEF SameFact
<1> DEFINE Now(t) == IF t = p.t THEN Verdicts(t) \cup {x} ELSE Verdicts(t)
           Before(t, n) == IF n = x THEN Verdicts(t) ELSE VerdictsBefore(t, n)
<1>12. /\ \A t : Verdicts(t)' = Now(t)
       /\ \A t : \A n \in Ruled' : VerdictsBefore(t, n)' = Before(t, n)
       /\ \A t : \A n \in Ruled : Before(t, n) = VerdictsBefore(t, n)
       /\ \A t : Before(t, x) = Verdicts(t)
  BY <1>2
<1> HIDE DEF id, Before
<1>13. VerdictRows'
  <2>1. ASSUME NEW n \in Ruled, Apart(ledger[n].what.t)
        PROVE  /\ ledger[n].snap.id \in DOMAIN graph'.rows
               /\ graph'.rows[ledger[n].snap.id].t = ledger[n].what.t
    BY <1>8, <2>1 DEF FactInv, VerdictRows
  <2>2. id \in DOMAIN graph'.rows /\ graph'.rows[id].t = p.t
    BY <1>7
  <2> QED BY <1>2, <1>3, <2>1, <2>2 DEF VerdictRows, id
<1>14. RowsTell'
  <2>1. SUFFICES ASSUME NEW i \in DOMAIN graph'.rows, Apart(graph'.rows[i].t)
                 PROVE  TellsIn(ledger', Now(graph'.rows[i].t), graph'.rows[i])
    <3> HIDE DEF Now
    <3> QED BY <1>3, <1>12 DEF RowsTell
  <2>2. CASE i = id
    <3>1. Now(p.t) = Verdicts(p.t) \cup {x}
      OBVIOUS
    <3>2. \A n \in Verdicts(p.t) : ledger'[n].order \in Nat /\ ledger'[n].order < ledger'[x].order
      BY <1>2, <1>4
    <3>3. ledger'[x].order \in Nat /\ Stated(ledger'[x].what.op, graph'.rows[id])
      BY <1>2, <1>7
    <3>4. TellsIn(ledger', Verdicts(p.t) \cup {x}, graph'.rows[id])
      BY <3>2, <3>3, TellsNew
    <3> QED BY <1>7, <2>2, <3>1, <3>4
  <2>3. CASE i # id
    <3>1. i \in DOMAIN graph.rows /\ SameFact(graph.rows[i], graph'.rows[i])
      BY <1>7, <2>3
    <3>2. graph.rows[i].t = graph'.rows[i].t /\ graph'.rows[i].t # p.t
      BY <1>8, <1>9, <2>3, <3>1
    <3>3. TellsIn(ledger, Verdicts(graph.rows[i].t), graph.rows[i])
      BY <2>1, <3>1, <3>2 DEF FactInv, RowsTell
    <3>4. \A n \in Verdicts(graph.rows[i].t) : ledger'[n] = ledger[n]
      BY <1>2, <1>4
    <3>5. TellsIn(ledger', Verdicts(graph.rows[i].t), graph'.rows[i])
      BY <3>1, <3>3, <3>4, TellsSame
    <3>6. Now(graph'.rows[i].t) = Verdicts(graph.rows[i].t)
      BY <3>2
    <3> QED BY <3>5, <3>6
  <2> QED BY <2>2, <2>3
<1>15. SeenTell'
  <2> DEFINE Tells(n) ==
    IF Seen(n)' = <<>> THEN Apart(ledger'[n].what.t) => Before(ledger'[n].what.t, n) = {}
    ELSE /\ Head(Seen(n)').t = ledger'[n].what.t
         /\ Apart(ledger'[n].what.t) =>
              TellsIn(ledger', Before(ledger'[n].what.t, n), Head(Seen(n)'))
  <2>1. ASSUME NEW n \in Ruled PROVE Tells(n)
    <3> DEFINE t == ledger[n].what.t
    <3>1. IF Seen(n) = <<>> THEN Apart(t) => VerdictsBefore(t, n) = {}
          ELSE /\ Head(Seen(n)).t = t
               /\ Apart(t) => TellsIn(ledger, VerdictsBefore(t, n), Head(Seen(n)))
      BY DEF FactInv, SeenTell
    <3>2. \A m \in VerdictsBefore(t, n) : ledger'[m] = ledger[m]
      BY <1>2, <1>5
    <3>3. /\ ledger'[n].what.t = t /\ Seen(n)' = Seen(n)
          /\ Before(t, n) = VerdictsBefore(t, n)
      BY <1>2, <1>12
    <3> HIDE DEF t
    <3>4. Apart(t) /\ Seen(n) # <<>> => TellsIn(ledger', VerdictsBefore(t, n), Head(Seen(n)))
      BY <1>11, <3>1, <3>2, TellsSame
    <3> QED BY <3>1, <3>3, <3>4
  <2>2. Tells(x)
    <3>1. ledger'[x].what.t = p.t /\ Before(p.t, x) = Verdicts(p.t)
      BY <1>2, <1>12
    <3>2. CASE seen = <<>>
      <4>1. id \notin DOMAIN graph.rows
        BY <3>2 DEF id
      <4>2. ASSUME Apart(p.t), NEW n \in Verdicts(p.t) PROVE FALSE
        <5>1. n \in Ruled /\ ledger[n].what.t = p.t
          BY <1>4, <4>2
        <5>2. ledger[n].snap.id \in DOMAIN graph.rows /\ graph.rows[ledger[n].snap.id].t = p.t
          BY <4>2, <5>1 DEF FactInv, VerdictRows
        <5>3. ledger[n].snap.id = id
          BY <1>8, <1>9, <5>2
        <5> QED BY <4>1, <5>2, <5>3
      <4> QED BY <1>10, <3>1, <3>2, <4>2
    <3>3. CASE seen # <<>>
      <4>1. id \in DOMAIN graph.rows /\ Head(seen) = graph.rows[id]
        BY <3>3 DEF id
      <4>2. Head(seen).t = p.t
        BY <1>7, <4>1
      <4>3. Apart(p.t) => TellsIn(ledger, Verdicts(p.t), Head(seen))
        BY <1>7, <4>1 DEF FactInv, RowsTell
      <4>4. \A n \in Verdicts(p.t) : ledger'[n] = ledger[n]
        BY <1>2, <1>4
      <4>5. Apart(p.t) => TellsIn(ledger', Verdicts(p.t), Head(seen))
        BY <1>11, <4>3, <4>4, TellsSame
      <4> QED BY <1>10, <3>1, <3>3, <4>2, <4>5
    <3> QED BY <3>2, <3>3
  <2>3. \A n \in Ruled' : Tells(n)
    BY <1>2, <2>1, <2>2
  <2> QED BY <1>3, <1>12, <2>3 DEF SeenTell
<1>16. RivalsTell'
  <2> DEFINE Tells(n, i, r) == /\ i # ledger'[n].snap.id /\ ~r.ended
                               /\ Apart(r.t) => TellsIn(ledger', Before(r.t, n), r)
  <2>1. ASSUME NEW n \in Ruled, NEW i \in RivalsOf(n) PROVE Tells(n, i, ledger'[n].snap.rivals[i])
    <3> DEFINE r == ledger[n].snap.rivals[i]
    <3>1. RivalTells(n, i, r)
      BY DEF FactInv, RivalsTell
    <3>2. \A m \in VerdictsBefore(r.t, n) : ledger'[m] = ledger[m]
      BY <1>2, <1>5
    <3>3. ledger'[n].snap.rivals[i] = r /\ ledger'[n].snap.id = ledger[n].snap.id
      BY <1>2
    <3>4. Before(r.t, n) = VerdictsBefore(r.t, n)
      BY <1>12
    <3> HIDE DEF r
    <3>5. Apart(r.t) => TellsIn(ledger', VerdictsBefore(r.t, n), r)
      BY <1>11, <3>1, <3>2, TellsSame DEF RivalTells
    <3> QED BY <3>1, <3>3, <3>4, <3>5 DEF RivalTells
  <2>2. ASSUME NEW i \in V PROVE Tells(x, i, ledger'[x].snap.rivals[i])
    <3> DEFINE r == graph.rows[i]
    <3>1. i \in DOMAIN graph.rows /\ s.rivals[i] = r /\ i # id /\ ~r.ended
      BY <2>2 DEF id
    <3>2. Apart(r.t) => TellsIn(ledger, Verdicts(r.t), r)
      BY <3>1 DEF FactInv, RowsTell
    <3>3. \A n \in Verdicts(r.t) : ledger'[n] = ledger[n]
      BY <1>2, <1>4
    <3>4. ledger'[x].snap.rivals[i] = r /\ ledger'[x].snap.id = id /\ Before(r.t, x) = Verdicts(r.t)
      BY <1>2, <1>12, <3>1 DEF id
    <3> HIDE DEF r
    <3>5. Apart(r.t) => TellsIn(ledger', Verdicts(r.t), r)
      BY <1>11, <3>2, <3>3, TellsSame
    <3> QED BY <3>1, <3>4, <3>5
  <2>3. \A n \in Ruled' : \A i \in RivalsOf(n)' : Tells(n, i, ledger'[n].snap.rivals[i])
    BY <1>2, <1>10, <2>1, <2>2
  <2> QED BY <1>3, <1>12, <2>3 DEF RivalsTell, RivalTells
<1>17. IdsKeep'
  <2>1. ASSUME NEW i, NEW t, KeepsTriple(i, t) PROVE KeepsTriple(i, t)'
    <3>1. i \in Nat /\ i < graph.next
      BY <2>1 DEF KeepsTriple
    <3>2. i < graph'.next /\ i # graph.next
      BY <1>6, <3>1
    <3>3. i \in DOMAIN graph'.rows => i \in DOMAIN graph.rows /\ graph'.rows[i].t = graph.rows[i].t
      BY <1>7, <1>8, <3>2
    <3> QED BY <1>3, <2>1, <3>1, <3>2, <3>3 DEF KeepsTriple
  <2>2. ASSUME NEW i \in DOMAIN graph'.rows PROVE i \in Nat /\ i < graph'.next
    BY <1>6 DEF WellFormed
  <2>3. KeepsTriple(id, p.t)'
    BY <1>7, <2>2 DEF KeepsTriple
  <2>4. ASSUME NEW i \in V PROVE KeepsTriple(i, s.rivals[i].t)'
    BY <1>8, <2>2, <2>4 DEF KeepsTriple
  <2>5. \A n \in Ruled : /\ KeepsTriple(ledger[n].snap.id, ledger[n].what.t)
                         /\ \A i \in RivalsOf(n) : KeepsTriple(i, ledger[n].snap.rivals[i].t)
    BY DEF FactInv, IdsKeep
  <2>6. \A n \in Ruled : /\ KeepsTriple(ledger[n].snap.id, ledger[n].what.t)'
                         /\ \A i \in RivalsOf(n) : KeepsTriple(i, ledger[n].snap.rivals[i].t)'
    BY <1>2, <2>1, <2>5
  <2>7. /\ KeepsTriple(ledger[x].snap.id, ledger[x].what.t)'
        /\ \A i \in V : KeepsTriple(i, ledger[x].snap.rivals[i].t)'
    BY <1>2, <2>3, <2>4 DEF id
  <2> QED BY <1>2, <1>10, <2>6, <2>7 DEF IdsKeep
<1> QED BY <1>13, <1>14, <1>15, <1>16, <1>17 DEF FactInv

(* The triples an entry wrote on.  One that may be undone shares none with a later. *)
TriplesOf(n) == {ledger[n].what.t} \cup {ledger[n].snap.rivals[i].t : i \in RivalsOf(n)}

(* What the guard lets through shares none with a later verdict. *)
LEMMA LaterElsewhere ==
  ASSUME BaseInv, NEW x \in Ruled, ~Blocked(x), NEW m \in Ruled, ledger[x].order < ledger[m].order
  PROVE  TriplesOf(m) \cap TriplesOf(x) = {}
<1>1. /\ m \in DOMAIN ledger /\ ledger[m].status = "applied" /\ Later(m, x)
  BY RuledParts DEF Standing, Later
<1>2. /\ ledger[m].what.op \in {"reject", "assert"} /\ ledger[x].what.op \in {"reject", "assert"}
  BY RuledParts
<1>3. TargetKeys(ledger[m]) \cap TargetKeys(ledger[x]) = {}
  BY <1>1, <1>2 DEF Blocked, Blocks
<1>4. ASSUME NEW n \in {m, x} PROVE \A t \in TriplesOf(n) : <<"rel", t>> \in TargetKeys(ledger[n])
  BY <1>2, <1>4 DEF TriplesOf, RivalsOf, TargetKeys
<1> QED BY <1>3, <1>4

(* The standing verdicts after one is undone. *)
LEMMA RuledRemoved ==
  ASSUME BaseInv, NEW x \in Ruled, Removes(x), ~Blocked(x)
  PROVE  /\ Ruled' = Ruled \ {x} /\ \A n \in Ruled \ {x} : ledger'[n] = ledger[n]
         /\ \A t : Verdicts(t)' = Verdicts(t) \ {x}
         /\ \A t \in TriplesOf(x) : VerdictsBefore(t, x) = Verdicts(t) \ {x}
         /\ \A n \in Ruled \ {x} : \A t \in TriplesOf(n) : VerdictsBefore(t, n)' = VerdictsBefore(t, n)
         /\ \A n \in Ruled \ {x} : Seen(n)' = Seen(n) /\ RivalsOf(n)' = RivalsOf(n)
<1>1. /\ Standing' = Standing \ {x} /\ \A n \in Standing \ {x} : ledger'[n] = ledger[n]
  BY DEF Removes
<1>2. /\ \A n \in Ruled : n \in Standing /\ ledger[n].order \in Nat
      /\ \A t : Verdicts(t) = {n \in Ruled : ledger[n].what.t = t}
  BY RuledParts
<1>3. Ruled' = Ruled \ {x}
  BY WhatRemoved DEF Ruled
<1>4. \A n \in Ruled \ {x} : ledger'[n] = ledger[n]
  BY <1>1, <1>2
<1>5. \A t : Verdicts(t)' = {n \in Ruled' : ledger'[n].what.t = t}
  BY DEF Verdicts, Ruled
<1>6. \A t : Verdicts(t)' = Verdicts(t) \ {x}
  BY <1>2, <1>3, <1>4, <1>5
<1>7. \A m \in Ruled \ {x} : ledger[m].order < ledger[x].order \/ ledger[x].order < ledger[m].order
  <2>1. \A m \in Ruled \ {x} : ledger[m].order # ledger[x].order
    BY <1>2, OrderOfStanding DEF BaseInv
  <2> QED BY <1>2, <2>1
<1>8. ASSUME NEW t \in TriplesOf(x) PROVE VerdictsBefore(t, x) = Verdicts(t) \ {x}
  <2>1. ASSUME NEW m \in Verdicts(t) \ {x} PROVE ledger[m].order < ledger[x].order
    <3>1. m \in Ruled /\ t \in TriplesOf(m)
      BY <1>2 DEF TriplesOf
    <3> QED BY <1>7, <3>1, LaterElsewhere
  <2>2. ~(ledger[x].order < ledger[x].order)
    BY <1>2
  <2> QED BY <2>1, <2>2 DEF VerdictsBefore
<1>9. ASSUME NEW n \in Ruled \ {x}, NEW t \in TriplesOf(n)
      PROVE  VerdictsBefore(t, n)' = VerdictsBefore(t, n)
  <2>1. x \notin VerdictsBefore(t, n)
    <3>1. SUFFICES ASSUME x \in Verdicts(t), ledger[x].order < ledger[n].order
                   PROVE  FALSE
      BY DEF VerdictsBefore
    <3>2. t \in TriplesOf(x)
      BY <1>2, <3>1 DEF TriplesOf
    <3> QED BY <3>1, <3>2, LaterElsewhere
  <2>2. Verdicts(t) \subseteq Ruled
    BY <1>2
  <2>3. \A m \in Verdicts(t) \ {x} : ledger'[m] = ledger[m]
    BY <1>4, <2>2
  <2> DEFINE S == Verdicts(t)
  <2>4. VerdictsBefore(t, n) = {m \in S \ {x} : ledger[m].order < ledger[n].order}
    BY <2>1 DEF VerdictsBefore
  <2>5. S' = S \ {x}
    BY <1>6
  <2>6. VerdictsBefore(t, n)' = {m \in S \ {x} : ledger'[m].order < ledger'[n].order}
    BY <1>6 DEF VerdictsBefore
  <2> QED BY <1>4, <2>3, <2>4, <2>6
<1>10. \A n \in Ruled \ {x} : Seen(n)' = Seen(n) /\ RivalsOf(n)' = RivalsOf(n)
  BY <1>4 DEF Seen, RivalsOf
<1> QED BY <1>3, <1>4, <1>6, <1>8, <1>9, <1>10

(* When a verdict is undone, the facts are what the others say. *)
LEMMA FactsDropped ==
  ASSUME BaseInv, FactInv, WellFormed(graph'), EverMerged \subseteq EverMerged',
         NEW x \in Ruled, Removes(x), ~Blocked(x),
         VerdictUndone(graph, graph', ledger[x].snap.id, Seen(x), RivalsOf(x))
  PROVE  FactInv'
<1> DEFINE id == ledger[x].snap.id
           own == ledger[x].what.t
<1>1. /\ Ruled' = Ruled \ {x} /\ \A n \in Ruled \ {x} : ledger'[n] = ledger[n]
      /\ \A t : Verdicts(t)' = Verdicts(t) \ {x}
      /\ \A t \in TriplesOf(x) : VerdictsBefore(t, x) = Verdicts(t) \ {x}
      /\ \A n \in Ruled \ {x} : \A t \in TriplesOf(n) : VerdictsBefore(t, n)' = VerdictsBefore(t, n)
      /\ \A n \in Ruled \ {x} : Seen(n)' = Seen(n) /\ RivalsOf(n)' = RivalsOf(n)
  BY RuledRemoved
<1>2. \A t : Apart(t)' => Apart(t)
  BY ApartStays
<1>3. /\ \A t : Verdicts(t) \subseteq Ruled /\ \A n \in Verdicts(t) : ledger[n].what.t = t
      /\ \A n \in Ruled : ledger[n].what.op \in {"reject", "assert"} /\ n \in Verdicts(ledger[n].what.t)
  BY RuledParts
<1>4. /\ \A t : \A n \in Ruled : VerdictsBefore(t, n) \subseteq Ruled
      /\ \A n \in Ruled \ {x} : \A t \in TriplesOf(n) : x \notin VerdictsBefore(t, n)
  <2>1. \A n \in Ruled \ {x} : \A t \in TriplesOf(n) : x \notin VerdictsBefore(t, n)'
    BY <1>1 DEF VerdictsBefore
  <2> QED BY <1>1, <1>3, <2>1 DEF VerdictsBefore
<1>5. /\ graph'.next = graph.next
      /\ DOMAIN graph'.rows = IF Seen(x) = <<>> THEN DOMAIN graph.rows \ {id} ELSE DOMAIN graph.rows
      /\ \A i \in DOMAIN graph'.rows : graph'.rows[i].t = graph.rows[i].t
      /\ id \in DOMAIN graph'.rows =>
           graph'.rows[id].verdict = Head(Seen(x)).verdict /\ graph'.rows[id].ended = Head(Seen(x)).ended
      /\ \A i \in DOMAIN graph'.rows \ {id} :
           /\ graph'.rows[i].verdict = graph.rows[i].verdict
           /\ graph'.rows[i].ended = graph.rows[i].ended \/ (i \in RivalsOf(x) /\ ~graph'.rows[i].ended)
  BY DEF VerdictUndone
<1>6. DOMAIN graph'.rows \subseteq DOMAIN graph.rows
  BY <1>5
<1>7. \A i \in DOMAIN graph'.rows : i \in DOMAIN graph.rows /\ graph'.rows[i].t = graph.rows[i].t
  BY <1>5, <1>6
<1>8. \A i, j \in DOMAIN graph.rows : graph.rows[i].t = graph.rows[j].t => i = j
  BY DEF BaseInv, WellFormed
<1>9. /\ IF Seen(x) = <<>> THEN Apart(own) => VerdictsBefore(own, x) = {}
         ELSE /\ Head(Seen(x)).t = own
              /\ Apart(own) => TellsIn(ledger, VerdictsBefore(own, x), Head(Seen(x)))
  BY DEF FactInv, SeenTell
<1>10. Apart(own) => id \in DOMAIN graph.rows /\ graph.rows[id].t = own
  BY DEF FactInv, VerdictRows
<1>11. id \in DOMAIN graph.rows /\ Apart(graph.rows[id].t) => graph.rows[id].t = own
  BY DEF FactInv, IdsKeep, KeepsTriple
<1>12. VerdictsBefore(own, x) = Verdicts(own) \ {x}
  BY <1>1 DEF TriplesOf
<1>13. \A r : SameFact(r, r)
  BY DEF SameFact
<1> DEFINE Now(t) == Verdicts(t) \ {x}
<1>14. \A t : Verdicts(t)' = Now(t)
  BY <1>1
<1> HIDE DEF id, own
<1>15. VerdictRows'
  <2>1. ASSUME NEW n \in Ruled \ {x}, Apart(ledger[n].what.t)
        PROVE  /\ ledger[n].snap.id \in DOMAIN graph'.rows
               /\ graph'.rows[ledger[n].snap.id].t = ledger[n].what.t
    <3> DEFINE i == ledger[n].snap.id
               t == ledger[n].what.t
    <3>1. i \in DOMAIN graph.rows /\ graph.rows[i].t = t
      BY <2>1 DEF FactInv, VerdictRows
    <3>2. n \in Verdicts(t) \ {x}
      BY <1>3
    <3>3. Apart(t)
      BY <2>1
    <3> HIDE DEF i, t
    <3>4. ASSUME i = id, Seen(x) = <<>> PROVE FALSE
      <4>1. t = own
        BY <1>11, <3>1, <3>3, <3>4
      <4> QED BY <1>9, <1>12, <3>2, <3>3, <3>4, <4>1
    <3> QED BY <1>5, <3>1, <3>4 DEF i, t
  <2> QED BY <1>1, <1>2, <2>1 DEF VerdictRows
<1>16. RowsTell'
  <2>1. SUFFICES ASSUME NEW i \in DOMAIN graph'.rows, Apart(graph'.rows[i].t)
                 PROVE  TellsIn(ledger', Now(graph'.rows[i].t), graph'.rows[i])
    <3> HIDE DEF Now
    <3> QED BY <1>2, <1>14 DEF RowsTell
  <2> DEFINE t == graph.rows[i].t
             r == graph.rows[i]
             q == graph'.rows[i]
  <2>2. i \in DOMAIN graph.rows /\ q.t = t /\ Apart(t)
    BY <1>5, <1>6, <2>1
  <2>3. TellsIn(ledger, Verdicts(t), r)
    BY <2>2 DEF FactInv, RowsTell
  <2>4. \A n \in Now(t) : ledger'[n] = ledger[n] /\ ledger[n].what.op \in {"reject", "assert"}
    BY <1>1, <1>3
  <2>5. CASE i = id
    <3>1. t = own /\ Apart(own)
      BY <1>11, <2>2, <2>5
    <3>2. Seen(x) # <<>>
      BY <1>5, <2>5
    <3>3. Head(Seen(x)).t = own /\ TellsIn(ledger, Now(own), Head(Seen(x)))
      BY <1>9, <1>12, <3>1, <3>2
    <3>4. q.verdict = Head(Seen(x)).verdict /\ q.ended = Head(Seen(x)).ended
      BY <1>5, <2>5
    <3> HIDE DEF Now, t, q
    <3>5. SameFact(Head(Seen(x)), q)
      BY <2>2, <3>1, <3>3, <3>4 DEF SameFact
    <3>6. TellsIn(ledger', Now(own), q)
      BY <2>4, <3>1, <3>3, <3>5, TellsSame
    <3> QED BY <2>2, <3>1, <3>6 DEF q
  <2>6. CASE i # id
    <3>1. t # own
      BY <1>8, <1>10, <2>2, <2>6
    <3>2. Now(t) = Verdicts(t)
      BY <1>3, <3>1 DEF own
    <3>3. q.verdict = r.verdict
      BY <1>5, <2>6
    <3>4. CASE q.ended = r.ended
      <4> HIDE DEF Now, q, r
      <4>1. r.t = t
        BY DEF r
      <4> HIDE DEF t
      <4>2. SameFact(r, q)
        BY <2>2, <3>3, <3>4, <4>1 DEF SameFact
      <4>3. TellsIn(ledger', Now(t), q)
        BY <2>3, <2>4, <3>2, <4>2, TellsSame
      <4> QED BY <2>2, <4>3 DEF q
    <3>5. CASE i \in RivalsOf(x) /\ ~q.ended
      <4> DEFINE u == ledger[x].snap.rivals[i]
      <4>1. KeepsTriple(i, u.t) /\ RivalTells(x, i, u)
        BY <3>5 DEF FactInv, IdsKeep, RivalsTell
      <4>2. u.t = t
        BY <2>2, <4>1 DEF KeepsTriple
      <4>3. u.t \in TriplesOf(x)
        BY <3>5 DEF TriplesOf
      <4>4. VerdictsBefore(t, x) = Now(t)
        BY <1>1, <4>2, <4>3
      <4> HIDE DEF u, q, r, Now
      <4>5. TellsIn(ledger, Now(t), u) /\ ~u.ended
        BY <2>2, <4>1, <4>2, <4>4 DEF RivalTells
      <4>6. TellsIn(ledger, Now(t), r)
        BY <2>3, <3>2
      <4> HIDE DEF t
      <4>7. TellsIn(ledger', Now(t), q)
        BY <2>4, <3>3, <3>5, <4>5, <4>6, TellsBoth
      <4> QED BY <2>2, <4>7 DEF q
    <3> QED BY <1>5, <2>6, <3>4, <3>5
  <2> QED BY <2>5, <2>6
<1>17. SeenTell'
  <2> DEFINE Tells(n) ==
    IF Seen(n) = <<>> THEN Apart(ledger[n].what.t) => VerdictsBefore(ledger[n].what.t, n) = {}
    ELSE /\ Head(Seen(n)).t = ledger[n].what.t
         /\ Apart(ledger[n].what.t) =>
              TellsIn(ledger', VerdictsBefore(ledger[n].what.t, n), Head(Seen(n)))
  <2>1. ASSUME NEW n \in Ruled \ {x} PROVE Tells(n)
    <3> DEFINE t == ledger[n].what.t
    <3>1. IF Seen(n) = <<>> THEN Apart(t) => VerdictsBefore(t, n) = {}
          ELSE /\ Head(Seen(n)).t = t
               /\ Apart(t) => TellsIn(ledger, VerdictsBefore(t, n), Head(Seen(n)))
      BY DEF FactInv, SeenTell
    <3>2. \A m \in VerdictsBefore(t, n) : ledger'[m] = ledger[m]
      <4>1. t \in TriplesOf(n)
        BY DEF TriplesOf
      <4> HIDE DEF t
      <4> QED BY <1>1, <1>4, <4>1
    <3> HIDE DEF t
    <3>3. Apart(t) /\ Seen(n) # <<>> => TellsIn(ledger', VerdictsBefore(t, n), Head(Seen(n)))
      BY <1>13, <3>1, <3>2, TellsSame
    <3> QED BY <3>1, <3>3 DEF t
  <2>2. \A n \in Ruled \ {x} : ledger[n].what.t \in TriplesOf(n)
    BY DEF TriplesOf
  <2> QED BY <1>1, <1>2, <2>1, <2>2 DEF SeenTell
<1>18. RivalsTell'
  <2> DEFINE Tells(n, i, r) == /\ i # ledger[n].snap.id /\ ~r.ended
                               /\ Apart(r.t) => TellsIn(ledger', VerdictsBefore(r.t, n), r)
  <2>1. ASSUME NEW n \in Ruled \ {x}, NEW i \in RivalsOf(n) PROVE Tells(n, i, ledger[n].snap.rivals[i])
    <3> DEFINE r == ledger[n].snap.rivals[i]
    <3>1. RivalTells(n, i, r)
      BY DEF FactInv, RivalsTell
    <3>2. \A m \in VerdictsBefore(r.t, n) : ledger'[m] = ledger[m]
      <4>1. r.t \in TriplesOf(n)
        BY DEF TriplesOf
      <4> HIDE DEF r
      <4> QED BY <1>1, <1>4, <4>1
    <3> HIDE DEF r
    <3>3. Apart(r.t) => TellsIn(ledger', VerdictsBefore(r.t, n), r)
      BY <1>13, <3>1, <3>2, TellsSame DEF RivalTells
    <3> QED BY <3>1, <3>3 DEF RivalTells, r
  <2>2. \A n \in Ruled \ {x} : \A i \in RivalsOf(n) : ledger[n].snap.rivals[i].t \in TriplesOf(n)
    BY DEF TriplesOf
  <2> QED BY <1>1, <1>2, <2>1, <2>2 DEF RivalsTell, RivalTells
<1>19. IdsKeep'
  <2>1. ASSUME NEW i, NEW t, KeepsTriple(i, t) PROVE KeepsTriple(i, t)'
    <3>1. i \in Nat /\ i < graph'.next
      BY <1>5, <2>1 DEF KeepsTriple
    <3>2. ASSUME i \in DOMAIN graph'.rows PROVE i \in DOMAIN graph.rows /\ graph'.rows[i].t = graph.rows[i].t
      BY <1>7, <3>2
    <3> QED BY <1>2, <2>1, <3>1, <3>2 DEF KeepsTriple
  <2>2. \A n \in Ruled : /\ KeepsTriple(ledger[n].snap.id, ledger[n].what.t)
                         /\ \A i \in RivalsOf(n) : KeepsTriple(i, ledger[n].snap.rivals[i].t)
    BY DEF FactInv, IdsKeep
  <2>3. \A n \in Ruled \ {x} : /\ KeepsTriple(ledger[n].snap.id, ledger[n].what.t)'
                               /\ \A i \in RivalsOf(n) : KeepsTriple(i, ledger[n].snap.rivals[i].t)'
    BY <1>1, <2>1, <2>2
  <2> QED BY <1>1, <2>3 DEF IdsKeep
<1> QED BY <1>15, <1>16, <1>17, <1>18, <1>19 DEF FactInv

-----------------------------------------------------------------------------
(* Where entities are, and which were ever merged. *)

(* The entities of merges: those the ledger has numbered, and those in effect. *)
Displaced == {e \in Ent : mergedInto[e] # e}

(* The same set, told by these two parts, before and after a step. *)
LEMMA EverMergedParts ==
  /\ \A y : y \in EverMerged <=>
       \/ \E n \in Numbered : ledger[n].what.op = "merge" /\ y \in EntitiesOf(ledger[n].what)
       \/ \E e \in Displaced : y \in {e, mergedInto[e]}
  /\ \A y : y \in EverMerged' <=>
       \/ \E n \in Numbered' : ledger'[n].what.op = "merge" /\ y \in EntitiesOf(ledger'[n].what)
       \/ \E e \in Displaced' : y \in {e, mergedInto'[e]}
BY DEF EverMerged, Numbered, Displaced

(* They stay such entities, whatever becomes of the places. *)
LEMMA EverMergedStay ==
  ASSUME NumbersStay, \A e \in Displaced : {e, mergedInto[e]} \subseteq EverMerged'
  PROVE  EverMerged \subseteq EverMerged'
<1>1. SUFFICES ASSUME NEW y \in EverMerged PROVE y \in EverMerged'
  OBVIOUS
<1>2. CASE \E n \in Numbered : ledger[n].what.op = "merge" /\ y \in EntitiesOf(ledger[n].what)
  BY <1>2, EverMergedParts DEF NumbersStay
<1> QED BY <1>1, <1>2, EverMergedParts

(* An entity stays where it is in a step that merges nothing ... *)
SameHomes ==
  /\ mergedInto' = mergedInto /\ graph'.ents = graph.ents
  /\ What("merge")' = What("merge") /\ \A k \in What("merge") : ledger'[k] = ledger[k]

(* Then it does, and the entities of merges stay such entities. *)
LEMMA HomesStay ==
  ASSUME HomeInv, NumbersStay, SameHomes
  PROVE  HomeInv' /\ EverMerged \subseteq EverMerged'
<1>1. HomeInv'
  BY DEF HomeInv, SameHomes
<1>2. Displaced' = Displaced /\ mergedInto' = mergedInto
  BY DEF Displaced, SameHomes
<1> QED BY <1>1, <1>2, EverMergedStay, EverMergedParts

(* ... is in the winner after a merge, by whomever ... *)
LEMMA HomesMerge ==
  ASSUME HomeInv, NumbersStay, MergedOnce,
         NEW l \in graph.ents, NEW w \in Ent, l # w, graph.ents \subseteq Ent,
         mergedInto' = [mergedInto EXCEPT ![l] = w], graph'.ents = graph.ents \ {l},
         \A k \in What("merge")' : \/ ledger'[k].snap.loser = l /\ ledger'[k].snap.winner = w
                                   \/ k \in What("merge") /\ ledger'[k] = ledger[k]
  PROVE  HomeInv' /\ EverMerged \subseteq EverMerged' /\ l \in EverMerged' /\ w \in EverMerged'
<1>1. /\ mergedInto \in [Ent -> Ent] /\ l \in Ent /\ mergedInto[l] = l
      /\ \A e \in graph.ents : mergedInto[e] = e
      /\ \A k \in What("merge") : /\ mergedInto[ledger[k].snap.loser] = ledger[k].snap.winner
                                  /\ ledger[k].snap.loser # l
  BY DEF HomeInv, MergedOnce
<1>2. /\ mergedInto' \in [Ent -> Ent] /\ mergedInto'[l] = w
      /\ \A e : e # l => mergedInto'[e] = mergedInto[e]
  BY <1>1
<1>3. HomeInv'
  <2>1. \A e \in graph'.ents : mergedInto'[e] = e
    BY <1>1, <1>2
  <2>2. \A k \in What("merge")' : mergedInto'[ledger'[k].snap.loser] = ledger'[k].snap.winner
    BY <1>1, <1>2
  <2> QED BY <1>2, <2>1, <2>2 DEF HomeInv
<1>4. l \in Displaced' /\ \A e \in Displaced : e # l /\ e \in Displaced'
  BY <1>1, <1>2 DEF Displaced
<1>5. \A e \in Displaced : {e, mergedInto[e]} \subseteq EverMerged'
  BY <1>2, <1>4, EverMergedParts
<1> QED BY <1>2, <1>3, <1>4, <1>5, EverMergedParts, EverMergedStay

(* ... and by itself when the user's merge is undone. *)
LEMMA HomesUnmerge ==
  ASSUME BaseInv, HomeInv, NumbersStay, MergedOnce, NEW x \in What("merge"), Removes(x),
         NEW l, l = ledger[x].snap.loser, NEW w, w = ledger[x].snap.winner,
         mergedInto' = [mergedInto EXCEPT ![l] = l], graph'.ents = graph.ents \cup {l}
  PROVE  HomeInv' /\ EverMerged \subseteq EverMerged' /\ l \in EverMerged' /\ w \in EverMerged'
<1>1. /\ x \in Standing /\ x \in DOMAIN ledger /\ ledger[x].what.op = "merge" /\ ledger[x].order > 0
      /\ l \in Ent /\ w \in Ent
  BY Bases, OrderOfStanding DEF BaseInv
<1>2. l \in ledger[x].what.pair /\ w \in ledger[x].what.pair
  BY <1>1 DEF BaseInv, SnapsFit, SnapFits
<1>3. x \in Numbered' /\ ledger'[x].what.op = "merge" /\ {l, w} \subseteq EntitiesOf(ledger'[x].what)
  <2>1. x \in Numbered
    BY <1>1 DEF Numbered
  <2>2. x \in Numbered' /\ ledger'[x].what = ledger[x].what
    BY <2>1 DEF NumbersStay
  <2> QED BY <1>1, <1>2, <2>2 DEF EntitiesOf
<1>4. l \in EverMerged' /\ w \in EverMerged'
  BY <1>3, EverMergedParts
<1>5. /\ mergedInto \in [Ent -> Ent] /\ mergedInto[l] = w
      /\ \A e \in graph.ents : mergedInto[e] = e
      /\ \A k \in What("merge") : mergedInto[ledger[k].snap.loser] = ledger[k].snap.winner
      /\ \A k \in What("merge") \ {x} : ledger[k].snap.loser # l
  BY DEF HomeInv, MergedOnce
<1>6. /\ mergedInto' \in [Ent -> Ent] /\ mergedInto'[l] = l
      /\ \A e : e # l => mergedInto'[e] = mergedInto[e]
  BY <1>1, <1>5
<1>7. What("merge")' = What("merge") \ {x} /\ \A k \in What("merge") \ {x} : ledger'[k] = ledger[k]
  BY WhatRemoved, Bases DEF Removes
<1>8. HomeInv'
  <2>1. \A e \in graph'.ents : mergedInto'[e] = e
    BY <1>5, <1>6
  <2>2. \A k \in What("merge")' : mergedInto'[ledger'[k].snap.loser] = ledger'[k].snap.winner
    BY <1>5, <1>6, <1>7
  <2> QED BY <1>6, <2>1, <2>2 DEF HomeInv
<1>9. \A e \in Displaced : {e, mergedInto[e]} \subseteq EverMerged'
  <2>1. SUFFICES ASSUME NEW e \in Displaced, e # l PROVE {e, mergedInto[e]} \subseteq EverMerged'
    BY <1>4, <1>5
  <2>2. e \in Displaced' /\ mergedInto'[e] = mergedInto[e]
    BY <1>6, <2>1 DEF Displaced
  <2> QED BY <2>2, EverMergedParts
<1> QED BY <1>4, <1>8, <1>9, EverMergedStay

-----------------------------------------------------------------------------
(* Pairs told apart. *)
LEMMA PairsStill ==
  ASSUME PairInv, EverMerged \subseteq EverMerged', PairsOff(graph, graph', EverMerged'),
         What("not_same")' = What("not_same"), \A n \in What("not_same") : ledger'[n] = ledger[n]
  PROVE  PairInv'
<1>1. SUFFICES ASSUME NEW pair \in Pairs, pair \cap EverMerged' = {}
               PROVE  /\ pair \in graph'.pairs <=> \E n \in What("not_same") : ledger[n].what.pair = pair
                      /\ \A m, n \in What("not_same") :
                           ledger[m].what.pair = pair /\ ledger[n].what.pair = pair => m = n
  BY DEF PairInv
<1>2. pair \cap EverMerged = {} /\ (pair \in graph.pairs <=> pair \in graph'.pairs)
  BY <1>1 DEF PairsOff
<1> QED BY <1>2 DEF PairInv

(* A pair told apart has the new correction, and no other. *)
LEMMA PairAdded ==
  ASSUME PairInv, EverMerged \subseteq EverMerged', NEW x, NEW p, NEW s, Adds(x, p, s), p.op = "not_same",
         p.pair \notin graph.pairs, graph'.pairs = graph.pairs \cup {p.pair}
  PROVE  PairInv'
<1>1. What("not_same")' = What("not_same") \cup {x} /\ x \notin What("not_same")
      /\ ledger'[x].what = p /\ \A n \in What("not_same") : ledger'[n] = ledger[n]
  BY WhatAdded, EntryFields DEF Adds, What
<1>2. SUFFICES ASSUME NEW pair \in Pairs, pair \cap EverMerged' = {}
               PROVE  /\ pair \in graph'.pairs <=> \E n \in What("not_same") \cup {x} : ledger'[n].what.pair = pair
                      /\ \A m, n \in What("not_same") \cup {x} :
                           ledger'[m].what.pair = pair /\ ledger'[n].what.pair = pair => m = n
  BY <1>1 DEF PairInv
<1>3. /\ pair \in graph.pairs <=> \E n \in What("not_same") : ledger[n].what.pair = pair
      /\ \A m, n \in What("not_same") : ledger[m].what.pair = pair /\ ledger[n].what.pair = pair => m = n
  BY <1>2 DEF PairInv
<1> QED BY <1>1, <1>3

(* A pair no longer told apart has lost the only correction that said so. *)
LEMMA PairDropped ==
  ASSUME PairInv, EverMerged \subseteq EverMerged', NEW x \in What("not_same"), Removes(x),
         graph'.pairs = graph.pairs \ {ledger[x].what.pair}
  PROVE  PairInv'
<1>1. What("not_same")' = What("not_same") \ {x} /\ \A n \in What("not_same") \ {x} : ledger'[n] = ledger[n]
  BY WhatRemoved DEF Removes, What
<1>2. SUFFICES ASSUME NEW pair \in Pairs, pair \cap EverMerged' = {}
               PROVE  /\ pair \in graph'.pairs <=> \E n \in What("not_same") \ {x} : ledger[n].what.pair = pair
                      /\ \A m, n \in What("not_same") \ {x} :
                           ledger[m].what.pair = pair /\ ledger[n].what.pair = pair => m = n
  BY <1>1 DEF PairInv
<1>3. /\ pair \in graph.pairs <=> \E n \in What("not_same") : ledger[n].what.pair = pair
      /\ \A m, n \in What("not_same") : ledger[m].what.pair = pair /\ ledger[n].what.pair = pair => m = n
  BY <1>2 DEF PairInv
<1> QED BY <1>3

-----------------------------------------------------------------------------
(* The facts of entities that no merge has been about, step by step. *)
FactsNow == HomeInv /\ FactInv /\ PairInv

(* A step of the graph's pairs alone, or of nothing. *)
LEMMA NoPairs ==
  ASSUME graph'.pairs = graph.pairs
  PROVE  \A E : PairsOff(graph, graph', E)
BY DEF PairsOff

(* What is not of a kind keeps the kind's entries. *)
LEMMA OtherAdded ==
  ASSUME NEW x, NEW p, NEW s, Adds(x, p, s), NEW op, op # p.op
  PROVE  What(op)' = What(op) /\ \A n \in What(op) : ledger'[n] = ledger[n]
BY WhatAdded DEF Adds, What

(* The same when an entry of another kind is undone ... *)
LEMMA OtherRemoved ==
  ASSUME NEW x, Removes(x), NEW op, op # ledger[x].what.op
  PROVE  What(op)' = What(op) /\ \A n \in What(op) : ledger'[n] = ledger[n]
<1>1. x \notin What(op)
  BY DEF What
<1> QED BY <1>1, WhatRemoved DEF Removes, What

(* ... and when no entry is applied or undone. *)
LEMMA OtherLeft ==
  ASSUME Leaves, NEW op
  PROVE  What(op)' = What(op) /\ \A n \in What(op) : ledger'[n] = ledger[n]
BY DEF Leaves, What

(* Where no verdict is made or undone, the rows and pairs of other entities staying
   as they are is all it takes. *)
LEMMA NothingSaid ==
  ASSUME BaseInv, FactsNow, WellFormed(graph'), HomeInv', EverMerged \subseteq EverMerged',
         KeptOff(graph, graph', EverMerged'),
         \A op \in {"reject", "assert"} : What(op)' = What(op) /\ \A n \in What(op) : ledger'[n] = ledger[n]
  PROVE  HomeInv' /\ FactInv'
<1>1. Ruled' = Ruled /\ \A n \in Ruled : ledger'[n] = ledger[n]
  BY DEF Ruled
<1> QED BY <1>1, FactsStill DEF FactsNow

(* A step that leaves the graph leaves the facts. *)
LEMMA FactsWait ==
  ASSUME BaseInv, FactsNow, NumbersStay, Leaves, UNCHANGED <<graph, mergedInto>>
  PROVE  FactsNow'
<1>1. WellFormed(graph) /\ graph' = graph
  BY DEF BaseInv
<1>2. \A op : What(op)' = What(op) /\ \A n \in What(op) : ledger'[n] = ledger[n]
  BY OtherLeft
<1>3. SameHomes
  BY <1>2 DEF SameHomes
<1>4. HomeInv' /\ EverMerged \subseteq EverMerged'
  BY <1>3, HomesStay DEF FactsNow
<1>5. KeptOff(graph, graph', EverMerged') /\ PairsOff(graph, graph', EverMerged')
  BY <1>1, SameOff, NoPairs
<1>6. FactInv'
  BY <1>1, <1>2, <1>4, <1>5, NothingSaid
<1>7. PairInv'
  BY <1>2, <1>4, <1>5, PairsStill DEF FactsNow
<1> QED BY <1>4, <1>6, <1>7 DEF FactsNow

(* A field set leaves rows and pairs. *)
LEMMA SetFieldOnly ==
  ASSUME NEW g, WellFormed(g), NEW p, NEW done \in ApplySetField(g, p), NEW h, h = done.graph
  PROVE  h.ents = g.ents /\ h.rows = g.rows /\ h.next = g.next /\ h.pairs = g.pairs
<1>1. OfParts(g)
  BY GraphParts
<1> DEFINE L == g.locked \cup {p.e}
           S == [g EXCEPT !.org[p.e] = p.org, !.locked = L]
<1>2. h = [g EXCEPT !.org[p.e] = p.org, !.locked = @ \cup {p.e}]
  BY DEF ApplySetField
<1>3. h = S
  BY <1>1, <1>2 DEF OfParts
<1>4. HasSettings(S, g, [g.org EXCEPT ![p.e] = p.org], L, g.hidden)
  BY <1>1, SetOrg, Zenon
<1> HIDE DEF S, L
<1> QED BY <1>3, <1>4 DEF HasSettings

(* A merge takes the loser. *)
LEMMA MergedEnts ==
  ASSUME NEW g, WellFormed(g), NEW l \in g.ents, NEW w \in g.ents, l # w, NEW h, h = Merged(g, l, w)
  PROVE  h.ents = g.ents \ {l}
<1> DEFINE org == [[g.org EXCEPT ![w] = MergedOrg(g, l, w)] EXCEPT ![l] = Blank]
           hidden == [g.hidden EXCEPT ![l] = 0]
           pairs == MergedPairs(g, l, w)
<1>1. h = [ents |-> g.ents \ {l}, rows |-> h.rows, next |-> g.next, pairs |-> pairs,
           org |-> org, locked |-> g.locked \ {l}, hidden |-> hidden]
  BY MergedParts
<1> HIDE DEF org, hidden, pairs
<1> QED BY <1>1

(* A correction is made. *)
LEMMA FactsMade ==
  ASSUME BaseInv, WellFormed(graph'), MergedOnce, FactsNow, NumbersStay,
         NEW x, NEW p \in Request, NEW done, Makes(x, p, done)
  PROVE  FactsNow'
<1> DEFINE s == done.snap
<1>1. /\ done \in Applied(graph, p, NextOrder) /\ graph' = done.graph /\ Adds(x, p, s) /\ Loses(p, s)
      /\ WellFormed(graph) /\ HomeInv /\ FactInv /\ PairInv
  BY DEF Makes, BaseInv, FactsNow
<1>2. WellFormed(graph) /\ graph' = done.graph
  BY <1>1
<1>3. FactInv /\ Adds(x, p, s)
  BY <1>1
<1>4. \A op : op # p.op => What(op)' = What(op) /\ \A n \in What(op) : ledger'[n] = ledger[n]
  BY <1>1, OtherAdded
<1>5. ASSUME p.op # "merge", graph'.ents = graph.ents
      PROVE  HomeInv' /\ EverMerged \subseteq EverMerged'
  <2>1. SameHomes
    BY <1>1, <1>4, <1>5 DEF SameHomes, Loses
  <2> QED BY <1>1, <2>1, HomesStay
<1>6. ASSUME p.op \in {"not_same", "set_field", "hide"}, graph'.ents = graph.ents,
             graph'.rows = graph.rows, graph'.next = graph.next
      PROVE  HomeInv' /\ FactInv' /\ EverMerged \subseteq EverMerged'
  <2>1. HomeInv' /\ EverMerged \subseteq EverMerged'
    BY <1>5, <1>6
  <2>2. KeptOff(graph, graph', EverMerged')
    BY <1>1, <1>6, SameOff
  <2> QED BY <1>4, <1>6, <2>1, <2>2, NothingSaid
<1>7. ASSUME p.op # "not_same", graph'.pairs = graph.pairs, EverMerged \subseteq EverMerged'
      PROVE  PairInv'
  BY <1>1, <1>4, <1>7, NoPairs, PairsStill
<1>8. CASE p.op = "reject"
  <2>1. done \in ApplyReject(graph, p)
    BY <1>1, <1>8 DEF Applied
  <2>2. VerdictMade(graph, graph', p.t, "reject", s.id) /\ s.id \in DOMAIN graph.rows
        /\ s.was = graph.rows[s.id]
    BY <1>1, <2>1, RejectFacts
  <2>3. graph'.ents = graph.ents /\ graph'.pairs = graph.pairs
    BY <1>1, <2>1, RejectKeeps DEF OnlyRows
  <2>4. HomeInv' /\ EverMerged \subseteq EverMerged' /\ PairInv'
    BY <1>5, <1>7, <1>8, <2>3
  <2>5. SaysMore(x, p, s, <<s.was>>, {})
    BY <1>3, <1>8, <2>2 DEF SaysMore
  <2>6. FactInv'
    BY <1>3, <2>4, <2>5, FactsAdded
  <2> QED BY <2>4, <2>6 DEF FactsNow
<1>9. CASE p.op = "assert"
  <2>1. done \in ApplyAssert(graph, p)
    BY <1>1, <1>9 DEF Applied
  <2>2. p.t \in Ent \X (Singletons \cup Accumulating) \X Ent /\ p.from \in Nat
    BY <1>9, RequestParts
  <2>3. /\ VerdictMade(graph, graph', p.t, "assert", s.id)
        /\ IF s.prior = <<>> THEN s.id \notin DOMAIN graph.rows
           ELSE s.id \in DOMAIN graph.rows /\ Head(s.prior) = graph.rows[s.id]
        /\ \A i \in DOMAIN s.rivals : /\ i \in DOMAIN graph.rows /\ s.rivals[i] = graph.rows[i]
                                      /\ i # s.id /\ ~graph.rows[i].ended
    BY <1>1, <1>9, <2>1, <2>2, AssertFacts
  <2>4. graph'.ents = graph.ents /\ graph'.pairs = graph.pairs
    BY <1>1, <1>9, <2>1, <2>2, AssertKeeps DEF OnlyRows
  <2>5. HomeInv' /\ EverMerged \subseteq EverMerged' /\ PairInv'
    BY <1>5, <1>7, <1>9, <2>4
  <2>6. SaysMore(x, p, s, s.prior, DOMAIN s.rivals)
    BY <1>3, <1>9, <2>3 DEF SaysMore
  <2>7. FactInv'
    BY <1>3, <2>5, <2>6, FactsAdded
  <2> QED BY <2>5, <2>7 DEF FactsNow
<1>10. CASE p.op = "not_same"
  <2>1. done \in ApplyNotSame(graph, p)
    BY <1>1, <1>10 DEF Applied
  <2>2. /\ p.pair \notin graph.pairs /\ graph'.pairs = graph.pairs \cup {p.pair}
        /\ graph'.ents = graph.ents /\ graph'.rows = graph.rows /\ graph'.next = graph.next
    BY <1>1, <2>1 DEF ApplyNotSame, WellFormed
  <2>3. HomeInv' /\ FactInv' /\ EverMerged \subseteq EverMerged'
    BY <1>6, <1>10, <2>2
  <2>4. PairInv'
    BY <1>1, <1>10, <2>2, <2>3, PairAdded
  <2> QED BY <2>3, <2>4 DEF FactsNow
<1>11. CASE p.op = "set_field"
  <2>1. done \in ApplySetField(graph, p)
    BY <1>1, <1>11 DEF Applied
  <2>2. /\ graph'.pairs = graph.pairs
        /\ graph'.ents = graph.ents /\ graph'.rows = graph.rows /\ graph'.next = graph.next
    BY <1>2, <2>1, SetFieldOnly
  <2>3. HomeInv' /\ FactInv' /\ EverMerged \subseteq EverMerged'
    BY <1>6, <1>11, <2>2
  <2> QED BY <1>7, <1>11, <2>2, <2>3 DEF FactsNow
<1>12. CASE p.op = "hide"
  <2>1. done \in ApplyHide(graph, p, NextOrder)
    BY <1>1, <1>12 DEF Applied
  <2>2. /\ graph'.pairs = graph.pairs
        /\ graph'.ents = graph.ents /\ graph'.rows = graph.rows /\ graph'.next = graph.next
    BY <1>1, <2>1 DEF ApplyHide, WellFormed
  <2>3. HomeInv' /\ FactInv' /\ EverMerged \subseteq EverMerged'
    BY <1>6, <1>12, <2>2
  <2> QED BY <1>7, <1>12, <2>2, <2>3 DEF FactsNow
<1>13. CASE p.op = "merge"
  <2> DEFINE l == s.loser
             w == s.winner
  <2>1. done \in ApplyMerge(graph, p) /\ p.pair \in Pairs
    BY <1>1, <1>13, RequestParts DEF Applied
  <2>2. PICK y \in p.pair : /\ p.pair \subseteq graph.ents
                           /\ done = [graph |-> Merged(graph, y, CHOOSE z \in p.pair : z # y),
                                      snap |-> Snapshot(graph, y, CHOOSE z \in p.pair : z # y)]
    BY <2>1 DEF ApplyMerge
  <2>3. graph' = Merged(graph, l, w) /\ l = y /\ w = CHOOSE z \in p.pair : z # l
    <3>1. /\ done.graph = Merged(graph, y, CHOOSE z \in p.pair : z # y)
          /\ s = Snapshot(graph, y, CHOOSE z \in p.pair : z # y)
      BY <2>2
    <3>2. l = y /\ w = CHOOSE z \in p.pair : z # y
      BY <3>1, SnapshotParts
    <3> QED BY <1>2, <3>1, <3>2
  <2>4. mergedInto' = [mergedInto EXCEPT ![l] = w]
    BY <1>1, <1>13 DEF Loses
  <2>5. What("merge")' = What("merge") \cup {x} /\ ledger'[x].snap = s
        /\ \A k \in What("merge") : ledger'[k] = ledger[k]
    BY <1>1, <1>13, WhatAdded, EntryFields DEF Adds, What
  <2> HIDE DEF l, w
  <2>6. l \in graph.ents /\ w \in graph.ents /\ l # w
    BY <2>1, <2>2, <2>3, OtherOfPair
  <2>7. graph' = Merged(graph, l, w)
    BY <2>3
  <2>8. graph'.ents = graph.ents \ {l} /\ graph.ents \subseteq Ent
    <3>1. graph.ents \subseteq Ent
      BY <1>2 DEF WellFormed
    <3>2. graph'.ents = graph.ents \ {l}
      BY <1>2, <2>6, <2>7, MergedEnts
    <3> QED BY <3>1, <3>2
  <2>9. \A k \in What("merge")' : \/ ledger'[k].snap.loser = l /\ ledger'[k].snap.winner = w
                                  \/ k \in What("merge") /\ ledger'[k] = ledger[k]
    BY <2>5 DEF l, w
  <2>10. HomeInv' /\ EverMerged \subseteq EverMerged' /\ l \in EverMerged' /\ w \in EverMerged'
    BY <1>1, <2>6, <2>8, <2>4, <2>9, HomesMerge
  <2>11. KeptOff(graph, graph', EverMerged') /\ PairsOff(graph, graph', EverMerged')
    BY <1>2, <2>6, <2>7, <2>10, MergeOff
  <2>12. FactInv'
    BY <1>4, <1>13, <2>10, <2>11, NothingSaid
  <2>13. PairInv'
    BY <1>1, <1>4, <1>13, <2>10, <2>11, PairsStill
  <2> QED BY <2>10, <2>12, <2>13 DEF FactsNow
<1> QED BY <1>8, <1>9, <1>10, <1>11, <1>12, <1>13, RequestParts

(* Undoing a correction of a pair leaves the rows, one of a field or a hide the pairs
   too. *)
LEMMA UndonePair ==
  ASSUME NEW g, WellFormed(g), NEW p, NEW h \in UndoNotSame(g, p)
  PROVE  h.rows = g.rows /\ h.next = g.next /\ h.pairs = g.pairs \ {p.pair}
<1>1. OfParts(g)
  BY GraphParts
<1>2. g = [ents |-> g.ents, rows |-> g.rows, next |-> g.next, pairs |-> g.pairs,
           org |-> g.org, locked |-> g.locked, hidden |-> g.hidden]
  BY <1>1 DEF OfParts
<1>3. h = [g EXCEPT !.pairs = @ \ {p.pair}]
  BY DEF UndoNotSame
<1> QED BY <1>2, <1>3

(* Undoing a field or a hide changes no row and no pair. *)
LEMMA UndoneOnly ==
  ASSUME NEW g, WellFormed(g), NEW p, NEW s, NEW h
  PROVE  /\ h \in UndoSetField(g, p, s) => h.rows = g.rows /\ h.next = g.next /\ h.pairs = g.pairs
         /\ h \in UndoHide(g, p, s) => h.rows = g.rows /\ h.next = g.next /\ h.pairs = g.pairs
<1>1. OfParts(g)
  BY GraphParts
<1>2. ASSUME h \in UndoSetField(g, p, s)
      PROVE  h.rows = g.rows /\ h.next = g.next /\ h.pairs = g.pairs
  <2> DEFINE L == IF s.hadLock THEN g.locked ELSE g.locked \ {p.e}
  <2>1. h = [g EXCEPT !.org[p.e] = s.was, !.locked = IF s.hadLock THEN @ ELSE @ \ {p.e}]
    BY <1>2 DEF UndoSetField
  <2>2. h = [g EXCEPT !.org[p.e] = s.was, !.locked = L]
    BY <1>1, <2>1 DEF OfParts
  <2> HIDE DEF L
  <2>3. HasSettings([g EXCEPT !.org[p.e] = s.was, !.locked = L], g, [g.org EXCEPT ![p.e] = s.was], L, g.hidden)
    BY <1>1, SetOrg, Zenon
  <2>4. HasSettings(h, g, [g.org EXCEPT ![p.e] = s.was], L, g.hidden)
    BY <2>2, <2>3, Zenon
  <2> QED BY <2>4 DEF HasSettings
<1>3. ASSUME h \in UndoHide(g, p, s)
      PROVE  h.rows = g.rows /\ h.next = g.next /\ h.pairs = g.pairs
  <2>1. h = [g EXCEPT !.hidden[p.e] = s.was]
    BY <1>3 DEF UndoHide
  <2>2. HasSettings(h, g, g.org, g.locked, [g.hidden EXCEPT ![p.e] = s.was])
    BY <1>1, <2>1, SetHidden, Zenon
  <2> QED BY <2>2 DEF HasSettings
<1> QED BY <1>2, <1>3

(* A correction is undone. *)
LEMMA FactsTaken ==
  ASSUME BaseInv, WellFormed(graph'), MergedOnce, FactsNow, NumbersStay, NEW x \in Standing, Takes(x)
  PROVE  FactsNow'
<1> DEFINE p == ledger[x].what
           s == ledger[x].snap
<1>1. /\ graph' \in Undone(graph, p, s) /\ Removes(x) /\ ~Blocked(x)
      /\ mergedInto' = IF p.op # "merge" THEN mergedInto ELSE [mergedInto EXCEPT ![s.loser] = s.loser]
      /\ UNCHANGED <<userEdited, raced>>
  BY DEF Takes, UsersStill
<1>2. /\ WellFormed(graph) /\ HomeInv /\ FactInv /\ PairInv /\ p \in Request /\ SnapFits(x)
  BY OrderOfStanding DEF BaseInv, FactsNow, SnapsFit
<1>3. \A op : op # p.op => What(op)' = What(op) /\ \A n \in What(op) : ledger'[n] = ledger[n]
  BY <1>1, OtherRemoved
<1>4. x \in What(p.op)
  BY DEF What
<1>5. /\ p.op # "merge" => graph'.ents = graph.ents
      /\ p.op = "merge" => graph'.ents = graph.ents \cup {s.loser}
  <2>1. Idle \/ DropsField(x) \/ DropsHide(x) \/ DropsMerge(x)
    BY <1>1, UndoneEffect
  <2>2. CASE Idle
    <3>1. p.op # "merge"
      BY <1>1, <1>4, <2>2, WhatRemoved DEF Idle
    <3> QED BY <2>2, <3>1 DEF Idle, SettingsKept
  <2>3. CASE DropsField(x) \/ DropsHide(x)
    BY <2>3 DEF DropsField, DropsHide
  <2>4. CASE DropsMerge(x)
    BY <2>4 DEF DropsMerge
  <2> QED BY <2>1, <2>2, <2>3, <2>4
<1>6. ASSUME p.op # "merge"
      PROVE  HomeInv' /\ EverMerged \subseteq EverMerged'
  <2>1. SameHomes
    BY <1>1, <1>3, <1>5, <1>6 DEF SameHomes
  <2> QED BY <1>2, <2>1, HomesStay
<1>7. ASSUME p.op \in {"not_same", "set_field", "hide"}, graph'.rows = graph.rows, graph'.next = graph.next
      PROVE  HomeInv' /\ FactInv' /\ EverMerged \subseteq EverMerged'
  <2>1. HomeInv' /\ EverMerged \subseteq EverMerged'
    BY <1>6, <1>7
  <2>2. KeptOff(graph, graph', EverMerged')
    BY <1>2, <1>7, SameOff
  <2> QED BY <1>3, <1>7, <2>1, <2>2, NothingSaid
<1>8. ASSUME p.op # "not_same", graph'.pairs = graph.pairs, EverMerged \subseteq EverMerged'
      PROVE  PairInv'
  BY <1>2, <1>3, <1>8, NoPairs, PairsStill
<1>9. CASE p.op = "reject"
  <2>1. graph' \in UndoReject(graph, s) /\ s.was \in Rows
    BY <1>1, <1>2, <1>9 DEF Undone, SnapFits
  <2>2. VerdictUndone(graph, graph', s.id, <<s.was>>, {})
    BY <1>2, <2>1, RejectUndone
  <2>3. Seen(x) = <<s.was>> /\ RivalsOf(x) = {} /\ x \in Ruled
    BY <1>4, <1>9 DEF Seen, RivalsOf, Ruled
  <2>4. graph'.pairs = graph.pairs
    BY <2>2 DEF VerdictUndone
  <2>5. HomeInv' /\ EverMerged \subseteq EverMerged' /\ PairInv'
    BY <1>6, <1>8, <1>9, <2>4
  <2>6. VerdictUndone(graph, graph', s.id, Seen(x), RivalsOf(x))
    BY <2>2, <2>3
  <2>7. FactInv'
    BY <1>1, <1>2, <2>3, <2>5, <2>6, FactsDropped
  <2> QED BY <2>5, <2>7 DEF FactsNow
<1>10. CASE p.op = "assert"
  <2>1. graph' \in UndoAssert(graph, s)
    BY <1>1, <1>10 DEF Undone
  <2>2. /\ s.prior # <<>> => Head(s.prior) \in Rows
        /\ \A i \in DOMAIN s.rivals : s.rivals[i] \in Rows
    BY <1>2, <1>10 DEF SnapFits
  <2>3. Seen(x) = s.prior /\ RivalsOf(x) = DOMAIN s.rivals /\ x \in Ruled
    BY <1>4, <1>10 DEF Seen, RivalsOf, Ruled
  <2>4. \A i \in DOMAIN s.rivals : i # s.id /\ ~s.rivals[i].ended
    BY <1>2, <2>3 DEF FactInv, RivalsTell, RivalTells
  <2>5. VerdictUndone(graph, graph', s.id, s.prior, DOMAIN s.rivals)
    BY <1>2, <2>1, <2>2, <2>4, AssertUndone
  <2>6. graph'.pairs = graph.pairs
    BY <2>5 DEF VerdictUndone
  <2>7. HomeInv' /\ EverMerged \subseteq EverMerged' /\ PairInv'
    BY <1>6, <1>8, <1>10, <2>6
  <2>8. VerdictUndone(graph, graph', s.id, Seen(x), RivalsOf(x))
    BY <2>3, <2>5
  <2>9. FactInv'
    BY <1>1, <1>2, <2>3, <2>7, <2>8, FactsDropped
  <2> QED BY <2>7, <2>9 DEF FactsNow
<1>11. CASE p.op = "not_same"
  <2>1. graph' \in UndoNotSame(graph, p)
    BY <1>1, <1>11 DEF Undone
  <2>2. graph'.rows = graph.rows /\ graph'.next = graph.next /\ graph'.pairs = graph.pairs \ {p.pair}
    BY <1>2, <2>1, UndonePair
  <2>3. HomeInv' /\ FactInv' /\ EverMerged \subseteq EverMerged'
    BY <1>7, <1>11, <2>2
  <2>4. x \in What("not_same") /\ Removes(x) /\ PairInv /\ graph'.pairs = graph.pairs \ {ledger[x].what.pair}
    BY <1>1, <1>2, <1>4, <1>11, <2>2
  <2>5. PairInv'
    BY <2>3, <2>4, PairDropped
  <2> QED BY <2>3, <2>5 DEF FactsNow
<1>12. CASE p.op \in {"set_field", "hide"}
  <2>1. graph' \in UndoSetField(graph, p, s) \/ graph' \in UndoHide(graph, p, s)
    BY <1>1, <1>12 DEF Undone
  <2>2. graph'.rows = graph.rows /\ graph'.next = graph.next /\ graph'.pairs = graph.pairs
    BY <1>2, <2>1, UndoneOnly
  <2>3. HomeInv' /\ FactInv' /\ EverMerged \subseteq EverMerged'
    BY <1>7, <1>12, <2>2
  <2> QED BY <1>8, <1>12, <2>2, <2>3 DEF FactsNow
<1>13. CASE p.op = "merge"
  <2> DEFINE l == s.loser
             w == s.winner
  <2>1. graph' \in UndoMerge(graph, s) /\ MergeSnap(s, graph.next)
    BY <1>1, <1>2, <1>13 DEF Undone, SnapFits
  <2>2. x \in What("merge") /\ mergedInto' = [mergedInto EXCEPT ![l] = l] /\ graph'.ents = graph.ents \cup {l}
    BY <1>1, <1>4, <1>5, <1>13
  <2>3. HomeInv' /\ EverMerged \subseteq EverMerged' /\ l \in EverMerged' /\ w \in EverMerged'
    BY <1>1, <1>2, <2>2, HomesUnmerge
  <2>4. KeptOff(graph, graph', EverMerged') /\ PairsOff(graph, graph', EverMerged')
    BY <1>2, <2>1, <2>3, UnmergeOff
  <2>5. FactInv'
    BY <1>3, <1>13, <2>3, <2>4, NothingSaid
  <2>6. PairInv'
    BY <1>2, <1>3, <1>13, <2>3, <2>4, PairsStill
  <2> QED BY <2>3, <2>5, <2>6 DEF FactsNow
<1> QED BY <1>2, <1>9, <1>10, <1>11, <1>12, <1>13, RequestParts

(* The other writers write, and merge. *)
LEMMA FactsOthers ==
  ASSUME CorrectionsAssumption, BaseInv, WellFormed(graph'), MergedOnce, FactsNow, NumbersStay, Others
  PROVE  FactsNow'
<1>1. /\ WellFormed(graph) /\ HomeInv /\ FactInv /\ PairInv /\ graph.ents \subseteq Ent
      /\ ChecksShape /\ OfParts(graph)
  BY DEF BaseInv, FactsNow, WellFormed, OfParts
<1>2. Leaves
  <2>1. ledger' = ledger
    BY DEF Others, Observe, WriteField, EditField, HideOnGraph, CheckMerge, MergeChecked, Another
  <2> QED BY <2>1 DEF Leaves, Standing
<1>3. \A op : What(op)' = What(op) /\ \A n \in What(op) : ledger'[n] = ledger[n]
  BY <1>2, OtherLeft
<1>4. ASSUME graph'.ents = graph.ents, graph'.pairs = graph.pairs, mergedInto' = mergedInto,
             \A E : KeptOff(graph, graph', E)
      PROVE  FactsNow'
  <2>1. SameHomes
    BY <1>3, <1>4 DEF SameHomes
  <2>2. HomeInv' /\ EverMerged \subseteq EverMerged'
    BY <1>1, <2>1, HomesStay
  <2>3. FactInv'
    BY <1>3, <1>4, <2>2, NothingSaid
  <2>4. PairInv'
    BY <1>1, <1>3, <1>4, <2>2, NoPairs, PairsStill
  <2> QED BY <2>2, <2>3, <2>4 DEF FactsNow
<1>5. ASSUME graph'.ents = graph.ents, graph'.rows = graph.rows, graph'.next = graph.next,
             graph'.pairs = graph.pairs, mergedInto' = mergedInto
      PROVE  FactsNow'
  BY <1>1, <1>4, <1>5, SameOff
<1>6. CASE \E seen \in Sightings : Observe(seen)
  <2>1. PICK seen \in Sightings : Observe(seen)
    BY <1>6
  <2>2. /\ seen.t \in Relations /\ seen.from \in Nat /\ seen.t[1] \in graph.ents /\ seen.t[3] \in graph.ents
        /\ graph' = Upserted(graph, seen.t, seen.from) \/ graph' = Derived(graph, seen.t, seen.from)
        /\ mergedInto' = mergedInto
    BY <2>1 DEF CorrectionsAssumption, Observe
  <2>3. OnlyRows(graph, graph')
    BY <1>1, <2>2, UpsertKeeps, DerivedKeeps
  <2>4. RowsStay(graph, graph')
    BY <1>1, <2>2, UpsertFacts, DerivedFacts
  <2>5. \A E : KeptOff(graph, graph', E)
    BY <2>3, <2>4, StayOff DEF OnlyRows
  <2> QED BY <1>4, <2>2, <2>3, <2>5 DEF OnlyRows
<1>7. CASE \E e \in Touched, v \in Orgs : WriteField(e, v) \/ EditField(e, v)
  <2>1. PICK e \in Touched, v \in Orgs : WriteField(e, v) \/ EditField(e, v)
    BY <1>7
  <2>2. graph' = [graph EXCEPT !.org[e] = v] /\ mergedInto' = mergedInto
    BY <2>1 DEF WriteField, EditField
  <2>3. HasSettings(graph', graph, [graph.org EXCEPT ![e] = v], graph.locked, graph.hidden)
    BY <1>1, <2>2, SetOrg, Zenon
  <2>4. /\ graph'.ents = graph.ents /\ graph'.rows = graph.rows /\ graph'.next = graph.next
        /\ graph'.pairs = graph.pairs
    BY <2>3 DEF HasSettings
  <2> QED BY <1>5, <2>2, <2>4
<1>8. CASE \E e \in Touched : HideOnGraph(e)
  <2>1. PICK e \in Touched : HideOnGraph(e)
    BY <1>8
  <2>2. graph' = [graph EXCEPT !.hidden[e] = OnGraph] /\ mergedInto' = mergedInto
    BY <2>1 DEF HideOnGraph
  <2>3. HasSettings(graph', graph, graph.org, graph.locked, [graph.hidden EXCEPT ![e] = OnGraph])
    BY <1>1, <2>2, SetHidden, Zenon
  <2>4. /\ graph'.ents = graph.ents /\ graph'.rows = graph.rows /\ graph'.next = graph.next
        /\ graph'.pairs = graph.pairs
    BY <2>3 DEF HasSettings
  <2> QED BY <1>5, <2>2, <2>4
<1>9. CASE \E pair \in Mergeable, automated \in BOOLEAN : CheckMerge(pair, automated)
  BY <1>5, <1>9 DEF CheckMerge
<1>10. CASE MergeChecked
  <2>1. CASE UNCHANGED <<graph, mergedInto>>
    BY <1>5, <2>1
  <2>2. CASE ~UNCHANGED <<graph, mergedInto>>
    <3>1. PICK c \in checked :
            \E l \in c.pair : LET w == CHOOSE x \in c.pair : x # l IN
               /\ c.pair \subseteq graph.ents
               /\ graph' = Merged(graph, l, w)
               /\ mergedInto' = [mergedInto EXCEPT ![l] = w]
      BY <1>10, <2>2 DEF MergeChecked
    <3>2. PICK l \in c.pair : LET w == CHOOSE x \in c.pair : x # l IN
               /\ c.pair \subseteq graph.ents
               /\ graph' = Merged(graph, l, w)
               /\ mergedInto' = [mergedInto EXCEPT ![l] = w]
      BY <3>1
    <3> DEFINE w == CHOOSE x \in c.pair : x # l
    <3>3. /\ c.pair \subseteq graph.ents
          /\ graph' = Merged(graph, l, w)
          /\ mergedInto' = [mergedInto EXCEPT ![l] = w]
      BY <3>2
    <3>4. c.pair \in Pairs
      BY <1>1 DEF ChecksShape
    <3>5. w \in c.pair /\ w # l /\ w \in Ent
      BY <3>4, OtherOfPair
    <3> HIDE DEF w
    <3>6. l \in graph.ents /\ w \in graph.ents
      BY <3>3, <3>5
    <3>7. graph'.ents = graph.ents \ {l}
      BY <1>1, <3>3, <3>5, <3>6, MergedEnts
    <3>8. \A k \in What("merge")' : \/ ledger'[k].snap.loser = l /\ ledger'[k].snap.winner = w
                                    \/ k \in What("merge") /\ ledger'[k] = ledger[k]
      BY <1>3
    <3>9. HomeInv' /\ EverMerged \subseteq EverMerged' /\ l \in EverMerged' /\ w \in EverMerged'
      BY <1>1, <3>3, <3>5, <3>6, <3>7, <3>8, HomesMerge
    <3>10. KeptOff(graph, graph', EverMerged') /\ PairsOff(graph, graph', EverMerged')
      BY <1>1, <3>3, <3>5, <3>6, <3>9, MergeOff
    <3>11. FactInv'
      BY <1>3, <3>9, <3>10, NothingSaid
    <3>12. PairInv'
      BY <1>1, <1>3, <3>9, <3>10, PairsStill
    <3> QED BY <3>9, <3>11, <3>12 DEF FactsNow
  <2> QED BY <2>1, <2>2
<1> QED BY <1>6, <1>7, <1>8, <1>9, <1>10 DEF Others

(* Every step keeps the facts. *)
LEMMA FactsStep ==
  ASSUME CorrectionsAssumption, BaseInv, BaseInv', MergedOnce, FactsNow, [Next]_vars
  PROVE  FactsNow'
<1>1. CASE Next
  <2>1. /\ NumbersStay
        /\ \/ Waits
           \/ \E x, done : \E p \in Request : Makes(x, p, done)
           \/ \E n \in Standing : Takes(n)
           \/ Others
    BY <1>1, StepKinds DEF BaseInv
  <2>2. WellFormed(graph')
    BY DEF BaseInv
  <2>3. CASE Waits
    BY <2>1, <2>3, FactsWait DEF Waits
  <2>4. CASE \E x, done : \E p \in Request : Makes(x, p, done)
    BY <2>1, <2>2, <2>4, FactsMade
  <2>5. CASE \E n \in Standing : Takes(n)
    BY <2>1, <2>2, <2>5, FactsTaken
  <2>6. CASE Others
    BY <2>1, <2>2, <2>6, FactsOthers
  <2> QED BY <2>1, <2>3, <2>4, <2>5, <2>6
<1>2. CASE UNCHANGED vars
  <2>1. UNCHANGED <<graph, ledger, mergedInto>>
    BY <1>2 DEF vars
  <2>2. Leaves /\ NumbersStay
    BY <2>1 DEF Leaves, Standing, NumbersStay, Numbered
  <2> QED BY <2>1, <2>2, FactsWait
<1> QED BY <1>1, <1>2

(* They hold at the start: nothing was corrected or merged. *)
LEMMA FactsStart ==
  ASSUME CorrectionsAssumption, Init
  PROVE  FactsNow
<1>1. /\ graph = Initial /\ DOMAIN ledger = {} /\ mergedInto = [e \in Ent |-> e]
      /\ graph.pairs = {} /\ \A i \in DOMAIN graph.rows : graph.rows[i].verdict = ""
      /\ graph.ents \subseteq Ent
  <2>1. graph = Initial /\ DOMAIN ledger = {} /\ mergedInto = [e \in Ent |-> e]
    BY DEF Init
  <2>2. WellFormed(graph) /\ Uncorrected(graph)
    BY <2>1 DEF CorrectionsAssumption
  <2>3. graph.ents \subseteq Ent
    BY <2>2 DEF WellFormed
  <2> QED BY <2>1, <2>2, <2>3 DEF Uncorrected
<1>2. (\A op : What(op) = {}) /\ Ruled = {} /\ \A t : Verdicts(t) = {}
  BY <1>1 DEF What, Standing, Ruled, Verdicts
<1>3. HomeInv
  <2>1. mergedInto \in [Ent -> Ent] /\ \A e \in graph.ents : mergedInto[e] = e
    BY <1>1
  <2> QED BY <1>2, <2>1 DEF HomeInv
<1>4. PairInv
  BY <1>1, <1>2 DEF PairInv
<1>5. FactInv
  <2>1. RowsTell
    BY <1>1, <1>2 DEF RowsTell, TellsIn
  <2> QED BY <1>2, <2>1 DEF FactInv, VerdictRows, SeenTell, RivalsTell, IdsKeep
<1> QED BY <1>3, <1>4, <1>5 DEF FactsNow

(* And they are what was to be shown. *)
LEMMA FactsTell ==
  ASSUME BaseInv, FactsNow
  PROVE  UnmergedHold
<1>1. /\ WellFormed(graph) /\ FactInv /\ PairInv
      /\ \A n \in Ruled : n \in Standing /\ ledger[n].order \in Nat
      /\ \A t : Verdicts(t) = {n \in Ruled : ledger[n].what.t = t}
  BY RuledParts DEF BaseInv, FactsNow
<1>2. ASSUME NEW n \in Ruled, NEW t, t = ledger[n].what.t, Apart(t), \A m \in Verdicts(t) : ~Later(m, n)
      PROVE  IdOf(graph, t) # NoRow /\ Stated(ledger[n].what.op, graph.rows[IdOf(graph, t)])
  <2> DEFINE id == ledger[n].snap.id
  <2>1. id \in DOMAIN graph.rows /\ graph.rows[id].t = t
    BY <1>1, <1>2 DEF FactInv, VerdictRows
  <2> HIDE DEF id
  <2>2. IdOf(graph, t) # NoRow /\ IdOf(graph, t) = id
    BY <1>1, <2>1, RowOfTriple
  <2>3. TellsIn(ledger, Verdicts(t), graph.rows[id])
    BY <1>1, <1>2, <2>1 DEF FactInv, RowsTell
  <2>4. n \in Verdicts(t) /\ \A m \in Verdicts(t) : ledger[m].order <= ledger[n].order
    <3>1. n \in Verdicts(t)
      BY <1>1, <1>2
    <3>2. \A m \in Verdicts(t) : ledger[m].order \in Nat /\ ~(ledger[m].order > ledger[n].order)
      BY <1>1, <1>2 DEF Later
    <3>3. ledger[n].order \in Nat
      BY <1>1
    <3> QED BY <3>1, <3>2, <3>3
  <2>5. Stated(ledger[n].what.op, graph.rows[id])
    BY <2>3, <2>4 DEF TellsIn
  <2> QED BY <2>2, <2>5
<1>3. ASSUME NEW i \in DOMAIN graph.rows, Apart(graph.rows[i].t), Verdicts(graph.rows[i].t) = {}
      PROVE  graph.rows[i].verdict = ""
  BY <1>1, <1>3 DEF FactInv, RowsTell, TellsIn
<1>4. \A pair \in Pairs : pair \cap EverMerged = {} =>
        (pair \in graph.pairs <=> \E n \in What("not_same") : ledger[n].what.pair = pair)
  BY <1>1 DEF PairInv
<1> QED BY <1>2, <1>3, <1>4 DEF UnmergedHold, Ruled

(* Of entities that no merge has been about the facts hold with no exception, whatever
   is observed, written, merged and undone in whatever order: a triple is as the last
   standing verdict on it states, and has no verdict without one, and a pair is told
   apart just while a correction that stands says so.  upsert_relation_in,
   _merge_entities_tx, _unmerge_tx, undo, _find_blocking_correction. *)
THEOREM UnmergedStayCorrected == Spec => []UnmergedHold
<1> DEFINE Inv == CorrInv /\ FactsNow
<1>1. Init => Inv
  BY CorrectionsAssumption, CorrStart, FactsStart
<1>2. Inv /\ [Next]_vars => Inv'
  <2> SUFFICES ASSUME CorrInv, FactsNow, [Next]_vars PROVE CorrInv' /\ FactsNow'
    OBVIOUS
  <2>1. CorrInv'
    BY CorrectionsAssumption, CorrStep
  <2>2. BaseInv /\ MergedOnce /\ BaseInv'
    BY <2>1 DEF CorrInv
  <2> QED BY <2>1, <2>2, CorrectionsAssumption, FactsStep
<1>3. Inv => UnmergedHold
  BY FactsTell DEF CorrInv
<1> QED BY <1>1, <1>2, <1>3, PTL DEF Spec

(* All of it together: the entities are as corrected, and so are the facts of those that
   no merge has been about. *)
THEOREM CorrectionsStay == Spec => []AsCorrected
<1>1. EntitiesAsCorrected /\ UnmergedHold => AsCorrected
  BY DEF AsCorrected
<1> QED BY <1>1, EntitiesStayCorrected, UnmergedStayCorrected, PTL

=============================================================================
