----------------------------- MODULE SyncQueue -----------------------------
(***************************************************************************)
(* The durable work queue between discovery and the per-source handlers:   *)
(* table sync_queue of src/mcpbrain/store.py and the loop of               *)
(* src/mcpbrain/sync/queue.py.  A row stands for a remote item to be       *)
(* worked; its presence is the work, it is deleted on success only.        *)
(*                                                                         *)
(* A queue is a function from the items it has rows of, which are numbers  *)
(* in the order a page lists them.  at is the row's place in the order of  *)
(* modified_at, newest last; next_attempt_at is wait, the cycles left      *)
(* until the row is due again.                                             *)
(***************************************************************************)
EXTENDS Integers, Sequences, FiniteSets

CONSTANTS Backoff       \* _SYNC_BACKOFF_S, in cycles: a sequence of naturals

ASSUME BackoffAssumption == Backoff \in Seq(Nat) /\ Len(Backoff) > 0

RowOf(Versions, Events) ==
  [ver : Versions, event : Events, attempts : 0..Len(Backoff), wait : Nat, at : Nat]

NewRow(ver, event) ==
  [ver |-> ver, event |-> event, attempts |-> 0, wait |-> 0, at |-> 0]

NoRows == [r \in {} |-> {}]

\* Rows of a page come after all others, in the page's order.
Place(q, page, r) ==
  LET others == DOMAIN q \ DOMAIN page
  IN  IF r \in DOMAIN page
      THEN Cardinality(others) + Cardinality({p \in DOMAIN page : p <= r})
      ELSE Cardinality({s \in others : q[s].at <= q[r].at})

\* A row just listed replaces the row of the same item, and keeps its attempts
\* and its backoff unless the version differs.
Upserted(q, page, r) ==
  IF r \notin DOMAIN page THEN q[r]
  ELSE IF r \in DOMAIN q /\ q[r].ver = page[r].ver
       THEN [page[r] EXCEPT !.attempts = q[r].attempts, !.wait = q[r].wait]
       ELSE page[r]

Enqueued(q, page) ==
  [r \in DOMAIN q \cup DOMAIN page |->
     [Upserted(q, page, r) EXCEPT !.at = Place(q, page, r)]]

\* A cycle's interval has passed.
Aged(q) == [r \in DOMAIN q |->
              [q[r] EXCEPT !.wait = IF @ = 0 THEN 0 ELSE @ - 1]]

Newest(q, rows, n) ==
  {r \in rows : Cardinality({s \in rows : q[s].at > q[r].at}) < n}

\* Mutant: rows in their backoff are selected too.
DueIgnoringBackoff(q, limit) == Newest(q, DOMAIN q, limit)

\* Up to limit rows that are due, the newest ones.
Due(q, limit) == Newest(q, {r \in DOMAIN q : q[r].wait = 0}, limit)

Completed(q, ref) == [r \in DOMAIN q \ {ref} |-> q[r]]

\* One more attempt; the backoff of the last one repeats for ever.
Failed(q, ref) ==
  LET n == IF q[ref].attempts < Len(Backoff) THEN q[ref].attempts + 1
           ELSE q[ref].attempts
  IN  [q EXCEPT ![ref].attempts = n, ![ref].wait = Backoff[n]]
=============================================================================
