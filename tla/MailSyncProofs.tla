--------------------------- MODULE MailSyncProofs ---------------------------
(***************************************************************************)
(* Theorems about MailSync, for a mailbox of any size and any number of    *)
(* days, failures, crashes, deletions and expiries of the history: no      *)
(* message is forgotten, but for the causes the code names.                *)
(***************************************************************************)
EXTENDS MailSync, FiniteSetTheorems, SequenceTheorems, TLAPS

(* The cursor is within the history, and a page lies after its anchor.     *)
CursorInv ==
  /\ cursor # None => /\ cursor.hid <= head /\ cursor.page <= head
                      /\ cursor.page # 0 => cursor.hid < cursor.page
  /\ cursor = None => floor = None /\ pc \in {"idle", "discover"}

(* A row whose handler has returned is stored or was gone.                 *)
ItemInv == pc = "handled" => item \in stored \cup gone

(* A window being fetched ends where the backfill has got to, no later     *)
(* than today, and what it has not stored of its days it still has to do.  *)
WindowInv ==
  /\ floor # None => floor <= today
  /\ pc = "fetching" =>
       /\ window # None /\ empty < StopAfter
       /\ window.start <= window.end /\ window.end <= today
       /\ floor # None => floor = window.end
       /\ \A m \in window.todo \cup window.beyond : m \in 1..head /\ day[m] < window.end
       /\ \A m \in 1..head \ gone : window.start <= day[m] /\ day[m] < window.end =>
            m \in stored \cup window.todo \cup window.beyond
  /\ pc = "count" =>
       window # None /\ window.todo = {} /\ window.beyond = {} /\ floor # None /\ empty < StopAfter
  /\ pc \notin {"fetching", "count"} => window = None

Inv == TypeOK /\ CursorInv /\ ItemInv /\ WindowInv /\ NothingForgotten

---------------------------------------------------------------------------
(* The queue.                                                              *)

\* The parts of a row.
LEMMA RowParts ==
  ASSUME NEW u \in Row
  PROVE  u.attempts \in 0..Len(Backoff) /\ u.wait \in Nat /\ u.at \in Nat
BY DEF Row, RowOf

\* A row that is changed is a row.
LEMMA ChangedRow ==
  ASSUME NEW u \in Row, NEW a \in 0..Len(Backoff), NEW w \in Nat, NEW p \in Nat
  PROVE  /\ [u EXCEPT !.at = p] \in Row
         /\ [u EXCEPT !.wait = w] \in Row
         /\ [u EXCEPT !.attempts = a, !.wait = w] \in Row
BY DEF Row, RowOf

\* A page's rows are added to those there are, and none is taken away.
LEMMA EnqueuedQueue ==
  ASSUME NEW D \in SUBSET Nat, IsFiniteSet(D), NEW q \in [D -> Row],
         NEW P \in SUBSET Nat, IsFiniteSet(P), NEW page \in [P -> Row]
  PROVE  Enqueued(q, page) \in [D \cup P -> Row]
<1>1. DOMAIN q = D /\ DOMAIN page = P
  OBVIOUS
<1>2. ASSUME NEW r \in D \cup P PROVE Place(q, page, r) \in Nat
  <2>1. IsFiniteSet(D \ P) /\ IsFiniteSet({p \in P : p <= r})
    BY FS_Subset
  <2>2. IsFiniteSet({s \in D \ P : q[s].at <= q[r].at})
    BY <2>1, FS_Subset
  <2> QED BY <1>1, <2>1, <2>2, FS_CardinalityType DEF Place
<1>3. ASSUME NEW r \in D \cup P PROVE Upserted(q, page, r) \in Row
  BY <1>1 DEF Upserted, Row, RowOf
<1>4. ASSUME NEW r \in D \cup P
      PROVE  [Upserted(q, page, r) EXCEPT !.at = Place(q, page, r)] \in Row
  <2>1. 0 \in 0..Len(Backoff)
    BY BackoffAssumption
  <2> QED BY <1>2, <1>3, <2>1, ChangedRow
<1> DEFINE e(r) == [Upserted(q, page, r) EXCEPT !.at = Place(q, page, r)]
<1>5. Enqueued(q, page) = [r \in D \cup P |-> e(r)]
  BY <1>1 DEF Enqueued
<1>6. \A r \in D \cup P : e(r) \in Row
  BY <1>4
<1> HIDE DEF e
<1> QED BY <1>5, <1>6

LEMMA AgedQueue ==
  ASSUME NEW D, NEW q \in [D -> Row]
  PROVE  Aged(q) \in [D -> Row]
<1> DEFINE w(r) == IF q[r].wait = 0 THEN 0 ELSE q[r].wait - 1
<1> DEFINE e(r) == [q[r] EXCEPT !.wait = w(r)]
<1>1. ASSUME NEW r \in D PROVE w(r) \in Nat
  <2>1. q[r].wait \in Nat
    BY RowParts
  <2> QED BY <2>1
<1>2. 0 \in 0..Len(Backoff)
  BY BackoffAssumption
<1>3. \A r \in D : e(r) \in Row
  <2> HIDE DEF w
  <2> QED BY <1>1, <1>2, ChangedRow
<1>4. Aged(q) = [r \in D |-> e(r)]
  BY DEF Aged
<1> HIDE DEF e
<1> QED BY <1>3, <1>4

LEMMA CompletedQueue ==
  ASSUME NEW D, NEW q \in [D -> Row], NEW r
  PROVE  Completed(q, r) \in [D \ {r} -> Row]
BY DEF Completed

LEMMA FailedQueue ==
  ASSUME NEW D, NEW q \in [D -> Row], NEW r \in D
  PROVE  Failed(q, r) \in [D -> Row]
<1> DEFINE n == IF q[r].attempts < Len(Backoff) THEN q[r].attempts + 1 ELSE q[r].attempts
<1>1. q[r] \in Row /\ q[r].attempts \in 0..Len(Backoff) /\ Len(Backoff) \in Nat \ {0}
  BY BackoffAssumption, RowParts
<1>2. n \in 1..Len(Backoff)
  BY <1>1
<1>3. Backoff[n] \in Nat
  BY <1>2, BackoffAssumption
<1> DEFINE x == [q[r] EXCEPT !.attempts = n, !.wait = Backoff[n]]
<1>4. Failed(q, r) = [q EXCEPT ![r] = x]
  BY DEF Failed
<1>5. x \in Row
  <2> HIDE DEF n
  <2>1. n \in 0..Len(Backoff)
    BY <1>1, <1>2
  <2> QED BY <1>1, <1>3, <2>1, ChangedRow
<1> HIDE DEF x
<1> QED BY <1>4, <1>5

---------------------------------------------------------------------------
(* What moves nothing out of sight.                                        *)

\* The history, the queue and the store only gain, and a window is kept.
LEMMA StillAccounted ==
  ASSUME NothingForgotten, head' = head, gone \subseteq gone',
         stored \cup Queued \cup Ahead \cup reset \cup unwalked
           \subseteq stored' \cup Queued' \cup Ahead' \cup reset' \cup unwalked' \cup gone',
         \A m \in 1..head \ gone' : InWindow(m) =>
           InWindow(m)' \/ m \in stored' \cup Queued' \cup Ahead' \cup reset' \cup unwalked'
  PROVE  NothingForgotten'
<1> DEFINE there == stored \cup Queued \cup Ahead \cup reset \cup unwalked
<1> DEFINE then  == stored' \cup Queued' \cup Ahead' \cup reset' \cup unwalked'
<1>1. \A m \in 1..head \ gone : m \in there \/ InWindow(m)
  BY DEF NothingForgotten, Accounted, Walkable
<1>2. \A m \in 1..head' \ gone' : m \in then \/ InWindow(m)'
  BY <1>1
<1> QED BY <1>2 DEF NothingForgotten, Accounted, Walkable

\* Nothing of it moves.
LEMMA Untouched ==
  ASSUME Inv, UNCHANGED <<day, gone, stored, queue, cursor, floor, empty, window, reset, unwalked>>
  PROVE  NothingForgotten'
BY DEF Inv, NothingForgotten, Accounted, Ahead, NextListed, Walkable, InWindow, head, Queued

\* The store and the queue only change; the mailbox and the backfill do not.
LEMMA Handled ==
  ASSUME Inv, UNCHANGED <<day, gone, cursor, floor, empty, window, reset, unwalked>>,
         stored \cup Queued \subseteq stored' \cup Queued' \cup gone
  PROVE  NothingForgotten'
<1>1. head' = head /\ Ahead' = Ahead
  BY DEF head, Ahead, NextListed
<1>2. \A m \in 1..head : InWindow(m)' = InWindow(m)
  BY DEF InWindow
<1> QED BY <1>1, <1>2, StillAccounted DEF Inv

---------------------------------------------------------------------------
(* The invariant.                                                          *)

LEMMA InitInv == Init => Inv
<1> SUFFICES ASSUME Init PROVE Inv
  OBVIOUS
<1>1. head \in Nat /\ head <= MaxMessages /\ day \in Seq(0..LastDay)
  <2>1. day \in Seq(0..InstallDay)
    BY MailAssumption DEF Init
  <2>2. 0..InstallDay \subseteq 0..LastDay
    BY MailAssumption
  <2> QED BY <2>1, <2>2, MailAssumption, SeqMonotonic DEF Init, head
<1>2. queue \in [Queued -> Row] /\ Queued = {}
  BY DEF Init, NoRows, Queued
<1>3. TypeOK
  BY <1>1, <1>2, MailAssumption DEF Init, TypeOK, Phases
<1>4. CursorInv /\ ItemInv /\ WindowInv
  BY DEF Init, CursorInv, ItemInv, WindowInv
<1>5. NothingForgotten
  BY DEF Init, NothingForgotten, Accounted, Walkable, InWindow
<1> QED BY <1>3, <1>4, <1>5 DEF Inv

\* The cursor's and a window's types leave None out.
LEMMA NotNone ==
  /\ \A h, p \in Nat : [hid |-> h, page |-> p] # None
  /\ \A i \in Int : i # None
  /\ \A w \in Window : w # None
<1>1. Window \subseteq [start : Int, end : Int, todo : SUBSET Nat, beyond : SUBSET Nat, n : Nat]
  BY MailAssumption DEF Window, Msgs
<1> QED BY <1>1, MailAssumption

\* What a cursor is made of.
LEMMA CursorType ==
  ASSUME NEW h \in 0..MaxMessages, NEW p \in 0..MaxMessages
  PROVE  /\ [hid |-> h, page |-> p] \in Cursor /\ [hid |-> h, page |-> p] # None
         /\ Bare(h) \in Cursor /\ Bare(h) # None /\ Bare(h).hid = h /\ Bare(h).page = 0
<1>1. h \in Nat /\ p \in Nat /\ 0 \in 0..MaxMessages
  BY MailAssumption
<1> QED BY <1>1, NotNone DEF Bare, Cursor

LEMMA ArriveInv ==
  ASSUME Inv, Arrive
  PROVE  Inv'
<1> USE DEF mailboxVars, storeVars, memoryVars, historyVars
<1>1. /\ head \in Nat /\ head' = head + 1 /\ head' <= MaxMessages /\ day' \in Seq(0..LastDay)
      /\ day'[head'] = today /\ \A m \in 1..head : day'[m] = day[m]
  BY MailAssumption DEF Inv, TypeOK, Arrive, head
<1>2. TypeOK'
  BY <1>1 DEF Inv, TypeOK, Arrive, Queued
<1>3. CursorInv' /\ ItemInv'
  BY <1>1 DEF Inv, TypeOK, Cursor, CursorInv, ItemInv, Arrive
<1>4. WindowInv'
  <2>1. UNCHANGED <<gone, today, stored, floor, empty, window, pc>>
    BY DEF Arrive
  <2>2. today \in Int /\ (window # None => window.end \in Int)
    BY MailAssumption DEF Inv, TypeOK, Window
  <2> QED BY <1>1, <2>1, <2>2 DEF Inv, WindowInv
<1>5. NothingForgotten'
  <2>1. UNCHANGED <<gone, stored, queue, cursor, floor, empty, window, reset, unwalked>>
    BY DEF Arrive
  <2>2. head' \in Accounted'
    <3>1. CASE cursor = None
      BY <1>1, <2>1, <3>1 DEF Inv, CursorInv, Accounted, Walkable, InWindow
    <3>2. CASE cursor # None
      BY <1>1, <2>1, <3>2 DEF Inv, TypeOK, Cursor, CursorInv, Accounted, Ahead, NextListed
    <3> QED BY <3>1, <3>2
  <2>3. Accounted \cap (1..head) \subseteq Accounted'
    <3>1. Ahead \subseteq Ahead'
      BY <1>1, <2>1 DEF Inv, TypeOK, Cursor, Ahead, NextListed
    <3>2. \A m \in 1..head : InWindow(m) => InWindow(m)'
      BY <1>1, <2>1 DEF InWindow
    <3>3. Walkable \subseteq Walkable'
      BY <1>1, <3>2 DEF Walkable
    <3> QED BY <2>1, <3>1, <3>3 DEF Accounted, Queued
  <2> QED BY <1>1, <2>1, <2>2, <2>3 DEF Inv, NothingForgotten
<1> QED BY <1>2, <1>3, <1>4, <1>5 DEF Inv

LEMMA MailboxInv ==
  ASSUME Inv, Mailbox
  PROVE  Inv'
<1> USE DEF mailboxVars, storeVars, memoryVars, historyVars
<1>1. CASE Arrive
  BY <1>1, ArriveInv
<1>2. ASSUME NEW m \in Msgs, Delete(m) PROVE Inv'
  <2>1. /\ gone \subseteq gone' /\ gone' \subseteq 1..head
        /\ UNCHANGED <<day, today, horizon, poison, expiries, storeVars, memoryVars, faults,
                       historyVars>>
    BY <1>2 DEF Delete, Inv, TypeOK
  <2>2. TypeOK'
    BY <2>1 DEF Inv, TypeOK, head, Queued
  <2>3. CursorInv' /\ ItemInv' /\ WindowInv'
    BY <2>1 DEF Inv, CursorInv, ItemInv, WindowInv, head
  <2>4. NothingForgotten'
    BY <2>1 DEF Inv, NothingForgotten, Accounted, Ahead, NextListed, Walkable, InWindow, head,
                Queued
  <2> QED BY <2>2, <2>3, <2>4 DEF Inv
<1>3. CASE NextDay
  <2>1. today' = today + 1 /\ today' \in InstallDay..LastDay /\ today \in Int
    BY <1>3, MailAssumption DEF NextDay, Inv, TypeOK
  <2>2. UNCHANGED <<day, gone, horizon, poison, expiries, storeVars, memoryVars, faults, historyVars>>
    BY <1>3 DEF NextDay
  <2>3. TypeOK'
    BY <2>1, <2>2 DEF Inv, TypeOK, head, Queued
  <2>4. CursorInv' /\ ItemInv'
    BY <2>2 DEF Inv, CursorInv, ItemInv, head
  <2>5. WindowInv'
    <3>1. (floor # None => floor \in Int) /\ (window # None => window.end \in Int)
      BY DEF Inv, TypeOK, Window
    <3> QED BY <2>1, <2>2, <3>1 DEF Inv, WindowInv, head
  <2>6. NothingForgotten'
    BY <2>2, Untouched
  <2> QED BY <2>3, <2>4, <2>5, <2>6 DEF Inv
<1>4. CASE HistoryExpires
  <2>1. UNCHANGED <<day, gone, today, poison, storeVars, memoryVars, faults, historyVars>>
    BY <1>4 DEF HistoryExpires
  <2>2. horizon' \in 0..head /\ expiries' \in 0..MaxExpiries
    BY <1>4, MailAssumption DEF HistoryExpires, Inv, TypeOK, head
  <2>3. TypeOK'
    BY <2>1, <2>2 DEF Inv, TypeOK, head, Queued
  <2>4. CursorInv' /\ ItemInv' /\ WindowInv'
    BY <2>1 DEF Inv, CursorInv, ItemInv, WindowInv, head
  <2>5. NothingForgotten'
    BY <2>1, Untouched
  <2> QED BY <2>3, <2>4, <2>5 DEF Inv
<1> QED BY <1>1, <1>2, <1>3, <1>4 DEF Mailbox

LEMMA DiscoverInv ==
  ASSUME Inv, Discover
  PROVE  Inv'
<1> USE DEF mailboxVars, storeVars, memoryVars, historyVars
<1>0. head \in Nat /\ head <= MaxMessages /\ head \in 0..MaxMessages
  BY MailAssumption DEF Inv, TypeOK, head
<1>1. CASE StartCycle
  <2>1. queue' \in [Queued -> Row] /\ Queued' = Queued
    BY <1>1, AgedQueue DEF StartCycle, Inv, TypeOK, Queued
  <2>2. TypeOK'
    BY <1>1, <2>1 DEF StartCycle, Inv, TypeOK, Phases, head
  <2>3. CursorInv' /\ ItemInv' /\ WindowInv'
    BY <1>1 DEF StartCycle, Inv, CursorInv, ItemInv, WindowInv, head
  <2>4. NothingForgotten'
    BY <1>1, <2>1, Handled DEF StartCycle
  <2> QED BY <2>2, <2>3, <2>4 DEF Inv
<1>2. CASE Bootstrap
  <2>1. cursor' = Bare(head) /\ Bare(head) \in Cursor /\ cursor' # None
    BY <1>0, <1>2, CursorType DEF Bootstrap
  <2>2. TypeOK'
    BY <1>2, <2>1 DEF Bootstrap, Inv, TypeOK, Phases, head, Queued
  <2>3. CursorInv' /\ ItemInv' /\ WindowInv'
    BY <1>0, <1>2, <2>1 DEF Bootstrap, Bare, Inv, CursorInv, ItemInv, WindowInv, head
  <2>4. NothingForgotten'
    BY <1>2 DEF Bootstrap, Inv, CursorInv, NothingForgotten, Accounted, Walkable, InWindow, head
  <2> QED BY <2>2, <2>3, <2>4 DEF Inv
<1>3. CASE ListPage
  <2>1. cursor \in Cursor /\ cursor # None /\ NextListed \in Nat /\ NextListed >= 1
    BY <1>3 DEF ListPage, Serves, Inv, TypeOK, Cursor, NextListed
  <2>2. /\ PageEnd \in 0..head /\ (PageEnd < head => PageEnd >= NextListed)
        /\ NextListed <= head + 1 /\ NextListed > cursor.hid
    BY <1>0, <2>1, MailAssumption DEF PageEnd, Inv, CursorInv, Cursor, NextListed
  <2> DEFINE P == NextListed..PageEnd
  <2>3. PageRows \in [P -> Row]
    BY <2>1, BackoffAssumption DEF PageRows, NewRow, Row, RowOf
  <2>4. queue' \in [Queued \cup P -> Row] /\ Queued' = Queued \cup P
    <3>1. Queued \in SUBSET Nat /\ IsFiniteSet(Queued) /\ queue \in [Queued -> Row]
      <4>1. Queued \subseteq 1..head /\ queue \in [Queued -> Row]
        BY DEF Inv, TypeOK
      <4>2. IsFiniteSet(1..head)
        BY <1>0, FS_Interval
      <4>3. IsFiniteSet(Queued)
        BY <4>1, <4>2, FS_Subset
      <4>4. Queued \subseteq Nat
        BY <1>0, <4>1
      <4> QED BY <4>1, <4>3, <4>4
    <3>2. P \in SUBSET Nat /\ IsFiniteSet(P)
      BY <2>1, <2>2, FS_Interval
    <3>3. Enqueued(queue, PageRows) \in [Queued \cup P -> Row]
      BY <2>3, <3>1, <3>2, EnqueuedQueue
    <3> QED BY <1>3, <3>3 DEF ListPage, Queued
  <2>5. cursor' \in Cursor /\ cursor' # None /\ cursor'.hid \in 0..head
        /\ cursor'.page \in 0..head /\ (cursor'.page # 0 => cursor'.hid < cursor'.page)
    <3>1. cursor' = Resume /\ cursor.hid \in 0..head
      BY <1>0, <1>3, <2>1 DEF ListPage, Inv, CursorInv, Cursor
    <3>2. CASE PageEnd < head
      <4>1. cursor.hid \in 0..MaxMessages /\ PageEnd + 1 \in 0..MaxMessages
            /\ PageEnd + 1 \in 0..head /\ cursor.hid < PageEnd + 1
        BY <1>0, <2>1, <2>2, <3>1, <3>2, MailAssumption
      <4>2. cursor' = [hid |-> cursor.hid, page |-> PageEnd + 1]
        BY <3>1, <3>2 DEF Resume
      <4> QED BY <3>1, <4>1, <4>2, CursorType
    <3>3. CASE ~(PageEnd < head)
      <4>1. cursor' = Bare(head) /\ head \in 0..MaxMessages
        BY <1>0, <3>1, <3>3, MailAssumption DEF Resume
      <4>2. /\ Bare(head) \in Cursor /\ Bare(head) # None
            /\ Bare(head).hid = head /\ Bare(head).page = 0
        BY <4>1, CursorType
      <4> QED BY <1>0, <4>1, <4>2
    <3> QED BY <3>2, <3>3
  <2>6. TypeOK'
    BY <1>3, <2>1, <2>2, <2>4, <2>5 DEF ListPage, Inv, TypeOK, Phases, head
  <2>7. CursorInv' /\ ItemInv' /\ WindowInv'
    BY <1>3, <2>5 DEF ListPage, Inv, CursorInv, ItemInv, WindowInv, head
  <2>8. NothingForgotten'
    <3>1. UNCHANGED <<day, gone, stored, floor, empty, window, reset, unwalked>> /\ head' = head
      BY <1>3 DEF ListPage, head
    <3>2. Ahead \subseteq Queued' \cup Ahead'
      BY <1>0, <1>3, <2>1, <2>2, <2>4, <2>5, <3>1 DEF ListPage, Ahead, NextListed, Resume, Bare
    <3>3. \A m \in 1..head : InWindow(m)' = InWindow(m)
      BY <3>1 DEF InWindow
    <3> QED BY <2>4, <3>1, <3>2, <3>3, StillAccounted DEF Inv
  <2> QED BY <2>6, <2>7, <2>8 DEF Inv
<1>4. CASE DiscoveryBudgetSpent
  <2>1. TypeOK'
    BY <1>4 DEF DiscoveryBudgetSpent, Inv, TypeOK, Phases, head, Queued
  <2>2. CursorInv' /\ ItemInv' /\ WindowInv'
    BY <1>4 DEF DiscoveryBudgetSpent, Inv, CursorInv, ItemInv, WindowInv, head
  <2>3. NothingForgotten'
    BY <1>4, Untouched DEF DiscoveryBudgetSpent
  <2> QED BY <2>1, <2>2, <2>3 DEF Inv
<1>5. CASE ResetToHead
  <2>1. cursor' = Bare(head) /\ Bare(head) \in Cursor /\ cursor' # None
    BY <1>0, <1>5, CursorType DEF ResetToHead
  <2>2. cursor # None /\ cursor \in Cursor /\ Ahead \subseteq 1..head
    BY <1>0, <1>5 DEF ResetToHead, Inv, TypeOK, Cursor, Ahead, NextListed
  <2>3. TypeOK'
    BY <1>5, <2>1, <2>2 DEF ResetToHead, Inv, TypeOK, Phases, head, Queued
  <2>4. CursorInv' /\ ItemInv' /\ WindowInv'
    BY <1>0, <1>5, <2>1 DEF ResetToHead, Bare, Inv, CursorInv, ItemInv, WindowInv, head
  <2>5. NothingForgotten'
    <3>1. UNCHANGED <<day, gone, stored, queue, floor, empty, window, unwalked>> /\ head' = head
      BY <1>5 DEF ResetToHead, head
    <3>2. reset' = reset \cup (Ahead \ (stored \cup Queued)) /\ Queued' = Queued
      BY <1>5, <3>1 DEF ResetToHead, Queued
    <3>3. \A m \in 1..head : InWindow(m)' = InWindow(m)
      BY <3>1 DEF InWindow
    <3> QED BY <3>1, <3>2, <3>3, StillAccounted DEF Inv
  <2> QED BY <2>3, <2>4, <2>5 DEF Inv
<1>6. CASE ListFails
  <2>1. faults' \in 0..MaxFaults
    BY <1>6, MailAssumption DEF ListFails, Inv, TypeOK
  <2>2. CASE cursor # None /\ cursor.page # 0
    <3>1. cursor' = Bare(cursor.hid) /\ cursor \in Cursor /\ Bare(cursor.hid) \in Cursor
          /\ cursor' # None
      BY <1>6, <2>2, NotNone, MailAssumption DEF ListFails, Bare, Cursor, Inv, TypeOK
    <3>2. TypeOK'
      BY <1>6, <2>1, <3>1 DEF ListFails, Inv, TypeOK, Phases, head, Queued
    <3>3. CursorInv' /\ ItemInv' /\ WindowInv'
      BY <1>0, <1>6, <3>1 DEF ListFails, Bare, Cursor, Inv, CursorInv, ItemInv, WindowInv, head
    <3>4. NothingForgotten'
      <4>1. UNCHANGED <<day, gone, stored, queue, floor, empty, window, reset, unwalked>>
            /\ head' = head /\ Queued' = Queued
        BY <1>6 DEF ListFails, head, Queued
      <4>2. Ahead \subseteq Ahead'
        BY <1>0, <2>2, <3>1, <4>1 DEF Ahead, NextListed, Bare, Cursor, Inv, CursorInv
      <4>3. \A m \in 1..head : InWindow(m)' = InWindow(m)
        BY <4>1 DEF InWindow
      <4> QED BY <4>1, <4>2, <4>3, StillAccounted DEF Inv
    <3> QED BY <3>2, <3>3, <3>4 DEF Inv
  <2>3. CASE ~(cursor # None /\ cursor.page # 0)
    <3>1. UNCHANGED <<mailboxVars, storeVars, batch, item, window, historyVars>> /\ pc' = "idle"
      BY <1>6, <2>3 DEF ListFails
    <3>2. TypeOK'
      BY <2>1, <3>1 DEF Inv, TypeOK, Phases, head, Queued
    <3>3. CursorInv' /\ ItemInv' /\ WindowInv'
      BY <1>6, <3>1 DEF ListFails, Inv, CursorInv, ItemInv, WindowInv, head
    <3>4. NothingForgotten'
      BY <3>1, Untouched
    <3> QED BY <3>2, <3>3, <3>4 DEF Inv
  <2> QED BY <2>2, <2>3
<1> QED BY <1>1, <1>2, <1>3, <1>4, <1>5, <1>6 DEF Discover

LEMMA WorkInv ==
  ASSUME Inv, Work
  PROVE  Inv'
<1> USE DEF mailboxVars, storeVars, memoryVars, historyVars
<1>1. CASE BeginWork
  <2>1. /\ \E n \in 1..Limit : batch' = Due(queue, n)
        /\ pc = "work" /\ pc' = "working"
        /\ UNCHANGED <<mailboxVars, storeVars, item, window, faults, historyVars>>
    BY <1>1 DEF BeginWork
  <2>2. batch' \subseteq Queued
    BY <2>1 DEF Due, Newest, Queued
  <2>3. TypeOK'
    BY <2>1, <2>2 DEF Inv, TypeOK, Phases, head, Queued
  <2>4. CursorInv' /\ ItemInv' /\ WindowInv'
    BY <2>1 DEF Inv, CursorInv, ItemInv, WindowInv, head
  <2>5. NothingForgotten'
    BY <2>1, Untouched
  <2> QED BY <2>3, <2>4, <2>5 DEF Inv
<1>2. CASE CompleteItem
  <2>1. /\ pc = "handled" /\ pc' = "working" /\ item' = None /\ batch' = batch \ {item}
        /\ UNCHANGED <<mailboxVars, stored, cursor, floor, empty, window, faults, historyVars>>
    BY <1>2 DEF CompleteItem
  <2>2. queue' \in [Queued \ {item} -> Row] /\ Queued' = Queued \ {item}
    BY <1>2, CompletedQueue DEF CompleteItem, Inv, TypeOK, Queued
  <2>3. TypeOK'
    BY <2>1, <2>2 DEF Inv, TypeOK, Phases, head
  <2>4. CursorInv' /\ ItemInv' /\ WindowInv'
    BY <2>1 DEF Inv, CursorInv, ItemInv, WindowInv, head
  <2>5. stored \cup Queued \subseteq stored' \cup Queued' \cup gone
    BY <2>1, <2>2 DEF Inv, ItemInv
  <2>6. NothingForgotten'
    BY <2>1, <2>5, Handled
  <2> QED BY <2>3, <2>4, <2>6 DEF Inv
<1>3. CASE BudgetSpent
  <2>1. pc = "working" /\ pc' = "idle"
        /\ UNCHANGED <<mailboxVars, storeVars, batch, item, window, faults, historyVars>>
    BY <1>3 DEF BudgetSpent
  <2>2. TypeOK'
    BY <2>1 DEF Inv, TypeOK, Phases, head, Queued
  <2>3. CursorInv' /\ ItemInv' /\ WindowInv'
    BY <2>1 DEF Inv, CursorInv, ItemInv, WindowInv, head
  <2>4. NothingForgotten'
    BY <2>1, Untouched
  <2> QED BY <2>2, <2>3, <2>4 DEF Inv
<1>4. ASSUME NEW m \in InTurn, StoreItem(m) \/ ItemGone(m) PROVE Inv'
  <2>1. m \in Queued /\ m \in 1..head
    BY DEF InTurn, Newest, Inv, TypeOK
  <2>2. /\ pc = "working" /\ pc' = "handled" /\ item' = m
        /\ stored \subseteq stored' /\ stored' \subseteq 1..head /\ m \in stored' \cup gone
        /\ UNCHANGED <<mailboxVars, queue, cursor, floor, empty, batch, window, faults, historyVars>>
    BY <1>4, <2>1 DEF StoreItem, ItemGone, Inv, TypeOK
  <2>3. TypeOK'
    BY <2>1, <2>2 DEF Inv, TypeOK, Phases, head, Queued
  <2>4. CursorInv' /\ ItemInv' /\ WindowInv'
    BY <2>2 DEF Inv, CursorInv, ItemInv, WindowInv, head
  <2>5. NothingForgotten'
    BY <2>2, Handled DEF Queued
  <2> QED BY <2>3, <2>4, <2>5 DEF Inv
<1>5. ASSUME NEW m \in InTurn, FailItem(m) PROVE Inv'
  <2>1. m \in Queued
    BY DEF InTurn, Newest, Inv, TypeOK
  <2>2. /\ pc = "working" /\ batch' = batch \ {m} /\ queue' = Failed(queue, m)
        /\ UNCHANGED <<mailboxVars, stored, cursor, floor, empty, pc, item, window, historyVars>>
    BY <1>5 DEF FailItem
  <2>3. faults' \in 0..MaxFaults
    BY <1>5, MailAssumption DEF FailItem, Inv, TypeOK
  <2>4. queue' \in [Queued -> Row] /\ Queued' = Queued
    BY <2>1, <2>2, FailedQueue DEF Inv, TypeOK, Queued
  <2>5. TypeOK'
    BY <2>2, <2>3, <2>4 DEF Inv, TypeOK, Phases, head
  <2>6. CursorInv' /\ ItemInv' /\ WindowInv'
    BY <2>2 DEF Inv, CursorInv, ItemInv, WindowInv, head
  <2>7. NothingForgotten'
    BY <2>2, <2>4, Handled
  <2> QED BY <2>5, <2>6, <2>7 DEF Inv
<1> QED BY <1>1, <1>2, <1>3, <1>4, <1>5 DEF Work, WorkRow

LEMMA BackfillInv ==
  ASSUME Inv, Backfill
  PROVE  Inv'
<1> USE DEF mailboxVars, storeVars, memoryVars, historyVars
<1>0. head \in Nat /\ head <= MaxMessages /\ \A m \in 1..head : m \in Msgs /\ day[m] \in Int
  BY MailAssumption DEF Inv, TypeOK, head, Msgs
<1>1. CASE BackfillDone
  <2>1. pc = "working" /\ pc' = "idle"
        /\ UNCHANGED <<mailboxVars, storeVars, batch, item, window, faults, historyVars>>
    BY <1>1 DEF BackfillDone
  <2>2. TypeOK'
    BY <2>1 DEF Inv, TypeOK, Phases, head, Queued
  <2>3. CursorInv' /\ ItemInv' /\ WindowInv'
    BY <2>1 DEF Inv, CursorInv, ItemInv, WindowInv, head
  <2>4. NothingForgotten'
    BY <2>1, Untouched
  <2> QED BY <2>2, <2>3, <2>4 DEF Inv
<1>2. CASE BeginWindow
  <2>1. /\ pc = "working" /\ pc' = "fetching" /\ empty < StopAfter
        /\ UNCHANGED <<mailboxVars, storeVars, batch, item, faults, historyVars>>
    BY <1>2 DEF BeginWindow
  <2>2. /\ window' = [start |-> WindowStart, end |-> WindowEnd, n |-> 0, todo |-> Fetched,
                      beyond |-> Listed \ Fetched]
        /\ window = None /\ cursor # None
    BY <1>2, <2>1 DEF BeginWindow, Inv, WindowInv, CursorInv
  <2>3. /\ WindowEnd \in Int /\ WindowStart \in Int /\ WindowStart <= WindowEnd
        /\ WindowEnd <= today /\ (floor # None => floor = WindowEnd)
    BY MailAssumption DEF WindowEnd, WindowStart, Inv, TypeOK, WindowInv
  <2>4. Listed \subseteq 1..head /\ Fetched \subseteq Listed /\ Listed \subseteq Msgs
    BY <1>0 DEF Listed, Fetched
  <2>5. /\ window'.start = WindowStart /\ window'.end = WindowEnd /\ window'.todo = Fetched
        /\ window'.beyond = Listed \ Fetched
    BY <2>2
  <2>6. window' \in Window /\ window' # None
    BY <2>2, <2>3, <2>4, NotNone DEF Window
  <2>7. TypeOK'
    BY <2>1, <2>6 DEF Inv, TypeOK, Phases, head, Queued
  <2>8. CursorInv' /\ ItemInv'
    BY <2>1, <2>2 DEF Inv, CursorInv, ItemInv, head
  <2>9. WindowInv'
    <3>1. \A m \in Listed : day[m] < WindowEnd
      BY DEF Listed
    <3>2. \A m \in 1..head \ gone : WindowStart <= day[m] /\ day[m] < WindowEnd =>
            m \in Fetched \cup (Listed \ Fetched)
      BY DEF Listed
    <3> QED BY <2>1, <2>3, <2>4, <2>5, <2>6, <3>1, <3>2 DEF Inv, WindowInv, head
  <2>10. NothingForgotten'
    <3>1. UNCHANGED <<stored, Queued, Ahead, reset, unwalked, gone, head>>
      BY <2>1 DEF Queued, Ahead, NextListed, head
    <3>2. \A m \in 1..head : InWindow(m) => InWindow(m)'
      BY <2>1, <2>2 DEF InWindow
    <3> QED BY <3>1, <3>2, StillAccounted DEF Inv
  <2> QED BY <2>7, <2>8, <2>9, <2>10 DEF Inv
<1>3. ASSUME NEW m \in Msgs, FetchMessage(m) PROVE Inv'
  <2>1. /\ pc = "fetching" /\ m \in window.todo
        /\ UNCHANGED <<mailboxVars, queue, cursor, floor, empty, pc, batch, item, faults, historyVars>>
    BY <1>3 DEF FetchMessage, First
  <2>2. window \in Window /\ window # None /\ m \in 1..head
    BY <2>1 DEF Inv, TypeOK, WindowInv
  <2>3. /\ window'.start = window.start /\ window'.end = window.end
        /\ window'.todo = window.todo \ {m} /\ window'.beyond = window.beyond
        /\ window' \in Window
    <3>1. CASE window' = [window EXCEPT !.todo = @ \ {m}]
      BY <2>2, <3>1 DEF Window
    <3>2. CASE window' = [window EXCEPT !.todo = @ \ {m}, !.n = @ + 1]
      <4> DEFINE w == [window EXCEPT !.todo = @ \ {m}]
      <4>1. w \in Window /\ w.start = window.start /\ w.end = window.end
            /\ w.todo = window.todo \ {m} /\ w.beyond = window.beyond
        BY <2>2 DEF Window
      <4>2. window' = [w EXCEPT !.n = @ + 1]
        BY <3>2
      <4> HIDE DEF w
      <4> QED BY <4>1, <4>2 DEF Window
    <3> QED BY <1>3, <3>1, <3>2 DEF FetchMessage
  <2>4. stored \subseteq stored' /\ stored' \subseteq 1..head /\ m \in stored' \cup gone
    BY <1>3, <2>2 DEF FetchMessage, Inv, TypeOK
  <2>5. TypeOK'
    BY <2>1, <2>3, <2>4 DEF Inv, TypeOK, head, Queued
  <2>6. CursorInv' /\ ItemInv'
    BY <2>1, <2>4 DEF Inv, CursorInv, ItemInv, head
  <2>7. WindowInv'
    BY <2>1, <2>2, <2>3, <2>4, NotNone DEF Inv, WindowInv, head
  <2>8. NothingForgotten'
    <3>1. UNCHANGED <<Queued, Ahead, reset, unwalked, gone, head>>
      BY <2>1 DEF Queued, Ahead, NextListed, head
    <3>2. \A k \in 1..head \ gone : InWindow(k) => InWindow(k)' \/ k \in stored'
      BY <2>1, <2>2, <2>3, <2>4, NotNone DEF InWindow
    <3> QED BY <2>4, <3>1, <3>2, StillAccounted DEF Inv
  <2> QED BY <2>5, <2>6, <2>7, <2>8 DEF Inv
<1>4. CASE WindowFails
  <2>1. /\ pc = "fetching" /\ pc' = "idle" /\ window' = None
        /\ UNCHANGED <<mailboxVars, storeVars, batch, item, historyVars>>
    BY <1>4 DEF WindowFails
  <2>2. faults' \in 0..MaxFaults
    BY <1>4, MailAssumption DEF WindowFails, Inv, TypeOK
  <2>3. TypeOK'
    BY <2>1, <2>2 DEF Inv, TypeOK, Phases, head, Queued
  <2>4. CursorInv' /\ ItemInv' /\ WindowInv'
    BY <2>1 DEF Inv, CursorInv, ItemInv, WindowInv, head
  <2>5. NothingForgotten'
    <3>1. UNCHANGED <<stored, Queued, Ahead, reset, unwalked, gone, head>>
      BY <2>1 DEF Queued, Ahead, NextListed, head
    <3>2. \A k \in 1..head : InWindow(k) => InWindow(k)'
      BY <2>1 DEF InWindow, Inv, WindowInv
    <3> QED BY <3>1, <3>2, StillAccounted DEF Inv
  <2> QED BY <2>3, <2>4, <2>5 DEF Inv
<1>5. CASE AdvanceFloor
  <2>1. /\ pc = "fetching" /\ pc' = "count" /\ window.todo = {} /\ floor' = window.start
        /\ window' = [window EXCEPT !.beyond = {}]
        /\ UNCHANGED <<mailboxVars, stored, queue, cursor, empty, batch, item, faults, reset>>
    BY <1>5 DEF AdvanceFloor
  <2>2. unwalked' = unwalked \cup ((window.beyond \cup NeverInAWindow)
                                     \ (stored \cup Queued \cup Ahead))
    BY <1>5 DEF AdvanceFloor
  <2>3. window \in Window /\ window # None
    BY <2>1 DEF Inv, TypeOK, WindowInv
  <2>4. /\ window' \in Window /\ window'.todo = {} /\ window'.beyond = {}
        /\ window.start \in Int /\ window.end \in Int /\ window.start <= window.end
        /\ window.end <= today /\ today \in Int
    <3>1. /\ window' \in Window /\ window'.todo = window.todo /\ window'.beyond = {}
          /\ window.start \in Int /\ window.end \in Int
      BY <2>1, <2>3 DEF Window
    <3>2. today \in Int
      BY MailAssumption DEF Inv, TypeOK
    <3> QED BY <2>1, <3>1, <3>2 DEF Inv, WindowInv
  <2>5. unwalked' \subseteq 1..head
    BY <2>1, <2>2 DEF NeverInAWindow, Inv, TypeOK, WindowInv
  <2>6. TypeOK'
    BY <2>1, <2>4, <2>5 DEF Inv, TypeOK, Phases, head, Queued
  <2>7. CursorInv' /\ ItemInv'
    BY <2>1 DEF Inv, CursorInv, ItemInv, head
  <2>8. WindowInv'
    <3>1. floor' # None /\ floor' <= today' /\ window' # None
      BY <2>1, <2>4, NotNone
    <3> QED BY <2>1, <2>4, <3>1 DEF Inv, WindowInv
  <2>9. NothingForgotten'
    <3>1. UNCHANGED <<stored, Queued, Ahead, reset, gone, head, day>>
      BY <2>1 DEF Queued, Ahead, NextListed, head
    <3>2. ASSUME NEW k \in 1..head \ gone, InWindow(k)
          PROVE  InWindow(k)' \/ k \in stored \cup Queued \cup Ahead \cup unwalked'
      <4>0. day[k] \in Int /\ empty < StopAfter
        BY <1>0, <2>1 DEF Inv, WindowInv
      <4>1. CASE day[k] < window.start
        BY <2>1, <3>1, <4>0, <4>1 DEF InWindow
      <4>2. CASE window.start <= day[k] /\ day[k] < window.end
        BY <2>1, <2>2, <4>2 DEF Inv, WindowInv
      <4>3. CASE window.end <= day[k] /\ floor = None
        BY <2>2, <4>0, <4>3 DEF NeverInAWindow
      <4>4. CASE window.end <= day[k] /\ floor # None
        <5>1. floor = window.end /\ k \notin window.todo \cup window.beyond
          BY <2>1, <2>4, <4>0, <4>4 DEF Inv, WindowInv
        <5> QED BY <2>4, <3>2, <4>0, <4>4, <5>1 DEF InWindow
      <4> QED BY <2>4, <4>0, <4>1, <4>2, <4>3, <4>4
    <3>3. unwalked \subseteq unwalked'
      BY <2>2
    <3> QED BY <3>1, <3>2, <3>3, StillAccounted DEF Inv
  <2> QED BY <2>6, <2>7, <2>8, <2>9 DEF Inv
<1>6. CASE CountWindow
  <2>1. /\ pc = "count" /\ pc' = "idle" /\ window' = None
        /\ UNCHANGED <<mailboxVars, stored, queue, cursor, floor, batch, item, faults, reset>>
    BY <1>6 DEF CountWindow
  <2>2. empty' \in 0..StopAfter
    BY <1>6, MailAssumption DEF CountWindow, Inv, TypeOK, WindowInv
  <2>3. unwalked' = IF empty' < StopAfter THEN unwalked
                    ELSE unwalked \cup ({m \in 1..head : day[m] < floor}
                                          \ (stored \cup Queued \cup Ahead))
    BY <1>6 DEF CountWindow
  <2>4. TypeOK'
    BY <2>1, <2>2, <2>3 DEF Inv, TypeOK, Phases, head, Queued
  <2>5. CursorInv' /\ ItemInv' /\ WindowInv'
    BY <2>1 DEF Inv, CursorInv, ItemInv, WindowInv, head
  <2>6. NothingForgotten'
    <3>1. UNCHANGED <<stored, Queued, Ahead, reset, gone, head, day>> /\ unwalked \subseteq unwalked'
      BY <2>1, <2>3 DEF Queued, Ahead, NextListed, head
    <3>2. \A k \in 1..head : InWindow(k) => floor # None /\ day[k] < floor
      BY <2>1 DEF InWindow, Inv, WindowInv
    <3>3. \A k \in 1..head : InWindow(k) =>
            InWindow(k)' \/ k \in stored \cup Queued \cup Ahead \cup unwalked'
      BY <2>1, <2>3, <3>2 DEF InWindow
    <3> QED BY <3>1, <3>3, StillAccounted DEF Inv
  <2> QED BY <2>4, <2>5, <2>6 DEF Inv
<1> QED BY <1>1, <1>2, <1>3, <1>4, <1>5, <1>6 DEF Backfill, Fetch

LEMMA CrashInv ==
  ASSUME Inv, Crash
  PROVE  Inv'
<1> USE DEF mailboxVars, storeVars, memoryVars, historyVars
<1>1. /\ pc' = "idle" /\ batch' = {} /\ item' = None /\ window' = None
      /\ UNCHANGED <<mailboxVars, storeVars, historyVars>>
  BY DEF Crash
<1>2. faults' \in 0..MaxFaults
  BY MailAssumption DEF Crash, Inv, TypeOK
<1>3. TypeOK'
  BY <1>1, <1>2 DEF Inv, TypeOK, Phases, head, Queued
<1>4. CursorInv' /\ ItemInv' /\ WindowInv'
  BY <1>1 DEF Inv, CursorInv, ItemInv, WindowInv, head
<1>5. NothingForgotten'
  <2>1. UNCHANGED <<stored, Queued, Ahead, reset, unwalked, gone, head>>
    BY <1>1 DEF Queued, Ahead, NextListed, head
  <2>2. \A k \in 1..head : InWindow(k) => InWindow(k)'
    <3>1. window # None => pc \in {"fetching", "count"}
      BY DEF Inv, WindowInv
    <3> QED BY <1>1, <3>1 DEF InWindow, Inv, WindowInv
  <2> QED BY <2>1, <2>2, StillAccounted DEF Inv
<1> QED BY <1>3, <1>4, <1>5 DEF Inv

LEMMA NextInv == Inv /\ [Next]_vars => Inv'
<1> SUFFICES ASSUME Inv, [Next]_vars PROVE Inv'
  OBVIOUS
<1>1. CASE UNCHANGED vars
  <2> USE DEF vars, mailboxVars, storeVars, memoryVars, historyVars
  <2>1. NothingForgotten'
    BY <1>1, Untouched
  <2>2. TypeOK'
    BY <1>1 DEF Inv, TypeOK, head, Queued
  <2>3. CursorInv' /\ ItemInv' /\ WindowInv'
    BY <1>1 DEF Inv, CursorInv, ItemInv, WindowInv, head
  <2> QED BY <2>1, <2>2, <2>3 DEF Inv
<1> QED BY <1>1, MailboxInv, DiscoverInv, WorkInv, BackfillInv, CrashInv DEF Next

(* The inductive invariant of a mail sync.                                 *)
THEOREM InvHolds == Spec => []Inv
BY InitInv, NextInv, PTL DEF Spec

(* Every variable keeps its type: the queue has one row per message, a     *)
(* snapshot only rows that are still there, the cursor and the store only  *)
(* messages the mailbox had.                                               *)
THEOREM TypeCorrect == Spec => []TypeOK
BY InvHolds, PTL DEF Inv

(* No message is forgotten by run_sync_cycle, whatever fails and whenever  *)
(* the process dies: it is stored, queued, ahead of the cursor or of the   *)
(* backfill, or was given up for a cause the code names.                   *)
THEOREM NoMessageForgotten == Spec => []NothingForgotten
BY InvHolds, PTL DEF Inv
=============================================================================
