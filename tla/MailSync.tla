------------------------------ MODULE MailSync ------------------------------
(***************************************************************************)
(* How mail gets into the store: the Gmail side of a sync cycle, in        *)
(* src/mcpbrain/sync/__init__.py, sync/gmail.py and sync/queue.py.         *)
(*                                                                         *)
(* A cycle lists what the mailbox's history has after the cursor, page by  *)
(* page, queueing each page and moving the cursor in one transaction; works*)
(* part of the queue; and walks one backfill window further into the past. *)
(* The process may die between any two steps.                              *)
(*                                                                         *)
(* A message is its position in the mailbox's history, so the history id is *)
(* the number of messages so far.  Days are numbered; a backfill window is *)
(* WindowDays long.  Chunking, attachments, embedding, drafts and the      *)
(* other sources of a cycle are not modelled.                              *)
(***************************************************************************)
EXTENDS SyncQueue

CONSTANTS None,
          Archive,      \* the days of the messages that are there at install
          InstallDay,   \* the day of the install
          MaxMessages,  \* BOUND: messages ever in the mailbox
          LastDay,      \* BOUND: the last day
          Poisons,      \* choices for the set of messages no fetch ever gets
          PageSize,     \* messages in a page of the history
          Limit,        \* sync_work_limit: rows worked in a cycle
          Cap,          \* _BACKFILL_MAX_PER_SOURCE
          WindowDays,   \* _BACKFILL_WINDOW_DAYS
          StopAfter,    \* _STOP_AFTER_EMPTY_WINDOWS
          MaxDeletes,   \* BOUND: messages deleted
          MaxFaults,    \* BOUND: failed calls and crashes
          MaxExpiries   \* BOUND: times the history loses its oldest part

ASSUME MailAssumption ==
  /\ InstallDay \in Nat /\ LastDay \in Nat /\ InstallDay <= LastDay /\ MaxMessages \in Nat
  /\ Archive \in Seq(0..InstallDay) /\ Len(Archive) <= MaxMessages
  /\ PageSize \in Nat \ {0} /\ Limit \in Nat \ {0} /\ Cap \in Nat \ {0}
  /\ WindowDays \in Nat \ {0} /\ StopAfter \in Nat \ {0}
  /\ MaxDeletes \in Nat /\ MaxFaults \in Nat /\ MaxExpiries \in Nat
  /\ None \notin Int \cup [hid : Nat, page : Nat]
  /\ None \notin [start : Int, end : Int, todo : SUBSET Nat, beyond : SUBSET Nat, n : Nat]

VARIABLES day,       \* day[m]: the day message m arrived, for m \in 1..head
          gone,      \* the messages deleted at Google
          today,
          horizon,   \* the oldest history id Google still answers for
          poison,    \* the messages whose fetch never succeeds
          stored,    \* the messages whose chunks are in the store
          queue,     \* sync_queue, the rows of source gmail
          cursor,    \* sync_cursors: [hid, page], page = 0 when a round is over
          floor,     \* gmail_backfill_until: the first day not yet walked to
          empty,     \* gmail_backfill_empty
          pc,        \* where the cycle is
          batch,     \* work_queue's snapshot: the rows left in it
          item,      \* the row whose handler has returned, or None
          window,    \* the backfill window being fetched, or None
          faults, expiries,
          reset,     \* history: the messages a reset of the cursor jumped over
          unwalked   \* history: the messages the backfill leaves out by design

mailboxVars == <<day, gone, today, horizon, poison, expiries>>
storeVars   == <<stored, queue, cursor, floor, empty>>
memoryVars  == <<pc, batch, item, window>>
historyVars == <<reset, unwalked>>
vars == <<mailboxVars, storeVars, memoryVars, faults, historyVars>>

Msgs == 1..MaxMessages
head == Len(day)
Queued == DOMAIN queue

Phases == {"idle", "discover", "listing", "work", "working", "handled",
           "fetching", "count"}

Row    == RowOf({""}, {"upsert"})
Cursor == [hid : 0..MaxMessages, page : 0..MaxMessages]
Bare(h) == [hid |-> h, page |-> 0]

\* A window that is walked: what is left to fetch of it, how many were found.
Window == [start : Int, end : Int, todo : SUBSET Msgs, beyond : SUBSET Msgs, n : Nat]

TypeOK ==
  /\ day \in Seq(0..LastDay) /\ head <= MaxMessages
  /\ gone \subseteq 1..head /\ stored \subseteq 1..head
  /\ reset \subseteq 1..head /\ unwalked \subseteq 1..head
  /\ today \in InstallDay..LastDay
  /\ horizon \in 0..head
  /\ poison \in Poisons
  /\ queue \in [Queued -> Row] /\ Queued \subseteq 1..head
  /\ cursor \in Cursor \cup {None}
  /\ floor \in Int \cup {None} /\ empty \in 0..StopAfter
  /\ pc \in Phases /\ batch \subseteq Queued /\ item \in Queued \cup {None}
  /\ window \in Window \cup {None}
  /\ faults \in 0..MaxFaults /\ expiries \in 0..MaxExpiries

-----------------------------------------------------------------------------
(* Where a message that is not in the store is accounted for.               *)

\* The history still lists it: it is after the anchor, and after the pages of
\* this round that are already queued.
NextListed == IF cursor.page = 0 THEN cursor.hid + 1 ELSE cursor.page
Ahead == IF cursor = None THEN {} ELSE NextListed..head

\* The backfill has not walked past its day, and has not stopped walking.
InWindow(m) == \/ floor = None
               \/ day[m] < floor /\ empty < StopAfter
               \/ window # None /\ m \in window.todo \cup window.beyond
Walkable == {m \in 1..head : InWindow(m)}

Accounted == stored \cup Queued \cup Ahead \cup Walkable

-----------------------------------------------------------------------------
(* The mailbox.                                                             *)

Arrive ==
  /\ head < MaxMessages
  /\ day' = Append(day, today)
  /\ UNCHANGED <<gone, today, horizon, poison, expiries>>
  /\ UNCHANGED <<storeVars, memoryVars, faults, historyVars>>

Delete(m) ==
  /\ m \in 1..head \ gone /\ Cardinality(gone) < MaxDeletes
  /\ gone' = gone \cup {m}
  /\ UNCHANGED <<day, today, horizon, poison, expiries>>
  /\ UNCHANGED <<storeVars, memoryVars, faults, historyVars>>

NextDay ==
  /\ today < LastDay
  /\ today' = today + 1
  /\ UNCHANGED <<day, gone, horizon, poison, expiries>>
  /\ UNCHANGED <<storeVars, memoryVars, faults, historyVars>>

HistoryExpires ==
  /\ horizon < head /\ expiries < MaxExpiries
  /\ horizon' = head /\ expiries' = expiries + 1
  /\ UNCHANGED <<day, gone, today, poison>>
  /\ UNCHANGED <<storeVars, memoryVars, faults, historyVars>>

-----------------------------------------------------------------------------
(* discover_gmail.  In "discover" no page has been listed yet: the first one *)
(* is listed whatever the budget, which a round has to itself.               *)

StartCycle ==
  /\ pc = "idle"
  /\ pc' = "discover"
  /\ queue' = Aged(queue)
  /\ UNCHANGED <<mailboxVars, stored, cursor, floor, empty, batch, item, window, faults, historyVars>>

\* The first listing: nothing is listed, the cursor starts at the head.
Bootstrap ==
  /\ pc = "discover" /\ cursor = None
  /\ cursor' = Bare(head)
  /\ pc' = "work"
  /\ UNCHANGED <<mailboxVars, stored, queue, floor, empty, batch, item, window, faults, historyVars>>

Serves == cursor # None /\ cursor.hid >= horizon
PageEnd == IF NextListed + PageSize - 1 < head THEN NextListed + PageSize - 1 ELSE head

PageRows == [m \in NextListed..PageEnd |-> NewRow("", "upsert")]

\* Mutant: a page commits the newest history id, not the round's anchor.
ResumeAtLatest == Bare(head)

\* The resume state after a page: the anchor stays until the round is over.
Resume == IF PageEnd < head THEN [hid |-> cursor.hid, page |-> PageEnd + 1]
          ELSE Bare(head)

ListPage ==
  /\ pc \in {"discover", "listing"} /\ Serves
  /\ queue' = Enqueued(queue, PageRows)
  /\ cursor' = Resume
  /\ pc' = IF PageEnd < head THEN "listing" ELSE "work"
  /\ UNCHANGED <<mailboxVars, stored, floor, empty, batch, item, window, faults, historyVars>>

DiscoveryBudgetSpent ==
  /\ pc = "listing"
  /\ pc' = "work"
  /\ UNCHANGED <<mailboxVars, storeVars, batch, item, window, faults, historyVars>>

\* 404/410: the history id is too old; the cursor is reset to the head.
ResetToHead ==
  /\ pc \in {"discover", "listing"} /\ cursor # None /\ ~Serves
  /\ cursor' = Bare(head)
  /\ reset' = reset \cup (Ahead \ (stored \cup Queued))
  /\ pc' = "work"
  /\ UNCHANGED <<mailboxVars, stored, queue, floor, empty, batch, item, window, faults, unwalked>>

\* Any other error is raised to the caller: the cycle is over.  A page token is
\* dropped, its round's anchor kept.
ListFails ==
  /\ pc \in {"discover", "listing"} /\ faults < MaxFaults
  /\ faults' = faults + 1
  /\ cursor' = IF cursor # None /\ cursor.page # 0 THEN Bare(cursor.hid) ELSE cursor
  /\ pc' = "idle"
  /\ UNCHANGED <<mailboxVars, stored, queue, floor, empty, batch, item, window, historyVars>>

Discover == \/ StartCycle \/ Bootstrap \/ ListPage \/ DiscoveryBudgetSpent
            \/ ResetToHead \/ ListFails

-----------------------------------------------------------------------------
(* work_queue and handle_gmail_item.                                        *)

\* The snapshot of due rows; the budget lets n of them be worked.
BeginWork ==
  /\ pc = "work"
  /\ \E n \in 1..Limit : batch' = Due(queue, n)
  /\ pc' = "working"
  /\ UNCHANGED <<mailboxVars, storeVars, item, window, faults, historyVars>>

\* The rows of the snapshot are worked newest first.
InTurn == Newest(queue, batch, 1)

\* The chunks are written in one step, the row is deleted in another.
StoreItem(m) ==
  /\ pc = "working" /\ m \notin gone \cup poison
  /\ stored' = stored \cup {m}
  /\ pc' = "handled" /\ item' = m
  /\ UNCHANGED <<mailboxVars, queue, cursor, floor, empty, batch, window, faults, historyVars>>

\* A 404 is done, not a failure.
ItemGone(m) ==
  /\ pc = "working" /\ m \in gone
  /\ pc' = "handled" /\ item' = m
  /\ UNCHANGED <<mailboxVars, storeVars, batch, window, faults, historyVars>>

CompleteItem ==
  /\ pc = "handled"
  /\ queue' = Completed(queue, item)
  /\ batch' = batch \ {item} /\ item' = None
  /\ pc' = "working"
  /\ UNCHANGED <<mailboxVars, stored, cursor, floor, empty, window, faults, historyVars>>

FailItem(m) ==
  /\ pc = "working" /\ m \notin gone
  /\ \/ m \in poison /\ UNCHANGED faults
     \/ m \notin poison /\ faults < MaxFaults /\ faults' = faults + 1
  /\ queue' = Failed(queue, m)
  /\ batch' = batch \ {m}
  /\ UNCHANGED <<mailboxVars, stored, cursor, floor, empty, pc, item, window, historyVars>>

WorkRow == \E m \in InTurn : StoreItem(m) \/ ItemGone(m) \/ FailItem(m)

\* Embedding and publishing come next; they may use up the cycle's budget.
BudgetSpent ==
  /\ pc = "working" /\ batch = {}
  /\ pc' = "idle"
  /\ UNCHANGED <<mailboxVars, storeVars, batch, item, window, faults, historyVars>>

Work == BeginWork \/ WorkRow \/ CompleteItem \/ BudgetSpent

-----------------------------------------------------------------------------
(* progressive_backfill_step, the Gmail source: one window per cycle.       *)

\* Mutant: every window is counted from today.
WindowEndToday == today

WindowEnd   == IF floor = None THEN today ELSE floor

WindowStart == WindowEnd - WindowDays

\* messages.list: newest first, by day, without what is deleted.
Listed == {m \in 1..head \ gone : WindowStart <= day[m] /\ day[m] < WindowEnd}

\* Only the newest Cap messages of a window are fetched.
Fetched == {m \in Listed : Cardinality({k \in Listed : k > m}) < Cap}

BackfillDone ==
  /\ pc = "working" /\ batch = {} /\ empty = StopAfter
  /\ pc' = "idle"
  /\ UNCHANGED <<mailboxVars, storeVars, batch, item, window, faults, historyVars>>

BeginWindow ==
  /\ pc = "working" /\ batch = {} /\ empty < StopAfter
  /\ window' = [start |-> WindowStart, end |-> WindowEnd, n |-> 0,
                todo |-> Fetched, beyond |-> Listed \ Fetched]
  /\ pc' = "fetching"
  /\ UNCHANGED <<mailboxVars, storeVars, batch, item, faults, historyVars>>

\* The newest one that is left.
First(m) == m \in window.todo /\ \A k \in window.todo : k <= m

FetchMessage(m) ==
  /\ pc = "fetching" /\ First(m)
  /\ \/ /\ m \in gone
        /\ window' = [window EXCEPT !.todo = @ \ {m}]
        /\ UNCHANGED stored
     \/ /\ m \notin gone \cup poison
        /\ window' = [window EXCEPT !.todo = @ \ {m}, !.n = @ + 1]
        /\ stored' = stored \cup {m}
  /\ UNCHANGED <<mailboxVars, queue, cursor, floor, empty, pc, batch, item, faults, historyVars>>

\* A failed window leaves the floor where it is.
WindowFails ==
  /\ pc = "fetching"
  /\ \/ (\E m \in poison \ gone : First(m)) /\ UNCHANGED faults
     \/ faults < MaxFaults /\ faults' = faults + 1
  /\ window' = None
  /\ pc' = "idle"
  /\ UNCHANGED <<mailboxVars, storeVars, batch, item, historyVars>>

\* The first window ends today, as a day: mail of the day itself is in none.
NeverInAWindow == IF floor = None THEN {m \in 1..head : day[m] >= window.end} ELSE {}

AdvanceFloor ==
  /\ pc = "fetching" /\ window.todo = {}
  /\ floor' = window.start
  /\ window' = [window EXCEPT !.beyond = {}]
  /\ unwalked' = unwalked \cup ((window.beyond \cup NeverInAWindow)
                                  \ (stored \cup Queued \cup Ahead))
  /\ pc' = "count"
  /\ UNCHANGED <<mailboxVars, stored, queue, cursor, empty, batch, item, faults, reset>>

\* A hit resets the count of consecutive empty windows.
CountWindow ==
  /\ pc = "count"
  /\ empty' = IF window.n > 0 THEN 0 ELSE empty + 1
  /\ unwalked' = IF empty' < StopAfter THEN unwalked
                 ELSE unwalked \cup ({m \in 1..head : day[m] < floor}
                                       \ (stored \cup Queued \cup Ahead))
  /\ window' = None
  /\ pc' = "idle"
  /\ UNCHANGED <<mailboxVars, stored, queue, cursor, floor, batch, item, faults, reset>>

Fetch == \/ \E m \in Msgs : FetchMessage(m)
         \/ WindowFails \/ AdvanceFloor \/ CountWindow
Backfill == BackfillDone \/ BeginWindow \/ Fetch

-----------------------------------------------------------------------------
Crash ==
  /\ pc # "idle" /\ faults < MaxFaults
  /\ faults' = faults + 1
  /\ pc' = "idle" /\ batch' = {} /\ item' = None /\ window' = None
  /\ UNCHANGED <<mailboxVars, storeVars, historyVars>>

Init ==
  /\ day = Archive /\ gone = {} /\ today = InstallDay /\ horizon = 0
  /\ poison \in Poisons
  /\ stored = {} /\ queue = NoRows /\ cursor = None /\ floor = None /\ empty = 0
  /\ pc = "idle" /\ batch = {} /\ item = None /\ window = None
  /\ faults = 0 /\ expiries = 0 /\ reset = {} /\ unwalked = {}

Mailbox == \/ Arrive \/ NextDay
           \/ \E m \in Msgs : Delete(m)
           \/ HistoryExpires

Next == Mailbox \/ Discover \/ Work \/ Backfill \/ Crash

Spec == Init /\ [][Next]_vars

\* The daemon's loop runs one cycle after the other.  Embedding does not use
\* up every cycle's budget: what there is to embed is finite.
Fairness ==
  /\ WF_vars(StartCycle \/ Bootstrap \/ ListPage \/ DiscoveryBudgetSpent \/ ResetToHead)
  /\ WF_vars(Work)
  /\ WF_vars(Fetch)
  /\ SF_vars(BackfillDone \/ BeginWindow)

FairSpec == Spec /\ Fairness

-----------------------------------------------------------------------------
(* Properties.                                                              *)

\* No message is forgotten, whatever fails and whenever the process dies: it
\* is in the store, queued, still ahead of the history cursor or still to be
\* met by the backfill -- unless it was given up for one of the reasons the
\* code names (history expired, window over its cap, the install day, a year
\* without mail).  enqueue_and_advance, discover_gmail,
\* progressive_backfill_step.
NothingForgotten == \A m \in 1..head \ gone : m \in Accounted \cup reset \cup unwalked

\* A message that arrives after the first listing reaches the store, unless it
\* is deleted, can never be fetched, or fell out of the history.  Rows that
\* fail for ever and rounds cut short by their budget do not keep others out.
\* work_queue, due_sync_items, discover_gmail.
NewMailArrives ==
  \A m \in Msgs \ DOMAIN Archive :
    (cursor # None /\ m \in Ahead) ~> (m \in stored \cup gone \cup poison \cup reset)

\* The backfill walks back until a year of windows is empty, if every old
\* message can be fetched.  progressive_backfill_step.
BackfillEnds == (poison = {}) ~> (empty = StopAfter)

\* "historyId too old: reset to head and let backfill cover the gap"
\* (sync/gmail.py:151): what a reset jumped over is still met by the backfill.
GapIsCovered == reset \ gone \subseteq Accounted

\* "one progressive-backfill step that walks one historical window per source
\* (newest-to-oldest) so the corpus eventually contains everything"
\* (sync/__init__.py:52): a message in the archive that can be fetched gets into
\* the store although another one of its window cannot.
CorpusCompletes ==
  \A m \in DOMAIN Archive : <>(m \in stored \cup gone \cup poison \cup unwalked)
=============================================================================
