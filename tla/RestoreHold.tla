----------------------------- MODULE RestoreHold -----------------------------
(***************************************************************************)
(* Restore on first run, and the hold: src/mcpbrain/daemon.py              *)
(* (_startup_restore, _retry_pending_restore and what they call), with the *)
(* wizard's restore of control_api.py (/api/backup/auto) on its own        *)
(* thread.  A daemon that starts with an empty store restores the newest   *)
(* restore point before anything writes; while Google cannot be reached it *)
(* HOLDS: nothing syncs, so that the store stays empty for the restore.    *)
(* What a restore does on Drive is module BackupRestore.                   *)
(***************************************************************************)
EXTENDS Naturals

CONSTANTS MaxRestarts, \* WATCHDOG_MAX_EXITS: restarts the process may give itself
          MaxChanges,  \* BOUND: changes of Google's reachability
          MaxFailures  \* BOUND: crashes, unwritable or unremovable marker files

ASSUME HoldAssumption == MaxRestarts \in Nat /\ MaxChanges \in Nat /\ MaxFailures \in Nat

VARIABLES
  point,    \* what Drive holds: none, good, broken (read, but does not verify)
            \* or unreadable (manifests this key cannot decrypt)
  google,   \* up, down (a transient error: Google's, a full disk, a busy store) or
            \* denied (no or refused credentials)
  store,    \* empty, restored or synced
  records,  \* the records repository and config.json are those of the store
  marker,   \* restore_pending.json exists
  restarts, \* restarts in the watchdog's window
  phase,    \* down, starting, swapped (in _startup_restore) or loop
  hold,     \* _restore_pending
  unlink,   \* _restore_unlink_pending
  retry,    \* the restore backoff is pending
  spent,    \* _restore_budget_spent
  error,    \* _restore_error is set
  wizard,   \* idle, or restoring: between its check and its swap
  told,     \* history: an error was reported for a store without its records
  refused,  \* history: a start or a probe met refused credentials
  changes, failures

env    == <<point, google, changes>>
disk   == <<store, records, marker, restarts>>
memory == <<phase, hold, unlink, retry, spent, error, wizard>>
vars   == <<env, disk, memory, told, refused, failures>>

\* Google may stop answering in the middle of any remote call.
Answers == google = "up" /\ store = "empty"

-----------------------------------------------------------------------------
(* The hold.                                                                *)

\* _hold_for_restore; a marker that cannot be written leaves it in memory.
Hold(written) ==
  /\ hold' = TRUE
  /\ marker' = (marker \/ (~hold /\ written))
  /\ written \/ failures < MaxFailures
  /\ failures' = IF written THEN failures ELSE failures + 1

\* _release_restore_hold; a marker that cannot be removed keeps the hold on.
Release(removed) ==
  /\ removed \/ (marker /\ failures < MaxFailures)
  /\ marker' = (marker /\ ~removed)
  /\ hold' = ~removed
  /\ unlink' = (unlink \/ ~removed)
  /\ retry' = FALSE
  /\ failures' = IF removed THEN failures ELSE failures + 1

\* A new process: what was in memory is gone, the marker is read.
Boot ==
  /\ phase = "down"
  /\ phase' = "starting"
  /\ hold' = marker
  /\ unlink' = FALSE /\ retry' = FALSE /\ spent' = FALSE /\ error' = FALSE
  /\ wizard' = "idle"
  /\ UNCHANGED <<env, disk, told, refused, failures>>

-----------------------------------------------------------------------------
(* _startup_restore, on the loop thread before anything writes.             *)

\* Content is never restored over; without credentials nothing can be restored;
\* no restore point, or a failure for good (broken points, a lookup refused:
\* reported): no hold.
StartWithout(removed) ==
  /\ phase = "starting"
  /\ \/ store # "empty" /\ UNCHANGED <<error, refused>>
     \/ store = "empty" /\ google = "denied" /\ refused' = TRUE /\ UNCHANGED error
     \/ Answers /\ point = "none" /\ UNCHANGED <<error, refused>>
     \/ Answers /\ (point \in {"broken", "unreadable"} \/ failures < MaxFailures)
        /\ error' = TRUE /\ UNCHANGED refused
  /\ Release(removed)
  /\ phase' = "loop"
  /\ UNCHANGED <<env, store, records, restarts, spent, wizard, told>>

\* Mutant: an outage at start-up does not schedule the next look.
StartHeldUnscheduled(written, waited) ==
  /\ phase = "starting" /\ store = "empty" /\ google = "down"
  /\ Hold(written)
  /\ phase' = IF waited THEN "loop" ELSE "starting"
  /\ UNCHANGED <<env, store, records, restarts, unlink, retry, spent, error, wizard,
                 told, refused>>

\* A transient failure holds: tried again, until the start-up wait is over.
StartHeld(written, waited) ==
  /\ phase = "starting" /\ store = "empty" /\ google = "down"
  /\ Hold(written) /\ retry' = TRUE
  /\ phase' = IF waited THEN "loop" ELSE "starting"
  /\ UNCHANGED <<env, store, records, restarts, unlink, spent, error, wizard, told, refused>>

StartSwap ==
  /\ phase = "starting" /\ Answers /\ point = "good"
  /\ store' = "restored" /\ records' = FALSE
  /\ phase' = "swapped"
  /\ UNCHANGED <<env, marker, restarts, hold, unlink, retry, spent, error, wizard, told,
                 refused, failures>>

\* The records and config.json are placed, or that fails and is reported.
StartPlace(placed, removed) ==
  /\ phase = "swapped"
  /\ records' = placed
  /\ error' = (error \/ ~placed) /\ told' = (told \/ ~placed)
  /\ Release(removed)
  /\ phase' = "loop"
  /\ UNCHANGED <<env, store, restarts, spent, wizard, refused>>

-----------------------------------------------------------------------------
(* The loop.                                                                *)

\* A cycle fills the store.
Sync ==
  /\ phase = "loop" /\ ~hold
  /\ store = "empty" /\ store' = "synced"
  /\ UNCHANGED <<env, records, marker, restarts, memory, told, refused, failures>>

RetryUnlink ==
  /\ phase = "loop" /\ hold /\ unlink
  /\ marker' = FALSE /\ unlink' = FALSE /\ hold' = FALSE
  /\ UNCHANGED <<env, store, records, restarts, phase, retry, spent, error, wizard, told,
                 refused, failures>>

Probing == phase = "loop" /\ hold /\ ~unlink /\ retry

\* Mutant: a probe that fails is read as an answer.
ProbeAnyReleases(removed) ==
  /\ Probing
  /\ \/ google = "denied" /\ refused' = TRUE
     \/ google = "down" /\ UNCHANGED refused
     \/ google = "up" /\ point \in {"none", "unreadable"} /\ UNCHANGED refused
  /\ Release(removed)
  /\ UNCHANGED <<env, store, records, restarts, phase, spent, error, wizard, told>>

\* Mutant: broken restore points are found by the probe to be none.
ProbeBrokenReleases(removed) ==
  /\ Probing
  /\ \/ google = "denied" /\ refused' = TRUE
     \/ google = "up" /\ point # "good" /\ UNCHANGED refused
  /\ Release(removed)
  /\ UNCHANGED <<env, store, records, restarts, phase, spent, error, wizard, told>>

\* No credentials, or no restore point among those that can be read: the
\* listing leaves out a manifest that does not decrypt.
ProbeReleases(removed) ==
  /\ Probing
  /\ \/ google = "denied" /\ refused' = TRUE
     \/ google = "up" /\ point \in {"none", "unreadable"} /\ UNCHANGED refused
  /\ Release(removed)
  /\ UNCHANGED <<env, store, records, restarts, phase, spent, error, wizard, told>>

\* The lookup fails for good: reported, and not held for.
ProbeFails(removed) ==
  /\ Probing /\ google = "up" /\ failures < MaxFailures
  /\ error' = TRUE
  /\ Release(removed)
  /\ UNCHANGED <<env, store, records, restarts, phase, spent, wizard, told, refused>>

\* A restore point is there: restart, so that the start-up restore runs.  The
\* restart is counted, unless the file of restarts cannot be written.
ProbeRestarts(recorded) ==
  /\ Probing /\ google = "up" /\ point \in {"good", "broken"}
  /\ restarts < MaxRestarts
  /\ recorded \/ failures < MaxFailures
  /\ restarts' = IF recorded THEN restarts + 1 ELSE restarts
  /\ failures' = IF recorded THEN failures ELSE failures + 1
  /\ phase' = "down"
  /\ UNCHANGED <<env, store, records, marker, hold, unlink, retry, spent, error,
                 wizard, told, refused>>

\* The restart budget is spent: held until somebody restarts the daemon.
ProbeSpent ==
  /\ Probing /\ google = "up" /\ point \in {"good", "broken"}
  /\ restarts >= MaxRestarts
  /\ retry' = FALSE /\ spent' = TRUE
  /\ UNCHANGED <<env, disk, phase, hold, unlink, error, wizard, told, refused, failures>>

-----------------------------------------------------------------------------
(* The wizard, on an HTTP thread.                                           *)

WizardCheck ==
  /\ phase # "down" /\ wizard = "idle"
  /\ Answers /\ point = "good"
  /\ wizard' = "restoring"
  /\ UNCHANGED <<env, disk, phase, hold, unlink, retry, spent, error, told, refused, failures>>

\* The store is swapped without a second look at its content.
WizardSwap(placed) ==
  /\ phase # "down" /\ wizard = "restoring" /\ google = "up"
  /\ store' = "restored" /\ records' = placed
  /\ error' = (error \/ ~placed) /\ told' = (told \/ ~placed)
  /\ wizard' = "idle"
  /\ UNCHANGED <<env, marker, restarts, phase, hold, unlink, retry, spent, refused, failures>>

WizardFails ==
  /\ wizard = "restoring" /\ wizard' = "idle"
  /\ UNCHANGED <<env, disk, phase, hold, unlink, retry, spent, error, told, refused, failures>>

-----------------------------------------------------------------------------
(* The environment.                                                         *)

GoogleChanges ==
  /\ changes < MaxChanges
  /\ google' \in {"up", "down", "denied"} \ {google}
  /\ changes' = changes + 1
  /\ UNCHANGED <<point, disk, memory, told, refused, failures>>

\* The oldest restart leaves the watchdog's window.
ExitExpires ==
  /\ restarts > 0 /\ restarts' = restarts - 1
  /\ UNCHANGED <<env, store, records, marker, memory, told, refused, failures>>

Crash ==
  /\ phase # "down" /\ failures < MaxFailures
  /\ phase' = "down"
  /\ failures' = failures + 1
  /\ UNCHANGED <<env, disk, hold, unlink, retry, spent, error, wizard, told, refused>>

Init ==
  /\ point \in {"none", "good", "broken", "unreadable"}
  /\ google \in {"up", "down", "denied"}
  /\ store = "empty" /\ records = FALSE /\ marker = FALSE /\ restarts = 0
  /\ phase = "down" /\ hold = FALSE /\ unlink = FALSE /\ retry = FALSE
  /\ spent = FALSE /\ error = FALSE /\ wizard = "idle"
  /\ told = FALSE /\ refused = FALSE /\ changes = 0 /\ failures = 0

Startup == \/ Boot
           \/ \E ok \in BOOLEAN : StartWithout(ok)
           \/ \E ok, waited \in BOOLEAN : StartHeld(ok, waited)
           \/ StartSwap
           \/ \E ok, removed \in BOOLEAN : StartPlace(ok, removed)

Loop == \/ Sync
        \/ RetryUnlink
        \/ \E ok \in BOOLEAN : ProbeReleases(ok) \/ ProbeFails(ok) \/ ProbeRestarts(ok)
        \/ ProbeSpent

Wizard == WizardCheck \/ (\E ok \in BOOLEAN : WizardSwap(ok)) \/ WizardFails

Next == Startup \/ Loop \/ Wizard \/ GoogleChanges \/ ExitExpires \/ Crash

\* The supervisor starts the process again, and the loop thread runs; that a
\* start-up wait ends and that a probe is answered is a step of theirs.
Spec == Init /\ [][Next]_vars /\ WF_vars(Startup) /\ WF_vars(Loop)

-----------------------------------------------------------------------------
\* Every variable holds one of the states the code can put it in; the restarts in
\* the window never exceed the watchdog's budget.
TypeOK ==
  /\ point \in {"none", "good", "broken", "unreadable"}
  /\ google \in {"up", "down", "denied"}
  /\ store \in {"empty", "restored", "synced"}
  /\ phase \in {"down", "starting", "swapped", "loop"}
  /\ wizard \in {"idle", "restoring"}
  /\ {records, marker, hold, unlink, retry, spent, error, told, refused} \subseteq BOOLEAN
  /\ restarts \in 0..MaxRestarts /\ changes \in 0..MaxChanges /\ failures \in 0..MaxFailures

\* Through any outage, restart, crash or failed marker write, sync does not fill
\* an empty store while Drive holds a good restore point -- unless credentials
\* were refused, or a failed lookup was reported.
OutageNeverFills ==
  [][store = "empty" /\ store' = "synced" /\ point = "good" => refused \/ error]_vars

\* Restore points that do not verify are not silently given up: when sync starts
\* over them the error has been set by the running process.
BrokenSurfaces ==
  [][store = "empty" /\ store' = "synced" /\ point = "broken" => refused \/ error]_vars

\* The same of restore points that cannot be read at all (a wrong key).
UnreadableSurfaces ==
  [][store = "empty" /\ store' = "synced" /\ point = "unreadable" => refused \/ error]_vars

\* "The store is NEVER overwritten once it has content."
NeverOverwritten == [][store = "synced" => store' = "synced"]_vars

\* A store that was restored without its records is reported as that.
PartialIsReported == phase = "loop" /\ store = "restored" => records \/ told

\* A hold ends, once Google stays reachable: with a store that has content or
\* leave to fill it, or with the restart budget spent, which is on record.
HoldEnds == (<>[](google = "up")) => []<>(~hold \/ spent)
=============================================================================
