----------------------------- MODULE DaemonLoop -----------------------------
(* The two threads of the daemon (daemon.py): the cycle thread syncs, enriches
   and backs up; the maintenance thread runs the periodic passes and carries
   the watchdog, which ends the process when a progress stamp is too old. They
   share the bulk lock, taken for one small unit of work at a time.

   Time is counted in ticks.  A pause between two cycles, the rest of a cycle and
   an upload step each last less than two ticks; a unit of work under the lock and
   a bounded wait for it pass within one; a capture and a pass under the lock may
   last any number. *)
EXTENDS Naturals

CONSTANTS
  Stall,       \* STALL_S in ticks: a stamp older than this is a stall
  MaxStreak,   \* failed cycles in a row above which the watchdog does not restart
  MaxExits,    \* WATCHDOG_MAX_EXITS
  MaxPauses,   \* bound: how often the user pauses the daemon
  MaxFaults,   \* bound: calls that never return, and deaths of the maintenance thread
  MaxSlow      \* bound: units of work, and copies, that outlast a waiter's patience

ASSUME DaemonAssumption ==
  /\ {Stall, MaxStreak, MaxExits, MaxPauses, MaxFaults, MaxSlow} \subseteq Nat
  /\ Stall > 2 /\ MaxExits > 0

VARIABLES
  cycle,    \* what the cycle thread is doing
  part,     \* which half of run_cycle it is in
  maint,    \* what the maintenance thread is doing
  lag,      \* whether a tick has passed in the thread's present stretch of work
  age,      \* _progress: the age of each stamp made so far
  paused, held, due, streak, exits,
  late,     \* history: accounted-for work that lasted a tick since all was restamped
  pauses, faults, slow   \* what is left of the bounds

threadVars == <<cycle, part, maint, lag>>
flagVars == <<paused, held, due, streak, exits>>
boundVars == <<pauses, faults, slow>>
loopVars == <<threadVars, age, flagVars, late, boundVars>>

Keys == {"cycle", "sync", "backup", "maintenance"}
Paced == {"idle", "run", "upload"}
Wedged == {"hung", "hungsection"}
InCapture == {"capture", "copy", "pack"}
CycleStates == Paced \union Wedged \union InCapture \union {"want", "section", "yield", "backup"}
MaintStates == {"sleep", "wait", "gated", "judge", "dead"}

CycleHolds == cycle \in {"section", "hungsection", "copy"}
LockFree == ~CycleHolds /\ maint # "gated"
Wanted == maint = "wait"

(* The sleep between two cycles, and the pause after a unit of work, are long
   enough for a thread that waits to take the lock once it is free. *)
Served == ~(Wanted /\ LockFree)

Stalled(stamps) == \E k \in DOMAIN stamps : stamps[k] > Stall

Noted(key) == [k \in DOMAIN age \union {key} |-> IF k = key THEN 0 ELSE age[k]]
AllFresh(stamps) == [k \in DOMAIN stamps |-> 0]
Older == [k \in DOMAIN age |-> IF age[k] > Stall THEN age[k] ELSE age[k] + 1]

-----------------------------------------------------------------------------
(* The cycle thread. *)

Goto(state) == cycle' = state /\ lag' = [lag EXCEPT !.cycle = 0]
Stay(state) == cycle' = state /\ UNCHANGED lag

(* run_one while paused returns at once; on a restore hold it stamps everything.
   Both go on to the backup step. *)
SkipCycle ==
  /\ cycle = "idle" /\ Served
  /\ paused \/ held
  /\ IF paused THEN UNCHANGED <<age, late>>
               ELSE age' = AllFresh(age) /\ late' = {}
  /\ streak' = 0
  /\ Goto("backup")
  /\ UNCHANGED <<part, maint, paused, held, due, exits, boundVars>>

BeginCycle ==
  /\ cycle = "idle" /\ Served
  /\ ~paused /\ ~held
  /\ Goto("run")
  /\ UNCHANGED <<part, maint, age, flagVars, late, boundVars>>

WantSection ==
  /\ cycle = "run"
  /\ Stay("want")
  /\ UNCHANGED <<part, maint, age, flagVars, late, boundVars>>

EnterSection ==
  /\ cycle = "want" /\ LockFree
  /\ Stay("section")
  /\ UNCHANGED <<part, maint, age, flagVars, late, boundVars>>

LeaveAtOnce ==
  /\ cycle = "section"
  /\ Stay("run")
  /\ UNCHANGED <<part, maint, age, flagVars, late, boundVars>>

(* Leaving a unit of work makes room for a thread that is waiting. *)
LeaveSection ==
  /\ cycle = "section"
  /\ Stay(IF Wanted THEN "yield" ELSE "run")
  /\ UNCHANGED <<part, maint, age, flagVars, late, boundVars>>

EndYield ==
  /\ cycle = "yield" /\ Served
  /\ Stay("run")
  /\ UNCHANGED <<part, maint, age, flagVars, late, boundVars>>

SyncDone ==
  /\ cycle = "run" /\ part = "sync"
  /\ part' = "enrich" /\ age' = Noted("sync")
  /\ UNCHANGED <<cycle, maint, lag, flagVars, late, boundVars>>

CycleDone ==
  /\ cycle = "run" /\ part = "enrich"
  /\ age' = Noted("cycle") /\ streak' = 0
  /\ Goto("backup") /\ part' = "sync"
  /\ UNCHANGED <<maint, paused, held, due, exits, late, boundVars>>

(* The cycle raises; a unit of work it was in has been left as any other. *)
CycleFails ==
  /\ cycle = "run"
  /\ age' = Noted("cycle")
  /\ streak' = IF streak > MaxStreak THEN streak ELSE streak + 1
  /\ Goto("backup") /\ part' = "sync"
  /\ UNCHANGED <<maint, paused, held, due, exits, late, boundVars>>

Hang ==
  /\ faults > 0 /\ faults' = faults - 1
  /\ \/ cycle \in {"run", "upload"} /\ Goto("hung")
     \/ cycle = "section" /\ Goto("hungsection")
  /\ part' = "sync"
  /\ UNCHANGED <<maint, age, flagVars, late, pauses, slow>>

(* The backup step stamps itself first, then captures if a capture is due. *)
StartBackup ==
  /\ cycle = "backup"
  /\ age' = Noted("backup")
  /\ \/ ~held /\ Goto("capture")
     \/ Goto("upload")
  /\ UNCHANGED <<part, maint, flagVars, late, boundVars>>

StartCopy ==
  /\ cycle = "capture" /\ LockFree
  /\ Goto("copy")
  /\ UNCHANGED <<part, maint, age, flagVars, late, boundVars>>

CaptureBusy ==
  /\ cycle = "capture" /\ ~LockFree
  /\ Goto("upload")
  /\ UNCHANGED <<part, maint, age, flagVars, late, boundVars>>

(* The copy is packed and encrypted without the lock. *)
Copied ==
  /\ cycle = "copy"
  /\ Goto("pack") \/ Goto("upload")
  /\ UNCHANGED <<part, maint, age, flagVars, late, boundVars>>

Packed ==
  /\ cycle = "pack"
  /\ Goto("upload")
  /\ UNCHANGED <<part, maint, age, flagVars, late, boundVars>>

UploadProgress ==
  /\ cycle = "upload"
  /\ age' = Noted("backup")
  /\ UNCHANGED <<threadVars, flagVars, late, boundVars>>

StampBackupOnly ==
  /\ cycle = "upload"
  /\ age' = Noted("backup") /\ late' = {}
  /\ cycle' = "idle"
  /\ maint' = IF maint = "dead" THEN "sleep" ELSE maint
  /\ lag' = [lag EXCEPT !.cycle = 0, !.maint = IF maint = "dead" THEN 1 ELSE @]
  /\ UNCHANGED <<part, flagVars, boundVars>>

(* The step ends with every stamp renewed; a dead maintenance thread is started
   again, and runs at once. *)
EndStep ==
  /\ cycle = "upload"
  /\ age' = AllFresh(Noted("backup")) /\ late' = {}
  /\ cycle' = "idle"
  /\ maint' = IF maint = "dead" THEN "sleep" ELSE maint
  /\ lag' = [lag EXCEPT !.cycle = 0, !.maint = IF maint = "dead" THEN 1 ELSE @]
  /\ UNCHANGED <<part, flagVars, boundVars>>

CycleThread ==
  \/ SkipCycle \/ BeginCycle \/ WantSection \/ EnterSection \/ LeaveSection
  \/ EndYield \/ SyncDone \/ CycleDone \/ StartBackup \/ StartCopy
  \/ CaptureBusy \/ Copied \/ Packed \/ EndStep

-----------------------------------------------------------------------------
(* The maintenance thread. *)

SleepOn ==
  /\ maint = "sleep" /\ paused
  /\ lag' = [lag EXCEPT !.maint = 0]
  /\ lag # lag'
  /\ UNCHANGED <<cycle, part, maint, age, flagVars, late, boundVars>>

Wake ==
  /\ maint = "sleep" /\ ~paused
  /\ maint' = IF due /\ ~held THEN "wait" ELSE "judge"
  /\ UNCHANGED <<cycle, part, lag, age, flagVars, late, boundVars>>

GetLock ==
  /\ maint = "wait" /\ LockFree
  /\ maint' = "gated"
  /\ UNCHANGED <<cycle, part, lag, age, flagVars, late, boundVars>>

NeverSkipPass == FALSE /\ UNCHANGED loopVars

(* The wait is bounded: the pass stays due and the thread goes on to its watch. *)
SkipPass ==
  /\ maint = "wait" /\ ~LockFree
  /\ \/ cycle = "hungsection" /\ UNCHANGED slow
     \/ cycle # "hungsection" /\ slow > 0 /\ slow' = slow - 1
  /\ maint' = "judge"
  /\ UNCHANGED <<cycle, part, lag, age, flagVars, late, pauses, faults>>

(* A pass that fails stays due. *)
EndPass ==
  /\ maint = "gated"
  /\ due' \in BOOLEAN
  /\ maint' = "judge"
  /\ UNCHANGED <<cycle, part, lag, age, paused, held, streak, exits, late, boundVars>>

MayRecover ==
  /\ Stalled(Noted("maintenance"))
  /\ exits < MaxExits
  /\ cycle \notin InCapture
  /\ streak <= MaxStreak

KeepWatch ==
  /\ maint = "judge" /\ ~MayRecover
  /\ age' = Noted("maintenance")
  /\ maint' = "sleep" /\ lag' = [lag EXCEPT !.maint = 0]
  /\ UNCHANGED <<cycle, part, flagVars, late, boundVars>>

(* The process ends and its successor starts: only the count of exits and the
   hold are on disk. *)
Restart ==
  /\ maint = "judge" /\ MayRecover
  /\ exits' = exits + 1
  /\ cycle' = "idle" /\ part' = "sync" /\ maint' = "sleep"
  /\ lag' = [cycle |-> 1, maint |-> 1]
  /\ age' = [k \in {"cycle"} |-> 0]
  /\ paused' = FALSE /\ due' = TRUE /\ streak' = 0 /\ late' = {}
  /\ UNCHANGED <<held, boundVars>>

ThreadDies ==
  /\ maint = "judge" /\ faults > 0
  /\ faults' = faults - 1
  /\ maint' = "dead"
  /\ UNCHANGED <<cycle, part, lag, age, flagVars, late, pauses, slow>>

MaintThread ==
  SleepOn \/ Wake \/ GetLock \/ SkipPass \/ EndPass \/ KeepWatch \/ Restart

-----------------------------------------------------------------------------
(* The user, the restore hold, the cadence and the clock. *)

Pause ==
  /\ ~paused /\ pauses > 0
  /\ paused' = TRUE /\ pauses' = pauses - 1
  /\ UNCHANGED <<threadVars, age, held, due, streak, exits, late, faults, slow>>

Resume ==
  /\ paused
  /\ age' = AllFresh(age) /\ late' = {}
  /\ paused' = FALSE
  /\ UNCHANGED <<threadVars, held, due, streak, exits, boundVars>>

HoldLifts ==
  /\ held /\ held' = FALSE
  /\ UNCHANGED <<threadVars, age, paused, due, streak, exits, late, boundVars>>

FallsDue ==
  /\ ~due /\ due' = TRUE
  /\ UNCHANGED <<threadVars, age, paused, held, streak, exits, late, boundVars>>

ExitAgesOut ==
  /\ exits > 0 /\ exits' = exits - 1
  /\ UNCHANGED <<threadVars, age, paused, held, due, streak, late, boundVars>>

BlockedByPass == cycle = "want" /\ maint = "gated"

Tick ==
  /\ \/ cycle \in {"copy", "pack"} \union Wedged
     \/ cycle \in Paced /\ lag.cycle = 0
     \/ BlockedByPass
  /\ \/ maint \in {"gated", "dead"}
     \/ maint = "sleep" /\ lag.maint = 0
  /\ age' = Older
  /\ lag' = [cycle |-> IF cycle \in Paced THEN 1 ELSE lag.cycle,
             maint |-> IF maint = "sleep" THEN 1 ELSE lag.maint]
  /\ late' = late \union (IF cycle \in {"copy", "pack"} THEN {"capture"} ELSE {})
                  \union (IF maint = "gated" THEN {"pass"} ELSE {})
  /\ UNCHANGED <<cycle, part, maint, flagVars, boundVars>>

LoopInit ==
  /\ cycle = "idle" /\ part = "sync" /\ maint = "sleep"
  /\ lag = [cycle |-> 1, maint |-> 1]
  /\ age = [k \in {"cycle"} |-> 0]
  /\ paused = FALSE /\ held \in BOOLEAN /\ due = TRUE
  /\ streak = 0 /\ exits = 0 /\ late = {}
  /\ pauses = MaxPauses /\ faults = MaxFaults /\ slow = MaxSlow

World == Pause \/ Resume \/ HoldLifts \/ FallsDue \/ ExitAgesOut \/ Tick
LoopNext ==
  \/ CycleThread \/ CycleFails \/ Hang \/ UploadProgress
  \/ MaintThread \/ ThreadDies
  \/ World

LoopSpec == LoopInit /\ [][LoopNext]_loopVars

(* Both threads run, every wait and every pass ends, and time passes. *)
Fairness ==
  /\ SF_loopVars(Tick)
  /\ WF_loopVars(CycleThread)
  /\ WF_loopVars(Wake) /\ WF_loopVars(GetLock) /\ WF_loopVars(SkipPass) /\ WF_loopVars(EndPass)
  /\ WF_loopVars(KeepWatch \/ Restart)
  /\ WF_loopVars(Resume)

FairSpec == LoopSpec /\ Fairness

-----------------------------------------------------------------------------
(* The watchdog ends the process only when the cycle thread is stuck in a call
   that never returns: a pause, a restore hold, failing cycles, a busy lock and an
   ordinary backup are no stall.  The exceptions: a pass under the lock and a
   capture that outlast a tick (the latter ends, and the upload behind it runs with
   the stamps of "cycle" and "sync" still old). *)
NoNeedlessRestart == [][exits' > exits => cycle \in Wedged \/ late # {}]_loopVars

(* The watch is off while paused, when too many exits were recent, while cycles
   keep failing, and when its own thread is dead. *)
Watched == ~paused /\ exits < MaxExits /\ streak <= MaxStreak /\ maint # "dead"

(* A cycle thread that never comes back, with or without the bulk lock in hand,
   ends in a restart: waiting for the lock does not keep the watchdog from its
   watch. *)
WedgeEnds == (cycle \in Wedged /\ Watched) ~> ~(cycle \in Wedged /\ Watched)

(* A pass that needs the bulk lock gets its turn, however long the backlog keeps
   the cycle thread taking the lock again and again. *)
Waiting == due /\ ~held /\ Watched /\ cycle # "hungsection"
GatedPassRuns == Waiting ~> (maint = "gated" \/ ~Waiting)

(* A long backup is never taken for a stall. *)
BackupIsNoStall ==
  [][exits' > exits => cycle \in Wedged \/ "pass" \in late \/ cycle # "upload"]_loopVars
=============================================================================
