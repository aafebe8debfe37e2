---------------------------- MODULE DaemonProofs ----------------------------
(***************************************************************************)
(* Theorems about the daemon's two state machines: the restore hold        *)
(* (RestoreHold), for any number of restarts in the window, changes of     *)
(* reachability and failures, and its two threads under the watchdog       *)
(* (DaemonLoop), for any stall limit and any bounds.                       *)
(***************************************************************************)
EXTENDS RestoreHold, DaemonLoop, TLAPS

---------------------------------------------------------------------------
(* The restore hold. *)

(* The loop is only free to fill an empty store, or one release of a       *)
(* marker away from it, when there is nothing to restore or somebody has   *)
(* been told.  A start-up has no release pending.                          *)
Worth == point \in {"good", "broken"}

FreeOnlyIfTold ==
  phase = "loop" /\ store = "empty" /\ Worth /\ (~hold \/ unlink) => refused \/ error

HoldInv ==
  /\ phase = "starting" => unlink = FALSE
  /\ phase = "swapped" => store # "empty"
  /\ FreeOnlyIfTold

Inv == TypeOK /\ HoldInv

---------------------------------------------------------------------------
LEMMA InitInv == Init => Inv
<1> SUFFICES ASSUME Init PROVE Inv
  OBVIOUS
<1>1. 0 \in 0..MaxRestarts /\ 0 \in 0..MaxChanges /\ 0 \in 0..MaxFailures
  BY HoldAssumption
<1>2. {records, marker, hold, unlink, retry, spent, error, told, refused} \subseteq BOOLEAN
  BY DEF Init
<1>3. TypeOK
  BY <1>1, <1>2 DEF Init, TypeOK
<1>4. HoldInv
  BY DEF Init, HoldInv, FreeOnlyIfTold
<1> QED BY <1>3, <1>4 DEF Inv

\* Holding and releasing keep the types.
LEMMA HoldType ==
  ASSUME TypeOK, NEW ok \in BOOLEAN, Hold(ok)
  PROVE  hold' = TRUE /\ marker' \in BOOLEAN /\ failures' \in 0..MaxFailures
BY HoldAssumption DEF TypeOK, Hold

LEMMA ReleaseType ==
  ASSUME TypeOK, NEW ok \in BOOLEAN, Release(ok)
  PROVE  /\ hold' \in BOOLEAN /\ marker' \in BOOLEAN /\ unlink' \in BOOLEAN
         /\ retry' = FALSE /\ failures' \in 0..MaxFailures
BY HoldAssumption DEF TypeOK, Release

LEMMA TypeInv ==
  ASSUME TypeOK, [Next]_vars
  PROVE  TypeOK'
<1> USE DEF env, disk, memory
<1>1. CASE Boot
  BY <1>1 DEF Boot, TypeOK
<1>2. ASSUME NEW ok \in BOOLEAN, StartWithout(ok) PROVE TypeOK'
  BY <1>2, ReleaseType DEF StartWithout, TypeOK
<1>3. ASSUME NEW ok \in BOOLEAN, NEW waited \in BOOLEAN, StartHeld(ok, waited) PROVE TypeOK'
  BY <1>3, HoldType DEF StartHeld, TypeOK
<1>4. CASE StartSwap
  BY <1>4 DEF StartSwap, TypeOK
<1>5. ASSUME NEW ok \in BOOLEAN, NEW removed \in BOOLEAN, StartPlace(ok, removed) PROVE TypeOK'
  BY <1>5, ReleaseType DEF StartPlace, TypeOK
<1>6. CASE Sync
  BY <1>6 DEF Sync, TypeOK
<1>7. CASE RetryUnlink
  BY <1>7 DEF RetryUnlink, TypeOK
<1>8. ASSUME NEW ok \in BOOLEAN, ProbeReleases(ok) PROVE TypeOK'
  BY <1>8, ReleaseType DEF ProbeReleases, TypeOK
<1>9. ASSUME NEW ok \in BOOLEAN, ProbeFails(ok) PROVE TypeOK'
  BY <1>9, ReleaseType DEF ProbeFails, TypeOK
<1>10. ASSUME NEW ok \in BOOLEAN, ProbeRestarts(ok) PROVE TypeOK'
  BY <1>10, HoldAssumption DEF ProbeRestarts, TypeOK
<1>11. CASE ProbeSpent
  BY <1>11 DEF ProbeSpent, TypeOK
<1>12. CASE WizardCheck
  BY <1>12 DEF WizardCheck, TypeOK
<1>13. ASSUME NEW ok \in BOOLEAN, WizardSwap(ok) PROVE TypeOK'
  BY <1>13 DEF WizardSwap, TypeOK
<1>14. CASE WizardFails
  BY <1>14 DEF WizardFails, TypeOK
<1>15. CASE GoogleChanges
  BY <1>15, HoldAssumption DEF GoogleChanges, TypeOK
<1>16. CASE ExitExpires
  BY <1>16, HoldAssumption DEF ExitExpires, TypeOK
<1>17. CASE Crash
  BY <1>17, HoldAssumption DEF Crash, TypeOK
<1>18. CASE UNCHANGED vars
  BY <1>18 DEF vars, TypeOK
<1> QED BY <1>1, <1>2, <1>3, <1>4, <1>5, <1>6, <1>7, <1>8, <1>9, <1>10, <1>11, <1>12,
           <1>13, <1>14, <1>15, <1>16, <1>17, <1>18 DEF Next, Startup, Loop, Wizard

LEMMA HoldStep ==
  ASSUME TypeOK, HoldInv, [Next]_vars
  PROVE  HoldInv'
<1> USE DEF HoldInv, FreeOnlyIfTold, Worth, env, disk, memory
<1>1. CASE Boot
  BY <1>1 DEF Boot
<1>2. ASSUME NEW ok \in BOOLEAN, StartWithout(ok) PROVE HoldInv'
  BY <1>2 DEF StartWithout, Release, TypeOK
<1>3. ASSUME NEW ok \in BOOLEAN, NEW waited \in BOOLEAN, StartHeld(ok, waited) PROVE HoldInv'
  BY <1>3 DEF StartHeld, Hold, TypeOK
<1>4. CASE StartSwap
  BY <1>4 DEF StartSwap, TypeOK
<1>5. ASSUME NEW ok \in BOOLEAN, NEW removed \in BOOLEAN, StartPlace(ok, removed) PROVE HoldInv'
  BY <1>5 DEF StartPlace, TypeOK
<1>6. CASE Sync
  BY <1>6 DEF Sync
<1>7. CASE RetryUnlink
  BY <1>7 DEF RetryUnlink
<1>8. ASSUME NEW ok \in BOOLEAN, ProbeReleases(ok) PROVE HoldInv'
  BY <1>8 DEF ProbeReleases, Probing, Release
<1>9. ASSUME NEW ok \in BOOLEAN, ProbeFails(ok) PROVE HoldInv'
  BY <1>9 DEF ProbeFails, Probing
<1>10. ASSUME NEW ok \in BOOLEAN, ProbeRestarts(ok) PROVE HoldInv'
  BY <1>10 DEF ProbeRestarts
<1>11. CASE ProbeSpent
  BY <1>11 DEF ProbeSpent
<1>12. CASE WizardCheck
  BY <1>12 DEF WizardCheck
<1>13. ASSUME NEW ok \in BOOLEAN, WizardSwap(ok) PROVE HoldInv'
  BY <1>13 DEF WizardSwap
<1>14. CASE WizardFails
  BY <1>14 DEF WizardFails
<1>15. CASE GoogleChanges
  BY <1>15 DEF GoogleChanges
<1>16. CASE ExitExpires
  BY <1>16 DEF ExitExpires
<1>17. CASE Crash
  BY <1>17 DEF Crash
<1>18. CASE UNCHANGED vars
  BY <1>18 DEF vars
<1> QED BY <1>1, <1>2, <1>3, <1>4, <1>5, <1>6, <1>7, <1>8, <1>9, <1>10, <1>11, <1>12,
           <1>13, <1>14, <1>15, <1>16, <1>17, <1>18 DEF Next, Startup, Loop, Wizard

\* Only a sync fills an empty store.
LEMMA OnlySyncFills ==
  ASSUME [Next]_vars, store = "empty", store' = "synced"
  PROVE  Sync
<1> USE DEF env, disk, memory
<1> QED BY DEF Next, Startup, Loop, Wizard, vars, Boot, StartWithout, StartHeld, StartSwap,
     StartPlace, RetryUnlink, ProbeReleases, ProbeFails, ProbeRestarts, ProbeSpent,
     WizardCheck, WizardSwap, WizardFails, GoogleChanges, ExitExpires, Crash

\* Every step keeps the invariant of the hold.
LEMMA NextInv == Inv /\ [Next]_vars => Inv'
BY TypeInv, HoldStep DEF Inv

(* The inductive invariant of the hold.                                    *)
THEOREM InvHolds == Spec => []Inv
BY InitInv, NextInv, PTL DEF Spec

(* Every variable holds a state the code can put it in; the restarts in    *)
(* the window never exceed the watchdog's budget.                          *)
THEOREM TypeCorrect == Spec => []TypeOK
BY InvHolds, PTL DEF Inv

(* Through any number of outages, restarts, crashes and failed marker      *)
(* writes, sync does not fill an empty store while Drive holds a good      *)
(* restore point, unless credentials were refused or an error is reported. *)
THEOREM OutageNeverFillsHolds == Spec => OutageNeverFills
<1>1. Inv /\ [Next]_vars =>
        [store = "empty" /\ store' = "synced" /\ point = "good" => refused \/ error]_vars
  BY OnlySyncFills DEF Inv, HoldInv, FreeOnlyIfTold, Worth, Sync
<1> QED BY <1>1, InvHolds, PTL DEF Spec, OutageNeverFills

(* Nor are restore points that do not verify given up in silence.          *)
THEOREM BrokenSurfacesHolds == Spec => BrokenSurfaces
<1>1. Inv /\ [Next]_vars =>
        [store = "empty" /\ store' = "synced" /\ point = "broken" => refused \/ error]_vars
  BY OnlySyncFills DEF Inv, HoldInv, FreeOnlyIfTold, Worth, Sync
<1> QED BY <1>1, InvHolds, PTL DEF Spec, BrokenSurfaces

---------------------------------------------------------------------------
(* The two threads and the watchdog. *)

(* How old the oldest stamp that the cycle thread keeps can be in each of its
   states when nothing that may last any time has lasted a tick: a pause, then
   the rest of a cycle, then an upload step, each of less than two ticks. *)
Budget ==
  CASE cycle = "idle" -> lag.cycle
    [] cycle \in {"run", "want", "section", "yield"} -> 1 + lag.cycle
    [] cycle = "upload" -> 2 + lag.cycle
    [] OTHER -> 2

Excused == cycle \in Wedged \/ late # {}

LoopTypes ==
  /\ cycle \in CycleStates
  /\ lag.cycle \in {0, 1} /\ lag = [cycle |-> lag.cycle, maint |-> lag.maint]
  /\ age \in [DOMAIN age -> Nat]
  /\ exits \in Nat

(* The watchdog looks at "maintenance" only after its own thread stamped it. *)
AtMost(stamps, b) == \A k \in DOMAIN stamps \ {"maintenance"} : stamps[k] <= b
WithinBudget == Excused \/ AtMost(age, Budget)

LoopInv == LoopTypes /\ WithinBudget

\* Stamping makes no stamp older, and the one stamped fresh.
LEMMA Stamped ==
  ASSUME NEW key, LoopTypes
  PROVE  /\ Noted(key) \in [DOMAIN Noted(key) -> Nat]
         /\ \A b \in Nat : AtMost(age, b) => AtMost(Noted(key), b)
BY DEF Noted, LoopTypes, AtMost

\* Stamping all leaves no stamp older than any budget.
LEMMA AllStamped ==
  ASSUME NEW stamps
  PROVE  /\ AllFresh(stamps) \in [DOMAIN AllFresh(stamps) -> Nat]
         /\ \A b \in Nat : AtMost(AllFresh(stamps), b)
BY DEF AllFresh, AtMost

\* A tick ages every stamp by at most one.
LEMMA Aged ==
  ASSUME LoopTypes
  PROVE  /\ Older \in [DOMAIN Older -> Nat]
         /\ \A b \in Nat : AtMost(age, b) => AtMost(Older, b + 1)
BY DaemonAssumption DEF Older, LoopTypes, AtMost

\* What is not older than a budget is not older than a larger one.
LEMMA Looser ==
  ASSUME LoopTypes, NEW b \in Nat, NEW c \in Nat, b <= c, AtMost(age, b)
  PROVE  AtMost(age, c)
BY DEF LoopTypes, AtMost

\* Each step keeps the types ...
LEMMA LoopTypesStep ==
  ASSUME LoopTypes, [LoopNext]_loopVars
  PROVE  LoopTypes'
<1> USE DEF LoopTypes, Goto, Stay, threadVars, flagVars, boundVars, CycleStates, Paced, Wedged,
            InCapture
<1>1. CASE SkipCycle
  BY <1>1, AllStamped DEF SkipCycle
<1>2. CASE BeginCycle
  BY <1>2 DEF BeginCycle
<1>3. CASE WantSection
  BY <1>3 DEF WantSection
<1>4. CASE EnterSection
  BY <1>4 DEF EnterSection
<1>5. CASE LeaveSection
  BY <1>5 DEF LeaveSection
<1>6. CASE EndYield
  BY <1>6 DEF EndYield
<1>7. CASE SyncDone
  BY <1>7, Stamped DEF SyncDone
<1>8. CASE CycleDone
  BY <1>8, Stamped DEF CycleDone
<1>9. CASE StartBackup
  BY <1>9, Stamped DEF StartBackup
<1>10. CASE StartCopy
  BY <1>10 DEF StartCopy
<1>11. CASE CaptureBusy
  BY <1>11 DEF CaptureBusy
<1>12. CASE Copied
  BY <1>12 DEF Copied
<1>13. CASE Packed
  BY <1>13 DEF Packed
<1>14. CASE EndStep
  BY <1>14, AllStamped, Stamped DEF EndStep
<1>15. CASE CycleFails
  BY <1>15, Stamped DEF CycleFails
<1>16. CASE Hang
  BY <1>16 DEF Hang
<1>17. CASE UploadProgress
  BY <1>17, Stamped DEF UploadProgress
<1>18. CASE SleepOn
  BY <1>18 DEF SleepOn
<1>19. CASE Wake
  BY <1>19 DEF Wake
<1>20. CASE GetLock
  BY <1>20 DEF GetLock
<1>21. CASE SkipPass
  BY <1>21 DEF SkipPass
<1>22. CASE EndPass
  BY <1>22 DEF EndPass
<1>23. CASE KeepWatch
  BY <1>23, Stamped DEF KeepWatch
<1>24. CASE Restart
  BY <1>24 DEF Restart
<1>25. CASE ThreadDies
  BY <1>25 DEF ThreadDies
<1>26. CASE Pause
  BY <1>26 DEF Pause
<1>27. CASE Resume
  BY <1>27, AllStamped DEF Resume
<1>28. CASE HoldLifts
  BY <1>28 DEF HoldLifts
<1>29. CASE FallsDue
  BY <1>29 DEF FallsDue
<1>30. CASE ExitAgesOut
  BY <1>30 DEF ExitAgesOut
<1>31. CASE Tick
  BY <1>31, Aged DEF Tick
<1>32. CASE UNCHANGED loopVars
  BY <1>32 DEF loopVars
<1> QED BY <1>1, <1>2, <1>3, <1>4, <1>5, <1>6, <1>7, <1>8, <1>9, <1>10, <1>11, <1>12, <1>13,
           <1>14, <1>15, <1>16, <1>17, <1>18, <1>19, <1>20, <1>21, <1>22, <1>23, <1>24,
           <1>25, <1>26, <1>27, <1>28, <1>29, <1>30, <1>31, <1>32 DEF LoopNext, CycleThread,
           MaintThread, World

\* ... and every stamp within its budget, or leaves something to excuse it.
LEMMA WithinBudgetStep ==
  ASSUME LoopTypes, WithinBudget, LoopTypes', [LoopNext]_loopVars
  PROVE  WithinBudget'
<1>0. Budget \in 0..3 /\ Budget' \in 0..3
  BY DEF LoopTypes, Budget, CycleStates, Paced, Wedged, InCapture
<1> USE DEF LoopTypes, WithinBudget, Budget, Excused, Goto, Stay, threadVars, flagVars, boundVars,
            CycleStates, Paced, Wedged, InCapture
<1>1. CASE SkipCycle
  <2>1. CASE paused
    BY <1>1, <2>1, Looser DEF SkipCycle
  <2>2. CASE ~paused
    BY <1>1, <2>2, AllStamped DEF SkipCycle
  <2> QED
    BY <2>1, <2>2
<1>2. CASE BeginCycle
  <2>1. Budget <= 1 /\ Budget' = 1
    BY <1>2 DEF BeginCycle
  <2>2. AtMost(age, Budget) => AtMost(age, 1)
    BY <2>1, Looser
  <2> QED
    BY <1>2, <2>1, <2>2 DEF BeginCycle
<1>3. CASE WantSection
  BY <1>3 DEF WantSection
<1>4. CASE EnterSection
  BY <1>4 DEF EnterSection
<1>5. CASE LeaveSection
  BY <1>5 DEF LeaveSection
<1>6. CASE EndYield
  BY <1>6 DEF EndYield
<1>7. CASE SyncDone
  BY <1>7, Stamped DEF SyncDone
<1>8. CASE CycleDone
  <2>1. Budget <= 2 /\ Budget' = 2
    BY <1>8 DEF CycleDone
  <2>2. AtMost(age, Budget) => AtMost(Noted("cycle"), 2)
    BY <2>1, Looser, Stamped
  <2> QED
    BY <1>8, <2>1, <2>2 DEF CycleDone
<1>9. CASE StartBackup
  BY <1>9, Stamped DEF StartBackup
<1>10. CASE StartCopy
  BY <1>10 DEF StartCopy
<1>11. CASE CaptureBusy
  BY <1>11 DEF CaptureBusy
<1>12. CASE Copied
  BY <1>12 DEF Copied
<1>13. CASE Packed
  BY <1>13 DEF Packed
<1>14. CASE EndStep
  BY <1>14, AllStamped, Stamped DEF EndStep
<1>15. CASE CycleFails
  <2>1. Budget <= 2 /\ Budget' = 2
    BY <1>15 DEF CycleFails
  <2>2. AtMost(age, Budget) => AtMost(Noted("cycle"), 2)
    BY <2>1, Looser, Stamped
  <2> QED
    BY <1>15, <2>1, <2>2 DEF CycleFails
<1>16. CASE Hang
  BY <1>16 DEF Hang
<1>17. CASE UploadProgress
  BY <1>17, Stamped DEF UploadProgress
<1>18. CASE SleepOn
  BY <1>18 DEF SleepOn
<1>19. CASE Wake
  BY <1>19 DEF Wake
<1>20. CASE GetLock
  BY <1>20 DEF GetLock
<1>21. CASE SkipPass
  BY <1>21 DEF SkipPass
<1>22. CASE EndPass
  BY <1>22 DEF EndPass
<1>23. CASE KeepWatch
  BY <1>23, Stamped DEF KeepWatch
<1>24. CASE Restart
  <2>1. Budget' = 1 /\ age' = [k \in {"cycle"} |-> 0]
    BY <1>24 DEF Restart
  <2>2. AtMost(age', 1)
    BY <2>1 DEF AtMost
  <2> QED
    BY <2>1, <2>2
<1>25. CASE ThreadDies
  BY <1>25 DEF ThreadDies
<1>26. CASE Pause
  BY <1>26 DEF Pause
<1>27. CASE Resume
  BY <1>27, AllStamped DEF Resume
<1>28. CASE HoldLifts
  BY <1>28 DEF HoldLifts
<1>29. CASE FallsDue
  BY <1>29 DEF FallsDue
<1>30. CASE ExitAgesOut
  BY <1>30 DEF ExitAgesOut
<1>31. CASE Tick
  <2>1. CASE cycle \in Paced
    <3>1. lag.cycle = 0 /\ lag'.cycle = 1 /\ cycle' = cycle
      BY <1>31, <2>1 DEF Tick, BlockedByPass
    <3>2. Budget' = Budget + 1
      BY <2>1, <3>1
    <3>3. AtMost(age, Budget) => AtMost(age', Budget')
      BY <1>31, <1>0, <3>2, Aged DEF Tick
    <3> QED
      BY <1>31, <2>1, <3>3 DEF Tick
  <2>2. CASE cycle \notin Paced
    BY <1>31, <2>2 DEF Tick, BlockedByPass
  <2> QED
    BY <2>1, <2>2
<1>32. CASE UNCHANGED loopVars
  BY <1>32 DEF loopVars
<1> QED BY <1>1, <1>2, <1>3, <1>4, <1>5, <1>6, <1>7, <1>8, <1>9, <1>10, <1>11, <1>12, <1>13,
           <1>14, <1>15, <1>16, <1>17, <1>18, <1>19, <1>20, <1>21, <1>22, <1>23, <1>24,
           <1>25, <1>26, <1>27, <1>28, <1>29, <1>30, <1>31, <1>32 DEF LoopNext, CycleThread,
           MaintThread, World

(* In a reachable state either the cycle thread is stuck, or something that may
   last has lasted a tick, or no stamp of the cycle's is older than its budget. *)
THEOREM LoopInvHolds == LoopSpec => []LoopInv
<1>1. LoopInit => LoopInv
  BY DEF LoopInit, LoopInv, LoopTypes, WithinBudget, AtMost, Budget, CycleStates, Paced
<1>2. LoopInv /\ [LoopNext]_loopVars => LoopInv'
  BY LoopTypesStep, WithinBudgetStep DEF LoopInv
<1> QED
  BY <1>1, <1>2, PTL DEF LoopSpec

\* Only the watchdog adds to the exits, and only over a stamp that is too old.
LEMMA RestartsAreStalls ==
  ASSUME LoopInv, [LoopNext]_loopVars, exits' > exits
  PROVE  cycle \in Wedged \/ late # {}
<1>1. Restart
  BY DEF LoopInv, LoopTypes, LoopNext, CycleThread, MaintThread, World, loopVars, threadVars,
         flagVars, boundVars, SkipCycle, BeginCycle, WantSection, EnterSection, LeaveSection,
         EndYield, SyncDone, CycleDone, StartBackup, StartCopy, CaptureBusy, Copied, Packed,
         EndStep, CycleFails, Hang, UploadProgress, SleepOn, Wake, GetLock, SkipPass, EndPass,
         KeepWatch, ThreadDies, Pause, Resume, HoldLifts, FallsDue, ExitAgesOut, Tick
<1>2. PICK k \in DOMAIN Noted("maintenance") : Noted("maintenance")[k] > Stall
  BY <1>1 DEF Restart, MayRecover, Stalled
<1>3. k \in DOMAIN age \ {"maintenance"} /\ age[k] > Stall
  BY <1>2, DaemonAssumption DEF Noted
<1>4. Budget \in 0..3
  BY DEF LoopInv, LoopTypes, Budget
<1>5. ~(age[k] <= Budget)
  BY <1>3, <1>4, DaemonAssumption DEF LoopInv, LoopTypes
<1> QED
  BY <1>3, <1>5 DEF LoopInv, WithinBudget, AtMost, Excused

(* However the two threads interleave, fail, hang, pause, hold and wait for
   each other, the watchdog ends the process only when the cycle thread is
   stuck, or when a pass under the lock or a capture lasted a tick since all
   was restamped. *)
THEOREM WatchdogSparesTheHealthy == LoopSpec => NoNeedlessRestart
<1>1. LoopInv /\ [LoopNext]_loopVars =>
        [exits' > exits => cycle \in Wedged \/ late # {}]_loopVars
  BY RestartsAreStalls
<1> QED
  BY <1>1, LoopInvHolds, PTL DEF LoopSpec, NoNeedlessRestart
=============================================================================
